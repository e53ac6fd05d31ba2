---------------------------- MODULE Limits_proofs ----------------------------
(***************************************************************************)
(* The circuit breaker, the connection limiter and the tenants count what   *)
(* they bound rightly, and the certificate cache keeps what it should: for  *)
(* any number of calls, sockets, addresses, tenants, connections and        *)
(* domains, and any thresholds and limits.  Each component has its inductive*)
(* invariant; MCLimits, which runs one of them, has them all.               *)
(***************************************************************************)
EXTENDS MCLimits, FiniteSetTheorems, ProofLemmas

(***************************************************************************)
(* The circuit breaker.                                                     *)
(***************************************************************************)
Plain == {c \in Calls : call[c] = "plain"}

(* The entry: counters that reach their threshold open or close the circuit *)
(* in the same step, and only a period cut short can leave every slot taken.*)
EntrySound ==
    /\ circuit.state = "absent" => circuit = NoCircuit
    /\ circuit.state = "closed" => circuit.failures < FailureThreshold
    /\ circuit.successes < SuccessThreshold
    /\ circuit.state # "half_open" => circuit.slots <= HalfOpenMax

(* Outside the half-open state there is neither a trial nor a history.      *)
PeriodSound ==
    /\ circuit.state # "half_open" => Trials = {} /\ period.late = 0 /\ period.good = 0
    /\ period.late + Cardinality(Plain) <= Cardinality(Calls)

(* Every trial holds a slot, except one for each late result; and while no  *)
(* period is cut short, the slots lost leave room for one.                  *)
SlotsSound ==
    /\ Cardinality(Trials) <= circuit.slots + period.late
    /\ Cardinality(Trials) <= HalfOpenMax + period.late
    /\ ~period.forced => circuit.slots <= HalfOpenMax
    /\ ~period.forced /\ Trials = {} => circuit.slots < HalfOpenMax

SuccessesSound ==
    /\ circuit.state = "half_open" => period.good + period.late <= circuit.successes
    /\ ~period.forced => circuit.successes <= period.good + period.late

BreakerInv == BreakerTypeOK /\ EntrySound /\ PeriodSound /\ SlotsSound /\ SuccessesSound

(***************************************************************************)
(* The connection limiter.                                                  *)
(***************************************************************************)
(* Only a socket that is there is on the books: one that comes is new.      *)
LimiterInv == /\ LimiterTypeOK /\ ConnectionsCounted
              /\ \A s \in owned : socket[s] # "none"

(***************************************************************************)
(* The tenants.                                                             *)
(***************************************************************************)
Former(t) == {c \in Conns : conn[c] = [status |-> "former", of |-> t]}

(* A connection is resolved to a tenant, and counted against one that is    *)
(* there; the strays of a tenant and those that may still become such are   *)
(* connections.                                                             *)
TenantInv == /\ TenantTypeOK /\ TenantDrift
             /\ \A c \in Conns : /\ conn[c].status # "idle" => conn[c].of \in Tenants
                                 /\ conn[c].status = "present" => tenant[conn[c].of].here
             /\ \A t \in Tenants : stray[t] + Cardinality(Former(t)) <= Cardinality(Conns)

(***************************************************************************)
(* The certificates.                                                        *)
(***************************************************************************)
Before(s, a, b) == \E i, j \in 1 .. Len(s) : i < j /\ s[i] = a /\ s[j] = b

Later(s, d) == {e \in ToSet(s) : Before(s, d, e)}

(* A cache c that was asked for r, with E expired: what it keeps is in the  *)
(* order it was asked for in, and what it does not keep has expired, or so  *)
(* many were asked for later that a cache of its size has no room for it.   *)
LruInv(c, r, E) ==
    /\ c \in Seq(Domains) /\ IsInjective(c) /\ Len(c) <= MaxSize
    /\ r \in Seq(Domains) /\ IsInjective(r) /\ ToSet(c) \subseteq ToSet(r)
    /\ \A a, b : Before(c, a, b) => Before(r, a, b)
    /\ \A d \in ToSet(r) \ ToSet(c) : d \in E \/ MaxSize <= Cardinality(Later(r, d))

ExpiredOnes == {d \in Domains : Expired(d)}

CertInv == /\ CertTypeOK /\ LruInv(cache, recency, ExpiredOnes)
           /\ Ttl # 0 => served <= Ttl

-----------------------------------------------------------------------------
(* The connection limiter.                                                  *)

LEMMA OwnedIsFinite ==
    ASSUME LimiterInv
    PROVE  IsFiniteSet(owned) /\ \A i \in Ips : IsFiniteSet({s \in owned : IpOf[s] = i})
<1>1. IsFiniteSet(owned)
  BY FS_Subset, LimiterAssumption DEF LimiterInv, LimiterTypeOK
<1> QED BY <1>1, FS_Subset

LEMMA LimiterInitInv == LimiterInit => LimiterInv
<1> SUFFICES ASSUME LimiterInit PROVE LimiterInv
  OBVIOUS
<1>1. \A i \in Ips : {s \in owned : IpOf[s] = i} = {}
  BY DEF LimiterInit
<1>2. ConnectionsCounted
  BY <1>1, FS_EmptySet, LimiterAssumption DEF LimiterInit, ConnectionsCounted
<1> QED BY <1>2 DEF LimiterInv, LimiterInit, LimiterTypeOK

LEMMA TrackKeepsBooks ==
    ASSUME LimiterInv, NEW s \in Sockets, Track(s) PROVE LimiterInv'
<1> DEFINE under(i) == {x \in owned : IpOf[x] = i}
<1>1. s \notin owned /\ IpOf[s] \in Ips
  BY LimiterAssumption DEF LimiterInv, Track
<1>2. LimiterTypeOK'
  <2>1. byIp' \in [Ips -> SUBSET Sockets]
    BY <1>1 DEF LimiterInv, LimiterTypeOK, Track
  <2>2. total' \in Nat /\ socket' \in [Sockets -> {"none", "open", "failed"}] /\ owned' \subseteq Sockets
    BY DEF LimiterInv, LimiterTypeOK, Track
  <2> QED BY <2>1, <2>2 DEF LimiterTypeOK
<1>3. \A x \in owned' : socket'[x] # "none"
  BY DEF LimiterInv, LimiterTypeOK, Track
<1>4. \A i \in Ips : under(i)' = IF i = IpOf[s] THEN under(i) \cup {s} ELSE under(i)
  BY DEF Track
<1>5. \A i \in Ips : byIp'[i] = under(i)'
  BY <1>4 DEF LimiterInv, LimiterTypeOK, ConnectionsCounted, Track
<1>6. total' = Cardinality(owned') /\ total' <= MaxTotal
  <2>1. Cardinality(owned \cup {s}) = Cardinality(owned) + 1
    BY <1>1, OwnedIsFinite, FS_AddElement
  <2> QED BY <2>1, LimiterAssumption
          DEF LimiterInv, LimiterTypeOK, ConnectionsCounted, Track, CanAccept
<1>7. ASSUME NEW i \in Ips PROVE Cardinality(byIp'[i]) <= MaxPerIp
  <2>1. CASE i = IpOf[s]
    <3>1. Cardinality(under(i) \cup {s}) = Cardinality(under(i)) + 1
      BY <1>1, OwnedIsFinite, FS_AddElement
    <3>2. Cardinality(under(i)) < MaxPerIp /\ Cardinality(under(i)) \in Nat
      BY <2>1, OwnedIsFinite, FS_CardinalityType
         DEF LimiterInv, ConnectionsCounted, Track, CanAccept
    <3> HIDE DEF under
    <3>3. byIp'[i] = under(i) \cup {s}
      BY <1>4, <1>5, <2>1
    <3> QED BY <3>1, <3>2, <3>3, LimiterAssumption
  <2>2. CASE i # IpOf[s]
    BY <1>4, <1>5, <2>2 DEF LimiterInv, ConnectionsCounted
  <2> QED BY <2>1, <2>2
<1> QED BY <1>2, <1>3, <1>5, <1>6, <1>7 DEF LimiterInv, ConnectionsCounted

(* A socket leaves the books once, however often its end is reported.       *)
LEMMA UntrackKeepsBooks ==
    ASSUME LimiterInv, NEW s \in Sockets, Untrack(s),
           socket' \in [Sockets -> {"none", "open", "failed"}],
           \A x \in Sockets \ {s} : socket'[x] = socket[x]
    PROVE  LimiterInv'
<1> DEFINE under(i) == {x \in owned : IpOf[x] = i}
<1>1. IpOf[s] \in Ips /\ (s \in byIp[IpOf[s]] <=> s \in owned)
  BY LimiterAssumption DEF LimiterInv, ConnectionsCounted
<1>2. \A i \in Ips : under(i)' = IF i = IpOf[s] THEN under(i) \ {s} ELSE under(i)
  BY DEF Untrack
<1>3. \A i \in Ips : byIp'[i] = under(i)'
  BY <1>2 DEF LimiterInv, LimiterTypeOK, ConnectionsCounted, Untrack
<1>4. total \in Nat /\ total = Cardinality(owned) /\ total <= MaxTotal
  BY DEF LimiterInv, LimiterTypeOK, ConnectionsCounted
<1>5. s \in owned => total > 0
  BY <1>4, OwnedIsFinite, FS_EmptySet
<1>6. total' \in Nat /\ total' = Cardinality(owned') /\ total' <= MaxTotal
  <2>1. Cardinality(owned \ {s}) = IF s \in owned THEN Cardinality(owned) - 1 ELSE Cardinality(owned)
    BY OwnedIsFinite, FS_RemoveElement
  <2> QED BY <1>1, <1>4, <1>5, <2>1, LimiterAssumption DEF Untrack
<1>7. ASSUME NEW i \in Ips PROVE Cardinality(byIp'[i]) <= MaxPerIp
  <2>1. IsFiniteSet(under(i)) /\ Cardinality(under(i)) \in Nat /\ Cardinality(under(i)) <= MaxPerIp
    BY OwnedIsFinite, FS_CardinalityType DEF LimiterInv, ConnectionsCounted
  <2> HIDE DEF under
  <2>2. Cardinality(under(i) \ {s}) <= Cardinality(under(i))
    BY <2>1, FS_RemoveElement
  <2>3. Cardinality(under(i) \ {s}) \in Nat
    BY <2>1, FS_RemoveElement, FS_CardinalityType
  <2> QED BY <1>2, <1>3, <2>1, <2>2, <2>3, LimiterAssumption
<1>8. LimiterTypeOK'
  BY <1>6 DEF LimiterInv, LimiterTypeOK, Untrack
<1>9. \A x \in owned' : socket'[x] # "none"
  BY DEF LimiterInv, LimiterTypeOK, Untrack
<1> QED BY <1>3, <1>6, <1>7, <1>8, <1>9 DEF LimiterInv, ConnectionsCounted

LEMMA LimiterStep == LimiterInv /\ [LimiterNext]_limiterVars => LimiterInv'
<1> SUFFICES ASSUME LimiterInv, [LimiterNext]_limiterVars PROVE LimiterInv'
  OBVIOUS
<1> USE DEF LimiterInv, LimiterTypeOK
<1>1. ASSUME NEW s \in Sockets, Track(s) PROVE LimiterInv'
  BY <1>1, TrackKeepsBooks
<1>2. ASSUME NEW s \in Sockets, SocketFails(s) PROVE LimiterInv'
  BY <1>2, UntrackKeepsBooks DEF SocketFails
<1>3. ASSUME NEW s \in Sockets, SocketCloses(s) PROVE LimiterInv'
  BY <1>3, UntrackKeepsBooks DEF SocketCloses
<1>4. ASSUME NEW s \in Sockets, Cleanup(s) PROVE LimiterInv'
  BY <1>4, UntrackKeepsBooks DEF Cleanup
<1>5. CASE LimiterReset
  <2>1. \A i \in Ips : {s \in owned' : IpOf[s] = i} = {}
    BY <1>5 DEF LimiterReset
  <2> QED BY <1>5, <2>1, FS_EmptySet, LimiterAssumption DEF LimiterReset, ConnectionsCounted
<1>6. CASE UNCHANGED limiterVars
  BY <1>6 DEF limiterVars, ConnectionsCounted
<1> QED BY <1>1, <1>2, <1>3, <1>4, <1>5, <1>6 DEF LimiterNext

-----------------------------------------------------------------------------
(* The tenants.                                                             *)

LEMMA TenantCardinals ==
    ASSUME NEW t \in Tenants
    PROVE  /\ IsFiniteSet(Counted(t)) /\ Cardinality(Counted(t)) \in Nat
           /\ IsFiniteSet(Former(t)) /\ Cardinality(Former(t)) \in Nat
           /\ Cardinality(Counted(t)) <= Cardinality(Conns)
           /\ Cardinality(Former(t)) <= Cardinality(Conns)
           /\ Cardinality(Conns) \in Nat
<1>1. Counted(t) \subseteq Conns /\ Former(t) \subseteq Conns
  BY DEF Counted, Former
<1> QED BY <1>1, FS_Subset, FS_CardinalityType, TenantAssumption

LEMMA TenantInitInv == TenantInit => TenantInv
<1> SUFFICES ASSUME TenantInit PROVE TenantInv
  OBVIOUS
<1>1. Cardinality(Conns) \in Nat
  BY FS_CardinalityType, TenantAssumption
<1>2. \A t \in Tenants : Counted(t) = {} /\ Former(t) = {}
  BY DEF TenantInit, Counted, Former, Idle
<1>3. TenantTypeOK
  BY <1>1 DEF TenantInit, TenantTypeOK, Idle
<1>4. Cardinality({}) = 0
  BY FS_EmptySet
<1>5. \A t \in Tenants : Cardinality(Counted(t)) = 0 /\ Cardinality(Former(t)) = 0
  BY <1>2, <1>4
<1> QED BY <1>1, <1>2, <1>3, <1>5 DEF TenantInit, TenantInv, TenantDrift, Idle

(* An addition or an update of a tenant leaves it there.                    *)
LEMMA AddTenantKeeps ==
    ASSUME TenantInv, NEW t \in Tenants, NEW config \in Configs, AddTenant(t, config)
    PROVE  TenantInv'
<1>1. \A u \in Tenants : Counted(u)' = Counted(u) /\ Former(u)' = Former(u)
  BY DEF AddTenant, Counted, Former
<1>2. TenantTypeOK'
  BY DEF TenantInv, TenantTypeOK, AddTenant
<1>3. \A u \in Tenants : tenant[u].here => tenant'[u].here
  BY DEF TenantInv, TenantTypeOK, AddTenant, Configs
<1> QED BY <1>1, <1>2, <1>3 DEF TenantInv, TenantDrift, AddTenant

(* The connections of a tenant that goes become former ones, and the count  *)
(* of strays starts again.                                                  *)
LEMMA ForgetKeeps ==
    ASSUME TenantInv, NEW gone \in SUBSET Tenants, Forget(gone) PROVE TenantInv'
<1>1. conn' \in [Conns -> [status : {"idle", "resolved", "present", "former"},
                           of : Tenants \cup {NoTenant}]]
  BY DEF TenantInv, TenantTypeOK, Forget
<1>2. \A t \in gone : Counted(t)' = {}
  BY DEF TenantInv, TenantTypeOK, Forget, Counted
<1>3. \A t \in Tenants \ gone : Counted(t)' = Counted(t) /\ Former(t)' = Former(t)
  BY DEF TenantInv, TenantTypeOK, Forget, Counted, Former
<1>4. \A t \in Tenants : Cardinality(Former(t)') <= Cardinality(Conns)
                         /\ Cardinality(Former(t)') \in Nat
  <2> SUFFICES ASSUME NEW t \in Tenants
               PROVE  Cardinality(Former(t)') <= Cardinality(Conns)
                      /\ Cardinality(Former(t)') \in Nat
    OBVIOUS
  <2>1. Former(t)' \subseteq Conns
    BY DEF Former
  <2> QED BY <2>1, FS_Subset, FS_CardinalityType, TenantAssumption
<1>5. Cardinality(Conns) \in Nat
  BY FS_CardinalityType, TenantAssumption
<1>6. TenantTypeOK'
  BY <1>1, <1>5 DEF TenantInv, TenantTypeOK, Forget
<1>7. TenantDrift'
  <2> SUFFICES ASSUME NEW t \in Tenants
               PROVE  /\ stats'[t] <= Cardinality(Counted(t)')
                      /\ Cardinality(Counted(t)') <= stats'[t] + stray'[t]
    BY DEF TenantDrift
  <2>1. CASE t \in gone
    <3>1. stats'[t] = 0 /\ stray'[t] = 0
      BY <2>1 DEF Forget
    <3> QED BY <1>2, <2>1, <3>1, FS_EmptySet
  <2>2. CASE t \notin gone
    <3>1. stats'[t] = stats[t] /\ stray'[t] = stray[t]
      BY <2>2 DEF Forget
    <3> QED BY <1>3, <2>2, <3>1 DEF TenantInv, TenantDrift
  <2> QED BY <2>1, <2>2
<1>8. ASSUME NEW c \in Conns
      PROVE  /\ conn'[c].status # "idle" => conn'[c].of \in Tenants
             /\ conn'[c].status = "present" => tenant'[conn'[c].of].here
  BY DEF TenantInv, TenantTypeOK, Forget
<1>9. ASSUME NEW t \in Tenants
      PROVE  stray'[t] + Cardinality(Former(t)') <= Cardinality(Conns)
  BY <1>3, <1>4, <1>5 DEF TenantInv, Forget
<1> QED BY <1>6, <1>7, <1>8, <1>9 DEF TenantInv

LEMMA ResolveTenantKeeps ==
    ASSUME TenantInv, NEW c \in Conns, NEW named \in Tenants \cup {NoTenant},
           ResolveTenant(c, named)
    PROVE  TenantInv'
<1> DEFINE t == IF named = NoTenant THEN DefaultTenant ELSE named
<1>1. /\ conn[c] = Idle /\ t \in Tenants
      /\ conn' = [conn EXCEPT ![c] = [status |-> "resolved", of |-> t]]
      /\ UNCHANGED <<tenant, stats, stray>>
  BY TenantAssumption DEF ResolveTenant
<1> HIDE DEF t
<1>2. \A u \in Tenants : Counted(u)' = Counted(u) /\ Former(u)' = Former(u)
  BY <1>1 DEF TenantInv, TenantTypeOK, Counted, Former, Idle
<1>3. TenantTypeOK'
  BY <1>1 DEF TenantInv, TenantTypeOK
<1> QED BY <1>1, <1>2, <1>3 DEF TenantInv, TenantTypeOK, TenantDrift

LEMMA IncrementKeeps ==
    ASSUME TenantInv, NEW c \in Conns, IncrementConnections(c) PROVE TenantInv'
<1> DEFINE t == conn[c].of
<1>1. conn[c].status = "resolved" /\ t \in Tenants /\ UNCHANGED <<tenant, stray>>
  BY DEF TenantInv, IncrementConnections
<1>2. conn[c] = [status |-> "resolved", of |-> t]
  BY <1>1 DEF TenantInv, TenantTypeOK
<1>3. CASE HasRoom(t)
  <2>1. /\ stats' = [stats EXCEPT ![t] = @ + 1]
        /\ conn' = [conn EXCEPT ![c] = [status |-> "present", of |-> t]]
    BY <1>2, <1>3 DEF IncrementConnections
  <2> HIDE DEF t
  <2>2. \A u \in Tenants : /\ Counted(u)' = IF u = t THEN Counted(u) \cup {c} ELSE Counted(u)
                           /\ Former(u)' = Former(u)
    BY <1>1, <1>2, <2>1 DEF TenantInv, TenantTypeOK, Counted, Former
  <2>3. Cardinality(Counted(t) \cup {c}) = Cardinality(Counted(t)) + 1
    <3>1. c \notin Counted(t)
      BY <1>2 DEF Counted
    <3>2. IsFiniteSet(Counted(t))
      BY <1>1, TenantCardinals
    <3> QED BY <3>1, <3>2, FS_AddElement
  <2>4. Cardinality(Counted(t) \cup {c}) <= Cardinality(Conns)
    <3>1. Counted(t) \cup {c} \subseteq Conns
      BY DEF Counted
    <3> QED BY <3>1, FS_Subset, TenantAssumption
  <2>5. TenantDrift'
    <3> SUFFICES ASSUME NEW u \in Tenants
                 PROVE  /\ stats'[u] <= Cardinality(Counted(u)')
                        /\ Cardinality(Counted(u)') <= stats'[u] + stray'[u]
      BY DEF TenantDrift
    <3>1. /\ Cardinality(Counted(u)) \in Nat /\ stats[u] \in Nat /\ stray[u] \in Nat
          /\ stats[u] <= Cardinality(Counted(u))
          /\ Cardinality(Counted(u)) <= stats[u] + stray[u]
      BY TenantCardinals DEF TenantInv, TenantTypeOK, TenantDrift
    <3>2. stats'[u] = IF u = t THEN stats[u] + 1 ELSE stats[u]
      BY <1>1, <2>1 DEF TenantInv, TenantTypeOK
    <3>3. Cardinality(Counted(u)') = IF u = t THEN Cardinality(Counted(u)) + 1
                                              ELSE Cardinality(Counted(u))
      BY <2>2, <2>3
    <3>4. stray'[u] = stray[u]
      BY <1>1
    <3> QED BY <3>1, <3>2, <3>3, <3>4
  <2>6. TenantTypeOK'
    <3>1. stats'[t] \in 0 .. Cardinality(Conns)
      BY <1>1, <2>1, <2>2, <2>3, <2>4, <2>5, TenantCardinals
         DEF TenantInv, TenantTypeOK, TenantDrift
    <3> QED BY <1>1, <2>1, <3>1 DEF TenantInv, TenantTypeOK
  <2>7. tenant[t].here
    BY <1>3 DEF HasRoom
  <2> QED BY <1>1, <2>1, <2>2, <2>5, <2>6, <2>7 DEF TenantInv, TenantTypeOK
<1>4. CASE ~HasRoom(t)
  <2>1. conn' = [conn EXCEPT ![c] = Idle] /\ UNCHANGED stats
    BY <1>4 DEF IncrementConnections
  <2>2. \A u \in Tenants : Counted(u)' = Counted(u) /\ Former(u)' = Former(u)
    BY <1>1, <2>1 DEF TenantInv, TenantTypeOK, Counted, Former, Idle
  <2>3. TenantTypeOK'
    BY <1>1, <2>1 DEF TenantInv, TenantTypeOK, Idle
  <2> QED BY <1>1, <2>1, <2>2, <2>3 DEF TenantInv, TenantTypeOK, TenantDrift, Idle
<1> QED BY <1>3, <1>4

(* The connection of a former tenant takes one from the present one, which  *)
(* is counted as a stray.                                                   *)
LEMMA DecrementKeeps ==
    ASSUME TenantInv, NEW c \in Conns, DecrementConnections(c) PROVE TenantInv'
<1> DEFINE t == conn[c].of
           former == conn[c].status = "former"
<1>1. /\ t \in Tenants /\ UNCHANGED tenant
      /\ conn[c] = [status |-> IF former THEN "former" ELSE "present", of |-> t]
      /\ ~former => tenant[t].here
      /\ conn' = [conn EXCEPT ![c] = Idle]
      /\ stats' = [stats EXCEPT ![t] = IF tenant[t].here /\ @ > 0 THEN @ - 1 ELSE @]
      /\ stray' = [stray EXCEPT ![t] = IF tenant[t].here /\ former THEN @ + 1 ELSE @]
  BY DEF TenantInv, TenantTypeOK, DecrementConnections
<1> HIDE DEF t, former
<1>2. \A u \in Tenants :
          /\ Counted(u)' = IF u = t /\ ~former THEN Counted(u) \ {c} ELSE Counted(u)
          /\ Former(u)' = IF u = t /\ former THEN Former(u) \ {c} ELSE Former(u)
  BY <1>1 DEF TenantInv, TenantTypeOK, Counted, Former, Idle
<1>3. /\ ~former => Cardinality(Counted(t) \ {c}) = Cardinality(Counted(t)) - 1
      /\ former => Cardinality(Former(t) \ {c}) = Cardinality(Former(t)) - 1
  BY <1>1, TenantCardinals, FS_RemoveElement DEF Counted, Former
<1>4. \A u \in Tenants : /\ Cardinality(Counted(u)) \in Nat /\ Cardinality(Former(u)) \in Nat
                         /\ stats[u] \in Nat /\ stray[u] \in Nat
                         /\ stats[u] <= Cardinality(Conns) /\ Cardinality(Conns) \in Nat
                         /\ stats[u] <= Cardinality(Counted(u))
                         /\ Cardinality(Counted(u)) <= stats[u] + stray[u]
                         /\ stray[u] + Cardinality(Former(u)) <= Cardinality(Conns)
  BY TenantCardinals DEF TenantInv, TenantTypeOK, TenantDrift
<1>5. former => Cardinality(Former(t)) > 0
  <2>1. former => c \in Former(t)
    BY <1>1 DEF Former
  <2> QED BY <1>1, <1>4, <2>1, TenantCardinals, FS_EmptySet
<1>6. \A u \in Tenants :
          /\ stats'[u] = IF u = t /\ tenant[t].here /\ stats[u] > 0 THEN stats[u] - 1 ELSE stats[u]
          /\ stray'[u] = IF u = t /\ tenant[t].here /\ former THEN stray[u] + 1 ELSE stray[u]
  BY <1>1 DEF TenantInv, TenantTypeOK
<1>7. \A u \in Tenants :
          /\ Cardinality(Counted(u)') = IF u = t /\ ~former THEN Cardinality(Counted(u)) - 1
                                                          ELSE Cardinality(Counted(u))
          /\ Cardinality(Former(u)') = IF u = t /\ former THEN Cardinality(Former(u)) - 1
                                                        ELSE Cardinality(Former(u))
  BY <1>2, <1>3
<1>8. ASSUME NEW u \in Tenants
      PROVE  /\ stats'[u] <= Cardinality(Counted(u)')
             /\ Cardinality(Counted(u)') <= stats'[u] + stray'[u]
             /\ stray'[u] + Cardinality(Former(u)') <= Cardinality(Conns)
  <2> DEFINE k == Cardinality(Counted(u))
             f == Cardinality(Former(u))
             n == Cardinality(Conns)
  <2>1. /\ k \in Nat /\ f \in Nat /\ n \in Nat /\ stats[u] \in Nat /\ stray[u] \in Nat
        /\ stats[u] <= k /\ k <= stats[u] + stray[u] /\ stray[u] + f <= n
    BY <1>4
  <2>2. /\ Cardinality(Counted(u)') = IF u = t /\ ~former THEN k - 1 ELSE k
        /\ Cardinality(Former(u)') = IF u = t /\ former THEN f - 1 ELSE f
    BY <1>7
  <2> HIDE DEF k, f, n
  <2>3. /\ stats'[u] <= IF u = t /\ ~former THEN k - 1 ELSE k
        /\ (IF u = t /\ ~former THEN k - 1 ELSE k) <= stats'[u] + stray'[u]
        /\ stray'[u] + (IF u = t /\ former THEN f - 1 ELSE f) <= n
    <3>1. CASE u # t
      BY <1>6, <2>1, <3>1
    <3>2. CASE u = t /\ former /\ tenant[t].here
      BY <1>6, <2>1, <3>2
    <3>3. CASE u = t /\ former /\ ~tenant[t].here
      BY <1>6, <2>1, <3>3
    <3>4. CASE u = t /\ ~former
      <4>1. k > 0
        <5>1. c \in Counted(u) /\ IsFiniteSet(Counted(u))
          BY <1>1, <3>4, TenantCardinals DEF Counted
        <5> QED BY <5>1, <2>1, FS_EmptySet DEF k
      <4> QED BY <1>1, <1>6, <2>1, <3>4, <4>1
    <3> QED BY <3>1, <3>2, <3>3, <3>4
  <2> QED BY <2>2, <2>3 DEF n
<1>9. TenantTypeOK'
  <2>1. \A u \in Tenants : /\ stats'[u] \in 0 .. Cardinality(Conns)
                           /\ stray'[u] \in 0 .. Cardinality(Conns)
    BY <1>1, <1>4, <1>5, <1>6
  <2> QED BY <1>1, <2>1 DEF TenantInv, TenantTypeOK, Idle
<1> QED BY <1>1, <1>8, <1>9 DEF TenantInv, TenantTypeOK, TenantDrift, Idle

LEMMA TenantStep == TenantInv /\ [TenantNext]_tenantVars => TenantInv'
<1> SUFFICES ASSUME TenantInv, [TenantNext]_tenantVars PROVE TenantInv'
  OBVIOUS
<1>1. ASSUME NEW t \in Tenants, NEW config \in Configs,
             AddTenant(t, config) \/ UpdateTenant(t, config)
      PROVE  TenantInv'
  BY <1>1, AddTenantKeeps DEF UpdateTenant
<1>2. ASSUME NEW t \in Tenants, RemoveTenant(t) PROVE TenantInv'
  BY <1>2, ForgetKeeps DEF RemoveTenant
<1>3. CASE ClearAllTenants
  BY <1>3, ForgetKeeps DEF ClearAllTenants
<1>4. ASSUME NEW c \in Conns, NEW named \in Tenants \cup {NoTenant}, ResolveTenant(c, named)
      PROVE  TenantInv'
  BY <1>4, ResolveTenantKeeps
<1>5. ASSUME NEW c \in Conns, IncrementConnections(c) PROVE TenantInv'
  BY <1>5, IncrementKeeps
<1>6. ASSUME NEW c \in Conns, DecrementConnections(c) PROVE TenantInv'
  BY <1>6, DecrementKeeps
<1>7. CASE UNCHANGED tenantVars
  <2>1. \A t \in Tenants : Counted(t)' = Counted(t) /\ Former(t)' = Former(t)
    BY <1>7 DEF tenantVars, Counted, Former
  <2> QED BY <1>7, <2>1 DEF tenantVars, TenantInv, TenantTypeOK, TenantDrift
<1> QED BY <1>1, <1>2, <1>3, <1>4, <1>5, <1>6, <1>7 DEF TenantNext

-----------------------------------------------------------------------------
(* The circuit breaker.                                                     *)

LEMMA CallsAreCounted ==
    /\ IsFiniteSet(Trials) /\ IsFiniteSet(Plain)
    /\ Cardinality(Trials) \in Nat /\ Cardinality(Plain) \in Nat /\ Cardinality(Calls) \in Nat
    /\ Cardinality(Plain) <= Cardinality(Calls)
    /\ Cardinality(Trials) = 0 <=> Trials = {}
<1>1. Trials \subseteq Calls /\ Plain \subseteq Calls
  BY DEF Trials, Plain
<1> QED BY <1>1, FS_Subset, FS_CardinalityType, FS_EmptySet, BreakerAssumption

(* The state of one call changes: the others are in the sets they were in.  *)
LEMMA OneCallChanges ==
    ASSUME BreakerTypeOK, NEW c \in Calls, NEW to \in {"idle", "trial", "plain"},
           call' = [call EXCEPT ![c] = to]
    PROVE  /\ call' \in [Calls -> {"idle", "trial", "plain"}]
           /\ Trials' = IF to = "trial" THEN Trials \cup {c} ELSE Trials \ {c}
           /\ Plain' = IF to = "plain" THEN Plain \cup {c} ELSE Plain \ {c}
BY DEF BreakerTypeOK, Trials, Plain

LEMMA OneCallCounts ==
    ASSUME BreakerTypeOK, NEW c \in Calls, NEW to \in {"idle", "trial", "plain"},
           call' = [call EXCEPT ![c] = to], call[c] # to
    PROVE  /\ Cardinality(Trials') = IF to = "trial" THEN Cardinality(Trials) + 1
                                     ELSE IF call[c] = "trial" THEN Cardinality(Trials) - 1
                                     ELSE Cardinality(Trials)
           /\ Cardinality(Plain') = IF to = "plain" THEN Cardinality(Plain) + 1
                                    ELSE IF call[c] = "plain" THEN Cardinality(Plain) - 1
                                    ELSE Cardinality(Plain)
<1>1. (c \in Trials <=> call[c] = "trial") /\ (c \in Plain <=> call[c] = "plain")
  BY DEF Trials, Plain
<1>2. /\ Cardinality(Trials \cup {c}) = IF c \in Trials THEN Cardinality(Trials) ELSE Cardinality(Trials) + 1
      /\ Cardinality(Plain \cup {c}) = IF c \in Plain THEN Cardinality(Plain) ELSE Cardinality(Plain) + 1
  BY CallsAreCounted, FS_AddElement
<1>3. /\ Cardinality(Trials \ {c}) = IF c \in Trials THEN Cardinality(Trials) - 1 ELSE Cardinality(Trials)
      /\ Cardinality(Plain \ {c}) = IF c \in Plain THEN Cardinality(Plain) - 1 ELSE Cardinality(Plain)
  BY CallsAreCounted, FS_RemoveElement
<1>4. /\ Trials' = IF to = "trial" THEN Trials \cup {c} ELSE Trials \ {c}
      /\ Plain' = IF to = "plain" THEN Plain \cup {c} ELSE Plain \ {c}
  BY OneCallChanges
<1> QED BY <1>1, <1>2, <1>3, <1>4

(* The same of sums that every step must keep below the number of calls.    *)
LEMMA PlainBounded ==
    ASSUME call' \in [Calls -> {"idle", "trial", "plain"}]
    PROVE  /\ Cardinality(Plain') \in Nat /\ Cardinality(Plain') <= Cardinality(Calls)
           /\ Cardinality(Trials') \in Nat
           /\ Cardinality(Trials') = 0 <=> Trials' = {}
<1>1. Trials' \subseteq Calls /\ Plain' \subseteq Calls
  BY DEF Trials, Plain
<1>2. IsFiniteSet(Trials') /\ IsFiniteSet(Plain')
  BY <1>1, FS_Subset, BreakerAssumption
<1> QED BY <1>1, <1>2, FS_Subset, FS_CardinalityType, FS_EmptySet, BreakerAssumption

LEMMA NewPeriods ==
    /\ NewPeriod \in Periods /\ NewPeriod.late = 0 /\ NewPeriod.good = 0 /\ ~NewPeriod.forced
    /\ \A forced \in BOOLEAN : LET p == [NewPeriod EXCEPT !.forced = forced]
                               IN  /\ p \in Periods /\ p.late = 0 /\ p.good = 0
                                   /\ p.forced = forced
<1>1. 0 \in 0 .. Cardinality(Calls) /\ 0 \in 0 .. SuccessThreshold
  BY CallsAreCounted, BreakerAssumption
<1> QED BY <1>1 DEF Periods, NewPeriod

LEMMA NoCircuitIsOne == NoCircuit \in Circuits /\ NewCircuit \in Circuits
<1>1. /\ 0 \in 0 .. FailureThreshold /\ 0 \in 0 .. SuccessThreshold
      /\ 0 \in 0 .. HalfOpenMax + 1
  BY BreakerAssumption
<1> QED BY <1>1 DEF NoCircuit, NewCircuit, Circuits

LEMMA BreakerInitInv == BreakerInit => BreakerInv
<1> SUFFICES ASSUME BreakerInit PROVE BreakerInv
  OBVIOUS
<1>1. Trials = {} /\ Plain = {}
  BY DEF BreakerInit, Trials, Plain
<1>2. Cardinality({}) = 0 /\ Cardinality(Calls) \in Nat
  BY FS_EmptySet, CallsAreCounted
<1>3. BreakerTypeOK
  BY NewPeriods, NoCircuitIsOne DEF BreakerInit, BreakerTypeOK
<1> QED BY <1>1, <1>2, <1>3, BreakerAssumption
        DEF BreakerInit, BreakerInv, EntrySound, PeriodSound, SlotsSound, SuccessesSound,
            NoCircuit, NewPeriod

(* When a half-open period ends, its trials become plain calls; what is left*)
(* of the invariant is about the entry.                                     *)
LEMMA PeriodEnds ==
    ASSUME BreakerInv, circuit' \in Circuits, due' \in BOOLEAN, EntrySound',
           circuit'.state # "half_open",
           call' \in [Calls -> {"idle", "plain"}],
           period' \in Periods, period'.late = 0, period'.good = 0,
           ~period'.forced => circuit'.slots < HalfOpenMax /\ circuit'.successes = 0
    PROVE  BreakerInv'
<1>1. Trials' = {}
  BY DEF Trials
<1>2. call' \in [Calls -> {"idle", "trial", "plain"}]
  OBVIOUS
<1>3. BreakerTypeOK'
  BY <1>2 DEF BreakerTypeOK
<1>4. PeriodSound'
  BY <1>1, <1>2, PlainBounded, CallsAreCounted DEF PeriodSound
<1>5. SlotsSound'
  <2>1. Cardinality(Trials') = 0
    BY <1>1, FS_EmptySet
  <2> QED BY <2>1, BreakerAssumption DEF SlotsSound, EntrySound, Circuits
<1>6. SuccessesSound'
  BY DEF SuccessesSound
<1> QED BY <1>3, <1>4, <1>5, <1>6 DEF BreakerInv

(* The entry an operation makes, or finds, has the counters of the present. *)
LEMMA EntryOfPresent ==
    ASSUME BreakerInv
    PROVE  /\ Entry \in Circuits /\ Entry.state # "absent"
           /\ Entry.state = IF circuit = NoCircuit THEN "closed" ELSE circuit.state
           /\ Entry.failures = circuit.failures /\ Entry.successes = circuit.successes
           /\ Entry.slots = circuit.slots
           /\ Entry.state = "closed" => Entry.failures < FailureThreshold
           /\ Entry.state = "half_open" <=> circuit.state = "half_open"
<1>1. CASE circuit = NoCircuit
  BY <1>1, NoCircuitIsOne, BreakerAssumption DEF Entry, NoCircuit, NewCircuit
<1>2. CASE circuit # NoCircuit
  BY <1>2 DEF Entry, BreakerInv, BreakerTypeOK, EntrySound
<1> QED BY <1>1, <1>2

(* Outside the half-open state, what is left of the invariant is about the  *)
(* entry.                                                                   *)
LEMMA OutsidePeriod ==
    ASSUME BreakerInv, circuit.state # "half_open",
           circuit' \in Circuits, EntrySound', circuit'.state # "half_open",
           circuit'.slots = circuit.slots, circuit'.successes <= circuit.successes,
           due' \in BOOLEAN, call' \in [Calls -> {"idle", "trial", "plain"}], Trials' = {},
           period' = period
    PROVE  BreakerInv'
<1>1. Trials = {} /\ period.late = 0 /\ period.good = 0
  BY DEF BreakerInv, PeriodSound
<1>2. BreakerTypeOK'
  BY DEF BreakerInv, BreakerTypeOK
<1>3. PeriodSound'
  BY <1>1, PlainBounded DEF PeriodSound
<1>4. SlotsSound'
  BY <1>1 DEF BreakerInv, SlotsSound
<1>5. SuccessesSound'
  BY <1>1 DEF BreakerInv, BreakerTypeOK, Circuits, SuccessesSound
<1> QED BY <1>2, <1>3, <1>4, <1>5 DEF BreakerInv

LEMMA AdmitClosedKeeps ==
    ASSUME BreakerInv, NEW c \in Calls, AdmitClosed(c) PROVE BreakerInv'
<1>1. /\ call[c] = "idle" /\ Entry.state = "closed" /\ circuit' = Entry
      /\ call' = [call EXCEPT ![c] = "plain"] /\ UNCHANGED <<due, period>>
  BY DEF AdmitClosed
<1>2. circuit.state # "half_open"
  BY <1>1, EntryOfPresent
<1>3. EntrySound'
  BY <1>1, <1>2, EntryOfPresent DEF BreakerInv, EntrySound
<1>4. call' \in [Calls -> {"idle", "trial", "plain"}] /\ Trials' = Trials \ {c}
  BY <1>1, OneCallChanges DEF BreakerInv
<1>5. Trials' = {}
  BY <1>2, <1>4 DEF BreakerInv, PeriodSound
<1>6. circuit'.successes <= circuit.successes
  BY <1>1, EntryOfPresent DEF BreakerInv, BreakerTypeOK, Circuits
<1> QED BY <1>1, <1>2, <1>3, <1>4, <1>5, <1>6, EntryOfPresent, OutsidePeriod
        DEF BreakerInv, BreakerTypeOK

(* A trial takes a slot: the first one even if every slot was lost.         *)
LEMMA AdmitOpenKeeps ==
    ASSUME BreakerInv, NEW c \in Calls, AdmitOpen(c) PROVE BreakerInv'
<1>1. /\ call[c] = "idle" /\ circuit.state = "open"
      /\ circuit' = [circuit EXCEPT !.state = "half_open", !.slots = @ + 1]
      /\ due' = FALSE /\ call' = [call EXCEPT ![c] = "trial"] /\ UNCHANGED period
  BY DEF AdmitOpen
<1>2. /\ Trials = {} /\ period.late = 0 /\ period.good = 0 /\ circuit.slots \in 0 .. HalfOpenMax
      /\ circuit.successes \in Nat /\ circuit.successes < SuccessThreshold
      /\ ~period.forced => circuit.slots < HalfOpenMax /\ circuit.successes <= 0
  BY <1>1, BreakerAssumption
     DEF BreakerInv, BreakerTypeOK, Circuits, EntrySound, PeriodSound, SlotsSound, SuccessesSound
<1>3. /\ circuit' \in Circuits /\ circuit'.state = "half_open"
      /\ circuit'.slots = circuit.slots + 1 /\ circuit'.successes = circuit.successes
  <2>1. circuit.slots + 1 \in 0 .. HalfOpenMax + 1
    BY <1>2, BreakerAssumption
  <2>2. circuit \in Circuits
    BY DEF BreakerInv, BreakerTypeOK
  <2>3. circuit' = [state |-> "half_open", failures |-> circuit.failures,
                    successes |-> circuit.successes, slots |-> circuit.slots + 1]
    BY <1>1, <2>2 DEF Circuits
  <2> QED BY <2>1, <2>2, <2>3 DEF Circuits
<1>4. /\ call' \in [Calls -> {"idle", "trial", "plain"}] /\ Trials' = Trials \cup {c}
      /\ Cardinality(Trials') = 1 /\ Cardinality(Plain') = Cardinality(Plain)
  <2>1. Cardinality(Trials) = 0
    BY <1>2, FS_EmptySet
  <2>2. /\ call' \in [Calls -> {"idle", "trial", "plain"}] /\ Trials' = Trials \cup {c}
        /\ Cardinality(Trials') = Cardinality(Trials) + 1
        /\ Cardinality(Plain') = Cardinality(Plain)
    BY <1>1, OneCallChanges, OneCallCounts DEF BreakerInv
  <2> QED BY <2>1, <2>2
<1>5. BreakerTypeOK'
  BY <1>1, <1>3, <1>4 DEF BreakerInv, BreakerTypeOK
<1>6. EntrySound' /\ PeriodSound'
  BY <1>1, <1>2, <1>3, <1>4 DEF BreakerInv, EntrySound, PeriodSound
<1>7. SlotsSound'
  BY <1>1, <1>2, <1>3, <1>4, BreakerAssumption DEF SlotsSound
<1>8. SuccessesSound'
  BY <1>1, <1>2, <1>3 DEF SuccessesSound
<1> QED BY <1>5, <1>6, <1>7, <1>8 DEF BreakerInv

LEMMA AdmitHalfOpenKeeps ==
    ASSUME BreakerInv, NEW c \in Calls, AdmitHalfOpen(c) PROVE BreakerInv'
<1>1. /\ call[c] = "idle" /\ circuit.state = "half_open" /\ circuit.slots < HalfOpenMax
      /\ circuit' = [circuit EXCEPT !.slots = @ + 1]
      /\ call' = [call EXCEPT ![c] = "trial"] /\ UNCHANGED <<due, period>>
  BY DEF AdmitHalfOpen, HasSlot
<1>2. /\ circuit' \in Circuits /\ circuit'.state = "half_open"
      /\ circuit'.slots = circuit.slots + 1 /\ circuit'.successes = circuit.successes
      /\ circuit'.failures = circuit.failures
      /\ circuit.slots \in Nat /\ period.late \in Nat
  BY <1>1, BreakerAssumption DEF BreakerInv, BreakerTypeOK, Circuits, Periods
<1>3. /\ call' \in [Calls -> {"idle", "trial", "plain"}] /\ Trials' = Trials \cup {c}
      /\ Cardinality(Trials') = Cardinality(Trials) + 1
      /\ Cardinality(Plain') = Cardinality(Plain)
      /\ Cardinality(Trials) \in Nat
  BY <1>1, OneCallChanges, OneCallCounts, CallsAreCounted DEF BreakerInv
<1>4. BreakerTypeOK'
  BY <1>1, <1>2, <1>3 DEF BreakerInv, BreakerTypeOK
<1>5. EntrySound' /\ PeriodSound'
  BY <1>1, <1>2, <1>3 DEF BreakerInv, EntrySound, PeriodSound
<1>6. SlotsSound'
  BY <1>1, <1>2, <1>3, BreakerAssumption DEF BreakerInv, SlotsSound
<1>7. SuccessesSound'
  BY <1>1, <1>2 DEF BreakerInv, SuccessesSound
<1> QED BY <1>4, <1>5, <1>6, <1>7 DEF BreakerInv

(* A slot is given back, if there is one.                                   *)
LEMMA FreeSlotGives ==
    ASSUME NEW k \in Circuits
    PROVE  /\ FreeSlot(k) \in Circuits
           /\ FreeSlot(k).state = k.state /\ FreeSlot(k).failures = k.failures
           /\ FreeSlot(k).successes = k.successes
           /\ FreeSlot(k).slots = IF k.slots > 0 THEN k.slots - 1 ELSE 0
<1>1. (IF k.slots > 0 THEN k.slots - 1 ELSE 0) \in 0 .. HalfOpenMax + 1
  BY BreakerAssumption DEF Circuits
<1>2. FreeSlot(k) = [state |-> k.state, failures |-> k.failures, successes |-> k.successes,
                     slots |-> IF k.slots > 0 THEN k.slots - 1 ELSE 0]
  BY DEF FreeSlot, Circuits
<1> QED BY <1>1, <1>2 DEF Circuits

LEMMA LateCallsType ==
    ASSUME BreakerTypeOK
    PROVE  /\ LateCalls \in [Calls -> {"idle", "plain"}]
           /\ \A c \in Calls : [LateCalls EXCEPT ![c] = "idle"] \in [Calls -> {"idle", "plain"}]
BY DEF BreakerTypeOK, LateCalls

LEMMA PeriodEndsWith ==
    ASSUME BreakerInv, NEW c \in Calls, EndPeriodWith(c),
           circuit' \in Circuits, due' \in BOOLEAN, EntrySound', circuit'.state # "half_open",
           ~period.forced => circuit'.slots < HalfOpenMax /\ circuit'.successes = 0
    PROVE  BreakerInv'
<1>1. period.forced \in BOOLEAN
  BY DEF BreakerInv, BreakerTypeOK, Periods
<1>2. call' \in [Calls -> {"idle", "plain"}]
  BY LateCallsType DEF BreakerInv, EndPeriodWith
<1>3. /\ period' \in Periods /\ period'.late = 0 /\ period'.good = 0
      /\ period'.forced = period.forced
  BY <1>1, NewPeriods DEF EndPeriodWith
<1> QED BY <1>2, <1>3, PeriodEnds

(* A success is one of the period's trials, or late: then it gives back a   *)
(* slot it never took.  The success that is enough ends the period.         *)
LEMMA SucceedHalfOpenKeeps ==
    ASSUME BreakerInv, NEW c \in Calls, call[c] # "idle", due' = due, SucceedHalfOpen(c)
    PROVE  BreakerInv'
<1> DEFINE n == circuit.successes + 1
           slots == IF circuit.slots > 0 THEN circuit.slots - 1 ELSE 0
           k == FreeSlot([circuit EXCEPT !.successes = @ + 1])
<1>1. /\ circuit \in Circuits /\ circuit.state = "half_open"
      /\ circuit.successes \in Nat /\ circuit.successes < SuccessThreshold
      /\ circuit.slots \in 0 .. HalfOpenMax + 1
  BY DEF BreakerInv, BreakerTypeOK, EntrySound, Circuits, SucceedHalfOpen
<1>2. /\ [circuit EXCEPT !.successes = @ + 1] \in Circuits
      /\ [circuit EXCEPT !.successes = @ + 1].state = "half_open"
      /\ [circuit EXCEPT !.successes = @ + 1].successes = n
      /\ [circuit EXCEPT !.successes = @ + 1].slots = circuit.slots
  <2>1. n \in 0 .. SuccessThreshold
    BY <1>1, BreakerAssumption
  <2> HIDE DEF n
  <2>2. [circuit EXCEPT !.successes = @ + 1]
            = [state |-> "half_open", failures |-> circuit.failures, successes |-> n,
               slots |-> circuit.slots]
    BY <1>1 DEF Circuits, n
  <2> QED BY <1>1, <2>1, <2>2 DEF Circuits
<1>3. /\ k \in Circuits /\ k.state = "half_open" /\ k.successes = n /\ k.slots = slots
  BY <1>2, FreeSlotGives
<1>4. /\ slots \in Nat /\ slots <= HalfOpenMax
      /\ circuit.slots <= HalfOpenMax => slots < HalfOpenMax
  BY <1>1, BreakerAssumption
<1>5. /\ k.successes >= SuccessThreshold =>
             /\ circuit' = [k EXCEPT !.state = "closed", !.failures = 0, !.successes = 0]
             /\ EndPeriodWith(c)
      /\ ~(k.successes >= SuccessThreshold) =>
             circuit' = k /\ call' = [call EXCEPT ![c] = "idle"] /\ period' = Noted(c)
  BY DEF SucceedHalfOpen
<1> HIDE DEF n, slots, k
<1>6. CASE k.successes >= SuccessThreshold
  <2>1. circuit' = [state |-> "closed", failures |-> 0, successes |-> 0, slots |-> slots]
    BY <1>3, <1>5, <1>6 DEF Circuits
  <2>2. circuit' \in Circuits
    <3>1. 0 \in 0 .. FailureThreshold /\ 0 \in 0 .. SuccessThreshold
      BY BreakerAssumption
    <3> QED BY <1>3, <2>1, <3>1 DEF Circuits
  <2>3. EntrySound'
    BY <1>4, <2>1, BreakerAssumption DEF EntrySound
  <2>4. ~period.forced => circuit'.slots < HalfOpenMax /\ circuit'.successes = 0
    BY <1>4, <2>1 DEF BreakerInv, SlotsSound
  <2>5. due' \in BOOLEAN /\ circuit'.state # "half_open"
    BY <2>1 DEF BreakerInv, BreakerTypeOK
  <2> QED BY <1>5, <1>6, <2>2, <2>3, <2>4, <2>5, PeriodEndsWith
<1>7. CASE ~(k.successes >= SuccessThreshold)
  <2> DEFINE late == IF call[c] = "plain" THEN period.late + 1 ELSE period.late
             good == IF call[c] = "trial" THEN period.good + 1 ELSE period.good
             trials == IF call[c] = "trial" THEN Cardinality(Trials) - 1 ELSE Cardinality(Trials)
             plain == IF call[c] = "plain" THEN Cardinality(Plain) - 1 ELSE Cardinality(Plain)
  <2>1. /\ circuit' = k /\ call' = [call EXCEPT ![c] = "idle"] /\ period' = Noted(c)
        /\ n < SuccessThreshold
    BY <1>1, <1>3, <1>5, <1>7, BreakerAssumption DEF n
  <2>2. period \in [late : 0 .. Cardinality(Calls), good : 0 .. SuccessThreshold, forced : BOOLEAN]
    BY DEF BreakerInv, BreakerTypeOK, Periods
  <2>3. period' = [late |-> late, good |-> good, forced |-> period.forced]
    BY <2>1, <2>2 DEF Noted
  <2>4. /\ call' \in [Calls -> {"idle", "trial", "plain"}]
        /\ Cardinality(Trials') = trials /\ Cardinality(Plain') = plain
    BY <2>1, OneCallChanges, OneCallCounts DEF BreakerInv
  <2>5. /\ period.late \in Nat /\ period.good \in Nat /\ Cardinality(Calls) \in Nat
        /\ period.late + Cardinality(Plain) <= Cardinality(Calls)
        /\ period.good + period.late <= circuit.successes
        /\ ~period.forced => circuit.successes <= period.good + period.late
        /\ Cardinality(Trials) <= circuit.slots + period.late
        /\ Cardinality(Trials) <= HalfOpenMax + period.late
        /\ ~period.forced => circuit.slots <= HalfOpenMax
        /\ Cardinality(Plain) \in Nat /\ Cardinality(Trials) \in Nat
    BY <1>1, <2>2, CallsAreCounted DEF BreakerInv, PeriodSound, SlotsSound, SuccessesSound
  <2>6. call[c] \in {"trial", "plain"} /\ (call[c] = "trial" => Cardinality(Trials) > 0)
    <3>1. call[c] \in {"trial", "plain"} /\ (call[c] = "trial" => Trials # {})
      BY DEF BreakerInv, BreakerTypeOK, Trials
    <3> QED BY <2>5, <3>1, CallsAreCounted
  <2>7. /\ late \in Nat /\ good \in Nat /\ late + plain <= Cardinality(Calls)
        /\ good + late <= n /\ (~period.forced => n <= good + late)
        /\ trials <= slots + late /\ trials <= HalfOpenMax + late
    BY <1>1, <1>4, <2>5, <2>6, BreakerAssumption DEF n, slots
  <2>8. plain \in Nat /\ trials \in Nat
    BY <2>4, PlainBounded
  <2> HIDE DEF late, good, trials, plain
  <2>9. BreakerTypeOK'
    <3>1. late \in 0 .. Cardinality(Calls) /\ good \in 0 .. SuccessThreshold
      BY <1>1, <2>1, <2>5, <2>7, <2>8, BreakerAssumption DEF n
    <3>2. period' \in Periods
      BY <2>2, <2>3, <3>1 DEF Periods
    <3> QED BY <1>3, <2>1, <2>4, <3>2 DEF BreakerInv, BreakerTypeOK
  <2>10. EntrySound' /\ PeriodSound' /\ SuccessesSound'
    BY <1>3, <2>1, <2>3, <2>4, <2>7 DEF EntrySound, PeriodSound, SuccessesSound
  <2>11. SlotsSound'
    BY <1>3, <1>4, <2>1, <2>3, <2>4, <2>5, <2>7 DEF SlotsSound
  <2> QED BY <2>9, <2>10, <2>11 DEF BreakerInv
<1> QED BY <1>6, <1>7

LEMMA SucceedKeeps ==
    ASSUME BreakerInv, NEW c \in Calls, Succeed(c) PROVE BreakerInv'
<1>1. call[c] # "idle" /\ due' = due
  BY DEF Succeed
<1>2. CASE SucceedHalfOpen(c)
  BY <1>1, <1>2, SucceedHalfOpenKeeps
<1>3. CASE ~SucceedHalfOpen(c)
  <2>1. /\ circuit.state # "half_open" /\ call' = [call EXCEPT ![c] = "idle"]
        /\ UNCHANGED <<circuit, period>>
    BY <1>3 DEF Succeed
  <2>2. call' \in [Calls -> {"idle", "trial", "plain"}] /\ Trials' = Trials \ {c}
    BY <2>1, OneCallChanges DEF BreakerInv
  <2>3. Trials' = {}
    BY <2>1, <2>2 DEF BreakerInv, PeriodSound
  <2> QED BY <1>1, <2>1, <2>2, <2>3, OutsidePeriod
          DEF BreakerInv, BreakerTypeOK, EntrySound, Circuits
<1> QED BY <1>2, <1>3

LEMMA FailClosedKeeps ==
    ASSUME BreakerInv, NEW c \in Calls, FailClosed(c) PROVE BreakerInv'
<1> DEFINE n == Entry.failures + 1
           tripped == n >= FailureThreshold
<1>1. /\ Entry.state = "closed" /\ due' = (due /\ ~tripped)
      /\ circuit' = [Entry EXCEPT !.failures = n, !.state = IF tripped THEN "open" ELSE @]
      /\ call' = [call EXCEPT ![c] = "idle"] /\ UNCHANGED period
  BY DEF FailClosed
<1>2. /\ Entry \in Circuits /\ circuit.state # "half_open"
      /\ Entry.failures < FailureThreshold /\ Entry.slots = circuit.slots
      /\ Entry.successes = circuit.successes
  BY <1>1, EntryOfPresent
<1>3. n \in 0 .. FailureThreshold
  BY <1>2, BreakerAssumption DEF Circuits
<1>4. circuit' = [state |-> IF tripped THEN "open" ELSE "closed", failures |-> n,
                  successes |-> circuit.successes, slots |-> circuit.slots]
  <2> HIDE DEF n, tripped
  <2> QED BY <1>1, <1>2 DEF Circuits
<1>5. ~tripped => n < FailureThreshold
  BY <1>3, BreakerAssumption
<1> HIDE DEF n, tripped
<1>6. circuit' \in Circuits
  BY <1>2, <1>3, <1>4 DEF Circuits
<1>7. EntrySound'
  BY <1>2, <1>4, <1>5 DEF BreakerInv, EntrySound
<1>8. call' \in [Calls -> {"idle", "trial", "plain"}] /\ Trials' = Trials \ {c}
  BY <1>1, OneCallChanges DEF BreakerInv
<1>9. Trials' = {}
  BY <1>2, <1>8 DEF BreakerInv, PeriodSound
<1>10. due' \in BOOLEAN
  BY <1>1 DEF BreakerInv, BreakerTypeOK
<1>11. circuit'.slots = circuit.slots /\ circuit'.state # "half_open"
       /\ circuit'.successes <= circuit.successes
  BY <1>4 DEF BreakerInv, BreakerTypeOK, Circuits
<1> QED BY <1>1, <1>2, <1>6, <1>7, <1>8, <1>9, <1>10, <1>11, OutsidePeriod

LEMMA FailHalfOpenKeeps ==
    ASSUME BreakerInv, NEW c \in Calls, FailHalfOpen(c) PROVE BreakerInv'
<1> DEFINE slots == IF circuit.slots > 0 THEN circuit.slots - 1 ELSE 0
<1>1. /\ circuit.state = "half_open" /\ due' = FALSE /\ EndPeriodWith(c)
      /\ circuit' = [FreeSlot(circuit) EXCEPT !.state = "open", !.successes = 0]
  BY DEF FailHalfOpen
<1>2. circuit \in Circuits /\ circuit.slots \in 0 .. HalfOpenMax + 1
  BY DEF BreakerInv, BreakerTypeOK, Circuits
<1>3. circuit' = [state |-> "open", failures |-> circuit.failures, successes |-> 0, slots |-> slots]
  BY <1>1, <1>2, FreeSlotGives DEF Circuits
<1>4. /\ slots \in 0 .. HalfOpenMax + 1 /\ slots <= HalfOpenMax
      /\ circuit.slots <= HalfOpenMax => slots < HalfOpenMax
  BY <1>2, BreakerAssumption
<1> HIDE DEF slots
<1>5. circuit' \in Circuits
  <2>1. 0 \in 0 .. SuccessThreshold
    BY BreakerAssumption
  <2> QED BY <1>2, <1>3, <1>4, <2>1 DEF Circuits
<1>6. EntrySound'
  BY <1>3, <1>4, BreakerAssumption DEF EntrySound
<1>7. ~period.forced => circuit'.slots < HalfOpenMax /\ circuit'.successes = 0
  BY <1>3, <1>4 DEF BreakerInv, SlotsSound
<1> QED BY <1>1, <1>3, <1>5, <1>6, <1>7, PeriodEndsWith

LEMMA FailKeeps ==
    ASSUME BreakerInv, NEW c \in Calls, Fail(c) PROVE BreakerInv'
<1>1. CASE FailClosed(c)
  BY <1>1, FailClosedKeeps
<1>2. CASE FailHalfOpen(c)
  BY <1>2, FailHalfOpenKeeps
<1>3. CASE FailOpen(c)
  <2>1. /\ circuit.state # "half_open" /\ call' = [call EXCEPT ![c] = "idle"]
        /\ UNCHANGED <<circuit, due, period>>
    BY <1>3 DEF FailOpen
  <2>2. call' \in [Calls -> {"idle", "trial", "plain"}] /\ Trials' = Trials \ {c}
    BY <2>1, OneCallChanges DEF BreakerInv
  <2>3. Trials' = {}
    BY <2>1, <2>2 DEF BreakerInv, PeriodSound
  <2> QED BY <2>1, <2>2, <2>3, OutsidePeriod
          DEF BreakerInv, BreakerTypeOK, EntrySound, Circuits
<1> QED BY <1>1, <1>2, <1>3 DEF Fail

(* What time changes is no part of a period.                                *)
LEMMA TimeKeeps ==
    ASSUME BreakerInv, ResetDue \/ FailureAges PROVE BreakerInv'
<1>1. /\ call' = call /\ period' = period /\ due' \in BOOLEAN
      /\ circuit'.slots = circuit.slots /\ circuit'.successes = circuit.successes
      /\ circuit'.state = circuit.state /\ circuit' \in Circuits /\ EntrySound'
  <2>1. CASE ResetDue
    BY <2>1 DEF BreakerInv, BreakerTypeOK, ResetDue, EntrySound
  <2>2. CASE FailureAges
    <3>1. /\ circuit.failures > 0 /\ circuit' = [circuit EXCEPT !.failures = @ - 1]
          /\ UNCHANGED <<due, call, period>>
      BY <2>2 DEF FailureAges
    <3>2. /\ circuit \in Circuits
          /\ circuit.failures - 1 \in 0 .. FailureThreshold
          /\ circuit.failures < FailureThreshold => circuit.failures - 1 < FailureThreshold
      BY <3>1, BreakerAssumption DEF BreakerInv, BreakerTypeOK, Circuits
    <3>3. circuit.state # "absent"
      BY <3>1 DEF BreakerInv, EntrySound, NoCircuit
    <3>4. circuit' = [state |-> circuit.state, failures |-> circuit.failures - 1,
                      successes |-> circuit.successes, slots |-> circuit.slots]
      BY <3>1, <3>2 DEF Circuits
    <3>5. circuit' \in Circuits
      BY <3>2, <3>4 DEF Circuits
    <3>6. EntrySound'
      BY <3>2, <3>3, <3>4 DEF BreakerInv, EntrySound
    <3> QED BY <3>1, <3>4, <3>5, <3>6 DEF BreakerInv, BreakerTypeOK
  <2> QED BY <2>1, <2>2
<1>2. Trials' = Trials /\ Plain' = Plain
  BY <1>1 DEF Trials, Plain
<1> QED BY <1>1, <1>2
        DEF BreakerInv, BreakerTypeOK, PeriodSound, SlotsSound, SuccessesSound

(* An operator cuts a period short, or moves a circuit between the states   *)
(* outside of one, or into one that is empty.                               *)
LEMMA ForceStateKeeps ==
    ASSUME BreakerInv, NEW s \in {"closed", "open", "half_open"}, ForceState(s)
    PROVE  BreakerInv'
<1>1. /\ circuit.slots <= HalfOpenMax /\ due' = FALSE
      /\ circuit' = IF s = "closed"
                    THEN [Entry EXCEPT !.state = s, !.failures = 0, !.successes = 0]
                    ELSE [Entry EXCEPT !.state = s]
      /\ IF circuit.state = "half_open" /\ s # "half_open"
         THEN EndPeriod([NewPeriod EXCEPT !.forced = TRUE])
         ELSE UNCHANGED <<call, period>>
  BY DEF ForceState
<1>2. /\ Entry \in Circuits /\ Entry.slots = circuit.slots /\ Entry.successes = circuit.successes
      /\ circuit.successes < SuccessThreshold /\ circuit.successes \in Nat
  BY EntryOfPresent DEF BreakerInv, BreakerTypeOK, Circuits, EntrySound
<1>3. circuit' = [state |-> s, failures |-> IF s = "closed" THEN 0 ELSE Entry.failures,
                  successes |-> IF s = "closed" THEN 0 ELSE circuit.successes,
                  slots |-> circuit.slots]
  BY <1>1, <1>2 DEF Circuits
<1>4. circuit' \in Circuits
  <2>1. 0 \in 0 .. FailureThreshold /\ 0 \in 0 .. SuccessThreshold
    BY BreakerAssumption
  <2> QED BY <1>2, <1>3, <2>1 DEF Circuits
<1>5. EntrySound'
  BY <1>1, <1>2, <1>3, BreakerAssumption DEF EntrySound
<1>6. CASE circuit.state = "half_open" /\ s # "half_open"
  <2>1. call' \in [Calls -> {"idle", "plain"}] /\ period' = [NewPeriod EXCEPT !.forced = TRUE]
    BY <1>1, <1>6, LateCallsType DEF EndPeriod, BreakerInv
  <2>2. period' \in Periods /\ period'.late = 0 /\ period'.good = 0 /\ period'.forced
    BY <2>1, NewPeriods
  <2> QED BY <1>1, <1>3, <1>4, <1>5, <1>6, <2>1, <2>2, PeriodEnds
<1>7. CASE ~(circuit.state = "half_open" /\ s # "half_open")
  <2>1. UNCHANGED <<call, period>> /\ due' \in BOOLEAN /\ Trials' = Trials /\ Plain' = Plain
    BY <1>1, <1>7 DEF Trials, Plain
  <2>2. circuit'.slots = circuit.slots /\ circuit'.successes <= circuit.successes
    BY <1>2, <1>3
  <2>3. CASE s # "half_open"
    <3>1. circuit.state # "half_open" /\ circuit'.state # "half_open"
      BY <1>3, <1>7, <2>3
    <3>2. Trials' = {} /\ call' \in [Calls -> {"idle", "trial", "plain"}]
      BY <2>1, <3>1 DEF BreakerInv, BreakerTypeOK, PeriodSound
    <3> QED BY <1>4, <1>5, <2>1, <2>2, <3>1, <3>2, OutsidePeriod
  <2>4. CASE s = "half_open"
    <3>1. circuit'.successes = circuit.successes /\ circuit'.state = "half_open"
      BY <1>3, <2>4
    <3>2. circuit.state # "half_open" => period.good + period.late <= circuit.successes
      BY <1>2 DEF BreakerInv, PeriodSound
    <3>3. BreakerTypeOK'
      BY <1>4, <2>1 DEF BreakerInv, BreakerTypeOK
    <3>4. PeriodSound' /\ SlotsSound'
      BY <2>1, <2>2, <3>1 DEF BreakerInv, PeriodSound, SlotsSound
    <3>5. SuccessesSound'
      BY <2>1, <3>1, <3>2 DEF BreakerInv, SuccessesSound
    <3> QED BY <1>5, <3>3, <3>4, <3>5 DEF BreakerInv
  <2> QED BY <2>3, <2>4
<1> QED BY <1>6, <1>7

LEMMA ForgetCircuitKeeps ==
    ASSUME BreakerInv, ResetCircuit \/ RemoveCircuit PROVE BreakerInv'
<1>1. /\ circuit' \in {NoCircuit, NewCircuit} /\ due' = FALSE
      /\ call' = LateCalls /\ period' = NewPeriod
  BY DEF ResetCircuit, RemoveCircuit, EndPeriod
<1>2. circuit' \in Circuits
  BY <1>1, NoCircuitIsOne
<1>3. circuit'.state # "half_open" /\ circuit'.slots = 0 /\ circuit'.successes = 0
      /\ circuit'.failures = 0 /\ (circuit'.state = "absent" => circuit' = NoCircuit)
  BY <1>1 DEF NoCircuit, NewCircuit
<1>4. EntrySound'
  BY <1>3, BreakerAssumption DEF EntrySound
<1>5. call' \in [Calls -> {"idle", "plain"}]
  BY <1>1, LateCallsType DEF BreakerInv
<1>6. period' \in Periods /\ period'.late = 0 /\ period'.good = 0
  BY <1>1, NewPeriods
<1>7. circuit'.slots < HalfOpenMax
  BY <1>3, BreakerAssumption
<1> QED BY <1>1, <1>2, <1>3, <1>4, <1>5, <1>6, <1>7, PeriodEnds

LEMMA BreakerStep == BreakerInv /\ [BreakerNext]_breakerVars => BreakerInv'
<1> SUFFICES ASSUME BreakerInv, [BreakerNext]_breakerVars PROVE BreakerInv'
  OBVIOUS
<1>1. ASSUME NEW c \in Calls, AdmitClosed(c) \/ AdmitOpen(c) \/ AdmitHalfOpen(c)
      PROVE  BreakerInv'
  BY <1>1, AdmitClosedKeeps, AdmitOpenKeeps, AdmitHalfOpenKeeps
<1>2. ASSUME NEW c \in Calls, Succeed(c) \/ Fail(c) PROVE BreakerInv'
  BY <1>2, SucceedKeeps, FailKeeps
<1>3. CASE ResetDue \/ FailureAges
  BY <1>3, TimeKeeps
<1>4. CASE ResetCircuit \/ RemoveCircuit
  BY <1>4, ForgetCircuitKeeps
<1>5. ASSUME NEW s \in {"closed", "open", "half_open"}, ForceState(s) PROVE BreakerInv'
  BY <1>5, ForceStateKeeps
<1>6. CASE UNCHANGED breakerVars
  <2>1. Trials' = Trials /\ Plain' = Plain
    BY <1>6 DEF breakerVars, Trials, Plain
  <2> QED BY <1>6, <2>1 DEF breakerVars, BreakerInv, BreakerTypeOK, EntrySound, PeriodSound,
                            SlotsSound, SuccessesSound
<1> QED BY <1>1, <1>2, <1>3, <1>4, <1>5, <1>6 DEF BreakerNext

(* What the invariant is for.                                               *)
LEMMA BreakerInvImplies == BreakerInv => BreakerTypeOK /\ SlotsBalance /\ RecoveryEarned
<1> SUFFICES ASSUME BreakerInv PROVE SlotsBalance /\ RecoveryEarned
  BY DEF BreakerInv
<1>1. TrialsBounded
  BY DEF BreakerInv, SlotsSound, TrialsBounded
<1>2. HalfOpenAdmits
  BY DEF BreakerInv, SlotsSound, HalfOpenAdmits, HasSlot
<1>3. RecoveryEarned
  BY DEF BreakerInv, SuccessesSound, RecoveryEarned
<1> QED BY <1>1, <1>2, <1>3 DEF SlotsBalance

-----------------------------------------------------------------------------
(* The certificates.  Keeping keeps what is in S, in its order.             *)
LEMMA KeepingIs ==
    ASSUME NEW D, NEW s \in Seq(D), NEW S
    PROVE  /\ Keeping(s, S) \in Seq(D) /\ Len(Keeping(s, S)) <= Len(s)
           /\ ToSet(Keeping(s, S)) = ToSet(s) \cap S
           /\ \A a, b : Before(Keeping(s, S), a, b) => Before(s, a, b)
           /\ IsInjective(s) => IsInjective(Keeping(s, S))
<1> DEFINE n == Len(s)
           OrderOf(t, i) == \A p, q \in 1 .. Len(t) :
                               p < q => \E j, k \in 1 .. i : j < k /\ t[p] = s[j] /\ t[q] = s[k]
           X == [i \in 0 .. n |->
                    {t \in Seq(D) : /\ Len(t) <= i /\ OrderOf(t, i)
                                    /\ ToSet(t) = {s[j] : j \in 1 .. i} \cap S}]
           G == [i \in 1 .. n |-> [t \in Seq(D) |-> IF s[i] \in S THEN Append(t, s[i]) ELSE t]]
           K(f) == f = [i \in 0 .. n |-> IF i = 0 THEN <<>>
                                         ELSE IF s[i] \in S THEN Append(f[i - 1], s[i])
                                         ELSE f[i - 1]]
<1>0. n \in Nat /\ DOMAIN s = 1 .. n /\ \A i \in 1 .. n : s[i] \in D
  OBVIOUS
<1>1. \E f : K(f)
  <2> DEFINE Y == [i \in 0 .. n |-> Seq(D)]
  <2>1. PICK f : IsRun(f, n, <<>>, G)
    BY <1>0, Iterates
  <2>2. \A i \in 0 .. n : f[i] = IF i = 0 THEN <<>> ELSE G[i][f[i - 1]]
    BY <2>1 DEF IsRun
  <2>3. f[0] = <<>> /\ f[0] \in Y[0]
    <3>1. 0 \in 0 .. n /\ Y[0] = Seq(D)
      BY <1>0
    <3>2. f[0] = <<>>
      BY <2>2, <3>1
    <3>3. <<>> \in Seq(D)
      BY EmptySeq
    <3> QED BY <3>1, <3>2, <3>3
  <2>4. ASSUME NEW i \in 1 .. n, f[i - 1] \in Seq(D)
        PROVE  f[i] = (IF s[i] \in S THEN Append(f[i - 1], s[i]) ELSE f[i - 1]) /\ f[i] \in Seq(D)
    <3>1. f[i] = G[i][f[i - 1]] /\ s[i] \in D
      <4>1. i \in 0 .. n /\ i # 0
        BY <1>0
      <4> HIDE DEF G
      <4> QED BY <1>0, <2>2, <4>1
    <3>2. G[i][f[i - 1]] = IF s[i] \in S THEN Append(f[i - 1], s[i]) ELSE f[i - 1]
      BY <2>4
    <3>3. Append(f[i - 1], s[i]) \in Seq(D)
      BY <2>4, <3>1, AppendProperties
    <3> QED BY <2>4, <3>1, <3>2, <3>3
  <2>5. \A i \in 1 .. n : f[i - 1] \in Y[i - 1] => f[i] \in Y[i]
    <3>1. \A i \in 1 .. n : Y[i - 1] = Seq(D) /\ Y[i] = Seq(D)
      BY <1>0
    <3> HIDE DEF Y
    <3> QED BY <2>4, <3>1
  <2>6. \A i \in 0 .. n : f[i] \in Seq(D)
    <3>1. \A i \in 0 .. n : Y[i] = Seq(D)
      OBVIOUS
    <3>2. \A i \in 0 .. n : f[i] \in Y[i]
      <4> HIDE DEF Y
      <4> QED BY <1>0, <2>3, <2>5, Inherits
    <3> HIDE DEF Y
    <3> QED BY <3>1, <3>2
  <2>7. \A i \in 0 .. n : f[i] = IF i = 0 THEN <<>>
                                 ELSE IF s[i] \in S THEN Append(f[i - 1], s[i]) ELSE f[i - 1]
    <3> TAKE i \in 0 .. n
    <3>1. CASE i = 0
      BY <2>3, <3>1
    <3>2. CASE i # 0
      <4>1. i \in 1 .. n /\ i - 1 \in 0 .. n
        BY <1>0, <3>2
      <4> QED BY <2>4, <2>6, <3>2, <4>1
    <3> QED BY <3>1, <3>2
  <2>8. f = [i \in 0 .. n |-> f[i]]
    BY <2>1 DEF IsRun
  <2> QED BY <2>7, <2>8
<1> DEFINE k == CHOOSE f : K(f)
<1>2. K(k) /\ Keeping(s, S) = k[n]
  <2>1. K(k)
    BY <1>1
  <2>2. Keeping(s, S) = k[n]
    BY DEF Keeping
  <2> QED BY <2>1, <2>2
<1> HIDE DEF k
<1>3. \A i \in 0 .. n : k[i] = IF i = 0 THEN <<>>
                               ELSE IF s[i] \in S THEN Append(k[i - 1], s[i]) ELSE k[i - 1]
  BY <1>2
<1>4. k[0] \in X[0]
  <2>1. k[0] = <<>> /\ 0 \in 0 .. n
    BY <1>0, <1>3
  <2>2. OrderOf(<<>>, 0) /\ ToSet(<<>>) = {s[j] : j \in 1 .. 0} \cap S /\ <<>> \in Seq(D) /\ Len(<<>>) <= 0
    BY EmptySeq DEF ToSet
  <2> QED BY <2>1, <2>2
<1>5. ASSUME NEW i \in 1 .. n, k[i - 1] \in X[i - 1] PROVE k[i] \in X[i]
  <2>1. PICK t : t = k[i - 1]
    OBVIOUS
  <2>2. /\ t \in Seq(D) /\ Len(t) <= i - 1 /\ Len(t) \in Nat /\ DOMAIN t = 1 .. Len(t)
        /\ OrderOf(t, i - 1) /\ ToSet(t) = {s[j] : j \in 1 .. i - 1} \cap S
    BY <1>0, <1>5, <2>1
  <2>3. 1 .. i = (1 .. i - 1) \cup {i} /\ i \in 0 .. n /\ i # 0 /\ i \in Nat
    BY <1>0
  <2>4. {s[j] : j \in 1 .. i} = {s[j] : j \in 1 .. i - 1} \cup {s[i]}
    BY <2>3
  <2>5. k[i] = IF s[i] \in S THEN Append(t, s[i]) ELSE t
    BY <1>3, <2>1, <2>3
  <2>6. CASE s[i] \notin S
    <3>1. OrderOf(t, i)
      BY <2>2, <2>3
    <3> QED BY <2>2, <2>3, <2>4, <2>5, <2>6, <3>1
  <2>7. CASE s[i] \in S
    <3> DEFINE u == Append(t, s[i])
    <3>1. /\ u \in Seq(D) /\ Len(u) = Len(t) + 1 /\ u[Len(t) + 1] = s[i]
          /\ \A p \in 1 .. Len(t) : u[p] = t[p]
          /\ DOMAIN u = 1 .. Len(t) + 1
      BY <1>0, <2>2, AppendProperties
    <3> HIDE DEF u
    <3>2. ToSet(u) = {s[j] : j \in 1 .. i} \cap S
      <4>1. ToSet(u) = ToSet(t) \cup {s[i]}
        <5>1. 1 .. Len(t) + 1 = (1 .. Len(t)) \cup {Len(t) + 1}
          <6>1. \A l \in Nat : 1 .. l + 1 = (1 .. l) \cup {l + 1}
            OBVIOUS
          <6> QED BY <2>2, <6>1
        <5>2. ToSet(u) = {u[p] : p \in 1 .. Len(t)} \cup {u[Len(t) + 1]}
          BY <3>1, <5>1 DEF ToSet
        <5>3. {u[p] : p \in 1 .. Len(t)} = ToSet(t)
          <6>1. \A p \in 1 .. Len(t) : u[p] = t[p]
            BY <3>1
          <6>2. ToSet(t) = {t[p] : p \in 1 .. Len(t)}
            <7>1. DOMAIN t = 1 .. Len(t)
              BY <2>2
            <7> QED BY <7>1 DEF ToSet
          <6> QED BY <6>1, <6>2
        <5> QED BY <3>1, <5>2, <5>3
      <4> QED BY <2>2, <2>4, <2>7, <4>1
    <3>3. OrderOf(u, i)
      <4> SUFFICES ASSUME NEW p \in 1 .. Len(u), NEW q \in 1 .. Len(u), p < q
                   PROVE  \E j, l \in 1 .. i : j < l /\ u[p] = s[j] /\ u[q] = s[l]
        OBVIOUS
      <4>1. p \in 1 .. Len(t) /\ u[p] = t[p] /\ (q \in 1 .. Len(t) \/ q = Len(t) + 1)
        BY <2>2, <3>1
      <4>2. CASE q \in 1 .. Len(t)
        BY <2>2, <2>3, <3>1, <4>1, <4>2
      <4>3. CASE q = Len(t) + 1
        <5>1. t[p] \in ToSet(t)
          BY <2>2, <4>1 DEF ToSet
        <5>2. PICK j \in 1 .. i - 1 : t[p] = s[j]
          BY <2>2, <5>1
        <5>3. j < i /\ j \in 1 .. i /\ i \in 1 .. i
          BY <2>3, <5>2
        <5> QED BY <3>1, <4>1, <4>3, <5>2, <5>3
      <4> QED BY <4>1, <4>2, <4>3
    <3>4. k[i] = u
      BY <2>5, <2>7 DEF u
    <3>5. Len(u) <= i
      BY <2>2, <2>3, <3>1
    <3>6. X[i] = {v \in Seq(D) : /\ Len(v) <= i /\ OrderOf(v, i)
                                /\ ToSet(v) = {s[j] : j \in 1 .. i} \cap S}
      BY <2>3
    <3> HIDE DEF X, OrderOf
    <3> QED BY <3>1, <3>2, <3>3, <3>4, <3>5, <3>6
  <2> QED BY <2>6, <2>7
<1>6. Keeping(s, S) \in X[n]
  <2> HIDE DEF X
  <2>1. \A i \in 0 .. n : k[i] \in X[i]
    BY <1>0, <1>4, <1>5, Inherits
  <2> QED BY <1>0, <1>2, <2>1
<1> DEFINE w == Keeping(s, S)
<1>7. /\ w \in Seq(D) /\ Len(w) <= n /\ OrderOf(w, n) /\ ToSet(w) = {s[j] : j \in 1 .. n} \cap S
  <2>1. X[n] = {t \in Seq(D) : /\ Len(t) <= n /\ OrderOf(t, n)
                              /\ ToSet(t) = {s[j] : j \in 1 .. n} \cap S}
    <3>1. n \in 0 .. n
      BY <1>0
    <3> HIDE DEF n, OrderOf
    <3> QED BY <3>1
  <2> HIDE DEF X, OrderOf
  <2> QED BY <1>6, <2>1
<1> HIDE DEF w
<1>8. ToSet(w) = ToSet(s) \cap S
  <2>1. ToSet(s) = {s[j] : j \in 1 .. n}
    <3> HIDE DEF n
    <3>1. DOMAIN s = 1 .. n
      BY <1>0
    <3> QED BY <3>1 DEF ToSet
  <2> HIDE DEF n
  <2> QED BY <1>7, <2>1
<1>9. \A a, b : Before(w, a, b) => Before(s, a, b)
  BY <1>7 DEF Before
<1>10. ASSUME IsInjective(s) PROVE IsInjective(w)
  <2> SUFFICES ASSUME NEW p \in 1 .. Len(w), NEW q \in 1 .. Len(w), w[p] = w[q], p # q PROVE FALSE
    BY <1>7 DEF IsInjective
  <2>1. \E j, l \in 1 .. n : j < l /\ s[j] = s[l]
    <3>1. p < q \/ q < p
      BY <1>7
    <3> QED BY <1>7, <3>1
  <2> QED BY <1>0, <1>10, <2>1 DEF IsInjective
<1> QED BY <1>7, <1>8, <1>9, <1>10 DEF w

(* A sequence without repetitions has as many elements as its length says. *)
LEMMA CountFrom ==
    ASSUME NEW D, NEW s \in Seq(D), IsInjective(s), NEW m \in 0 .. Len(s)
    PROVE  /\ IsFiniteSet({s[i] : i \in m + 1 .. Len(s)})
           /\ Cardinality({s[i] : i \in m + 1 .. Len(s)}) = Len(s) - m
<1> DEFINE I == m + 1 .. Len(s)
           T == {s[i] : i \in I}
           f == [i \in I |-> s[i]]
<1>1. Len(s) \in Nat /\ DOMAIN s = 1 .. Len(s) /\ I \subseteq 1 .. Len(s) /\ m \in Nat
      /\ m <= Len(s)
  OBVIOUS
<1>2. IsFiniteSet(I) /\ Cardinality(I) = Len(s) - m
  <2>1. IF m + 1 > Len(s) THEN Len(s) - m = 0 ELSE Len(s) - (m + 1) + 1 = Len(s) - m
    <3>1. PICK l \in Nat : l = Len(s)
      BY <1>1
    <3>2. m \in Nat /\ m <= l
      BY <1>1, <3>1
    <3>3. IF m + 1 > l THEN l - m = 0 ELSE l - (m + 1) + 1 = l - m
      BY <3>2
    <3> QED BY <3>1, <3>3
  <2>2. m + 1 \in Int /\ Len(s) \in Int
    BY <1>1
  <2> QED BY <2>1, <2>2, FS_Interval
<1>3. f \in [I -> T] /\ \A i, j \in I : f[i] = f[j] => i = j
  BY <1>1 DEF IsInjective
<1>4. \A x \in T : \E i \in I : f[i] = x
  OBVIOUS
<1>5. f \in Bijection(I, T)
  BY <1>3, <1>4 DEF Bijection, Injection, Surjection, IsInjective
<1>6. ExistsBijection(I, T)
  BY <1>5 DEF ExistsBijection
<1> HIDE DEF I, T
<1>7. IsFiniteSet(T) /\ Cardinality(T) = Len(s) - m
  BY <1>2, <1>6, FS_Bijection
<1> QED BY <1>7 DEF I, T

LEMMA CountAll ==
    ASSUME NEW D, NEW s \in Seq(D), IsInjective(s)
    PROVE  IsFiniteSet(ToSet(s)) /\ Cardinality(ToSet(s)) = Len(s) /\ Len(s) \in Nat
<1>1. Len(s) \in Nat /\ DOMAIN s = 1 .. Len(s) /\ 0 \in 0 .. Len(s) /\ 0 + 1 = 1
      /\ Len(s) - 0 = Len(s)
  OBVIOUS
<1>2. ToSet(s) = {s[i] : i \in 0 + 1 .. Len(s)}
  BY <1>1 DEF ToSet
<1>3. /\ IsFiniteSet({s[i] : i \in 0 + 1 .. Len(s)})
      /\ Cardinality({s[i] : i \in 0 + 1 .. Len(s)}) = Len(s) - 0
  BY <1>1, CountFrom
<1> QED BY <1>1, <1>2, <1>3

(* Of two elements of such a sequence one comes before the other.          *)
LEMMA OrderIsTotal ==
    ASSUME NEW D, NEW s \in Seq(D), IsInjective(s), NEW a, NEW b
    PROVE  /\ Before(s, a, b) => a \in ToSet(s) /\ b \in ToSet(s) /\ a # b /\ ~Before(s, b, a)
           /\ a \in ToSet(s) /\ b \in ToSet(s) /\ a # b => Before(s, a, b) \/ Before(s, b, a)
<1>1. DOMAIN s = 1 .. Len(s) /\ Len(s) \in Nat
  OBVIOUS
<1>2. ASSUME Before(s, a, b) PROVE a \in ToSet(s) /\ b \in ToSet(s) /\ a # b /\ ~Before(s, b, a)
  <2>1. PICK i \in 1 .. Len(s), j \in 1 .. Len(s) : i < j /\ s[i] = a /\ s[j] = b
    BY <1>2 DEF Before
  <2>2. \A k, l \in 1 .. Len(s) : s[k] = s[l] => k = l
    BY <1>1 DEF IsInjective
  <2>3. ~Before(s, b, a)
    <3> SUFFICES ASSUME NEW k \in 1 .. Len(s), NEW l \in 1 .. Len(s), k < l, s[k] = b, s[l] = a
                 PROVE  FALSE
      BY DEF Before
    <3>1. k = j /\ l = i
      BY <2>1, <2>2
    <3> QED BY <2>1, <3>1
  <2>4. a # b
    BY <2>1, <2>2
  <2> QED BY <1>1, <2>1, <2>3, <2>4 DEF ToSet
<1>3. ASSUME a \in ToSet(s), b \in ToSet(s), a # b PROVE Before(s, a, b) \/ Before(s, b, a)
  <2>1. PICK i \in 1 .. Len(s), j \in 1 .. Len(s) : s[i] = a /\ s[j] = b
    BY <1>1, <1>3 DEF ToSet
  <2>2. i < j \/ j < i
    BY <1>3, <2>1
  <2> QED BY <2>1, <2>2 DEF Before
<1> QED BY <1>2, <1>3

LEMMA AppendOrder ==
    ASSUME NEW D, NEW s \in Seq(D), IsInjective(s), NEW d \in D, d \notin ToSet(s)
    PROVE  /\ Append(s, d) \in Seq(D) /\ Len(Append(s, d)) = Len(s) + 1 /\ Len(s) \in Nat
           /\ IsInjective(Append(s, d)) /\ ToSet(Append(s, d)) = ToSet(s) \cup {d}
           /\ \A a, b : Before(Append(s, d), a, b)
                         <=> Before(s, a, b) \/ (a \in ToSet(s) /\ b = d)
<1> DEFINE t == Append(s, d)
           n == Len(s)
<1>1. /\ t \in Seq(D) /\ Len(t) = n + 1 /\ n \in Nat /\ t[n + 1] = d
      /\ \A i \in 1 .. n : t[i] = s[i]
      /\ DOMAIN t = 1 .. n + 1 /\ DOMAIN s = 1 .. n
  BY AppendProperties
<1> HIDE DEF t, n
<1>2. /\ \A i \in 1 .. n + 1 : i \in 1 .. n \/ i = n + 1
      /\ \A i \in 1 .. n : i \in 1 .. n + 1 /\ i < n + 1
      /\ n + 1 \in 1 .. n + 1
  BY <1>1
<1>3. \A i \in 1 .. n : s[i] # d
  BY <1>1 DEF ToSet
<1>4. IsInjective(t)
  <2>1. \A i, j \in 1 .. n : s[i] = s[j] => i = j
    BY <1>1 DEF IsInjective
  <2> QED BY <1>1, <1>2, <1>3, <2>1 DEF IsInjective
<1>5. ToSet(t) = ToSet(s) \cup {d}
  BY <1>1, <1>2 DEF ToSet
<1>6. ASSUME NEW a, NEW b, Before(t, a, b) PROVE Before(s, a, b) \/ (a \in ToSet(s) /\ b = d)
  <2>1. PICK i \in 1 .. n + 1, j \in 1 .. n + 1 : i < j /\ t[i] = a /\ t[j] = b
    BY <1>1, <1>6 DEF Before
  <2>2. i \in 1 .. n
    BY <1>1, <2>1
  <2>3. CASE j \in 1 .. n
    BY <1>1, <2>1, <2>2, <2>3 DEF Before, n
  <2>4. CASE j = n + 1
    BY <1>1, <2>1, <2>2, <2>4 DEF ToSet
  <2> QED BY <1>2, <2>3, <2>4
<1>7. ASSUME NEW a, NEW b, Before(s, a, b) PROVE Before(t, a, b)
  BY <1>1, <1>2, <1>7 DEF Before, n
<1>8. ASSUME NEW a \in ToSet(s) PROVE Before(t, a, d)
  <2>1. PICK i \in 1 .. n : s[i] = a
    BY <1>1, <1>8 DEF ToSet
  <2> QED BY <1>1, <1>2, <2>1 DEF Before
<1> QED BY <1>1, <1>4, <1>5, <1>6, <1>7, <1>8 DEF t, n

(* The operations of the map, by what they do to its keys and their order. *)
LEMMA DeleteIs ==
    ASSUME NEW D, NEW s \in Seq(D), IsInjective(s), NEW d
    PROVE  /\ Delete(s, d) \in Seq(D) /\ IsInjective(Delete(s, d))
           /\ ToSet(Delete(s, d)) = ToSet(s) \ {d} /\ Len(s) \in Nat
           /\ Len(Delete(s, d)) = IF d \in ToSet(s) THEN Len(s) - 1 ELSE Len(s)
           /\ \A a, b : Before(Delete(s, d), a, b)
                         <=> Before(s, a, b) /\ a # d /\ b # d
<1> DEFINE t == Delete(s, d)
<1>1. /\ t \in Seq(D) /\ ToSet(t) = ToSet(s) \cap (ToSet(s) \ {d})
      /\ \A a, b : Before(t, a, b) => Before(s, a, b)
      /\ IsInjective(t)
  BY KeepingIs DEF Delete
<1> HIDE DEF t
<1>2. ToSet(t) = ToSet(s) \ {d}
  BY <1>1
<1>3. Len(t) = IF d \in ToSet(s) THEN Len(s) - 1 ELSE Len(s)
  <2>1. /\ IsFiniteSet(ToSet(s)) /\ Cardinality(ToSet(s)) = Len(s) /\ Len(s) \in Nat
        /\ IsFiniteSet(ToSet(t)) /\ Cardinality(ToSet(t)) = Len(t) /\ Len(t) \in Nat
    BY <1>1, CountAll
  <2>2. CASE d \in ToSet(s)
    <3>1. Cardinality(ToSet(s) \ {d}) = Cardinality(ToSet(s)) - 1
      BY <2>1, <2>2, FS_RemoveElement
    <3> QED BY <1>2, <2>1, <2>2, <3>1
  <2>3. CASE d \notin ToSet(s)
    <3>1. ToSet(t) = ToSet(s)
      BY <1>2, <2>3
    <3> QED BY <2>1, <2>3, <3>1
  <2> QED BY <2>2, <2>3
<1>4. ASSUME NEW a, NEW b PROVE Before(t, a, b) <=> Before(s, a, b) /\ a # d /\ b # d
  <2>1. Before(t, a, b) => a \in ToSet(t) /\ b \in ToSet(t)
    BY <1>1, OrderIsTotal
  <2>2. ASSUME Before(s, a, b), a # d, b # d PROVE Before(t, a, b)
    <3>1. a \in ToSet(t) /\ b \in ToSet(t) /\ a # b /\ ~Before(s, b, a)
      BY <1>2, <2>2, OrderIsTotal
    <3>2. Before(t, a, b) \/ Before(t, b, a)
      BY <1>1, <3>1, OrderIsTotal
    <3> QED BY <1>1, <3>1, <3>2
  <2> QED BY <1>1, <1>2, <2>1, <2>2
<1> QED BY <1>1, <1>2, <1>3, <1>4 DEF t

LEMMA TouchIs ==
    ASSUME NEW D, NEW s \in Seq(D), IsInjective(s), NEW d \in D
    PROVE  /\ Touch(s, d) \in Seq(D) /\ IsInjective(Touch(s, d))
           /\ ToSet(Touch(s, d)) = ToSet(s) \cup {d}
           /\ \A a, b : Before(Touch(s, d), a, b)
                         <=> \/ Before(s, a, b) /\ a # d /\ b # d
                             \/ a \in ToSet(s) \ {d} /\ b = d
<1> DEFINE o == Delete(s, d)
<1>1. /\ o \in Seq(D) /\ IsInjective(o) /\ ToSet(o) = ToSet(s) \ {d}
      /\ \A a, b : Before(o, a, b) <=> Before(s, a, b) /\ a # d /\ b # d
  BY DeleteIs
<1>2. Touch(s, d) = Append(o, d)
  BY DEF Touch
<1> HIDE DEF o
<1>3. d \notin ToSet(o)
  BY <1>1
<1>4. /\ Append(o, d) \in Seq(D) /\ IsInjective(Append(o, d))
      /\ ToSet(Append(o, d)) = ToSet(o) \cup {d}
      /\ \A a, b : Before(Append(o, d), a, b) <=> Before(o, a, b) \/ (a \in ToSet(o) /\ b = d)
  BY <1>1, <1>3, AppendOrder
<1> QED BY <1>1, <1>2, <1>4

LEMMA InsertIs ==
    ASSUME NEW s \in Seq(Domains), IsInjective(s), Len(s) <= MaxSize, NEW d \in Domains
    PROVE  /\ Insert(s, d) \in Seq(Domains) /\ IsInjective(Insert(s, d))
           /\ Len(Insert(s, d)) <= MaxSize
           /\ d \in ToSet(Insert(s, d)) /\ ToSet(Insert(s, d)) \subseteq ToSet(s) \cup {d}
           /\ \A a, b : Before(Insert(s, d), a, b) => Before(Touch(s, d), a, b)
           /\ \A e \in ToSet(s) \ ToSet(Insert(s, d)) :
                 /\ Len(Insert(s, d)) = MaxSize
                 /\ \A f \in ToSet(Insert(s, d)) : Before(Touch(s, d), e, f)
           /\ d \in ToSet(s) => Insert(s, d) = Touch(s, d)
<1> DEFINE o == Delete(s, d)
           r == SubSeq(o, Len(o) - MaxSize + 2, Len(o))
           t == Touch(s, d)
<1>1. /\ o \in Seq(Domains) /\ IsInjective(o) /\ ToSet(o) = ToSet(s) \ {d}
      /\ Len(o) = IF d \in ToSet(s) THEN Len(s) - 1 ELSE Len(s)
      /\ \A a, b : Before(o, a, b) <=> Before(s, a, b) /\ a # d /\ b # d
      /\ Len(s) \in Nat
  BY DeleteIs
<1>2. /\ t \in Seq(Domains) /\ IsInjective(t) /\ ToSet(t) = ToSet(s) \cup {d}
      /\ \A a, b : Before(t, a, b) <=> \/ Before(s, a, b) /\ a # d /\ b # d
                                       \/ a \in ToSet(s) \ {d} /\ b = d
  BY TouchIs
<1>3. t = Append(o, d) /\ Insert(s, d) = IF Len(o) < MaxSize THEN Append(o, d) ELSE Append(r, d)
  BY DEF Touch, Insert
<1>4. MaxSize \in Nat /\ MaxSize >= 1 /\ Len(o) \in Nat /\ DOMAIN o = 1 .. Len(o)
  BY <1>1, CacheAssumption
<1> HIDE DEF o, t
<1>5. CASE Len(o) < MaxSize
  <2>1. d \notin ToSet(o)
    BY <1>1
  <2>2. Len(Append(o, d)) = Len(o) + 1
    BY <1>1, AppendProperties
  <2>3. Insert(s, d) = t
    BY <1>3, <1>5
  <2>4. Len(t) <= MaxSize
    BY <1>3, <1>4, <1>5, <2>2
  <2> QED BY <1>2, <2>3, <2>4 DEF t
<1>6. CASE ~(Len(o) < MaxSize)
  <2>1. Len(o) = MaxSize /\ d \notin ToSet(s)
    BY <1>1, <1>4, <1>6
  <2>2. r = SubSeq(o, 2, MaxSize)
    BY <1>4, <2>1
  <2> HIDE DEF r
  <2>3. /\ r \in Seq(Domains) /\ Len(r) = MaxSize - 1 /\ DOMAIN r = 1 .. MaxSize - 1
        /\ \A i \in 1 .. MaxSize - 1 : r[i] = o[i + 1] /\ i + 1 \in 1 .. MaxSize
    BY <1>1, <1>4, <2>1, <2>2
  <2>4. IsInjective(r)
    <3> SUFFICES ASSUME NEW i \in 1 .. MaxSize - 1, NEW j \in 1 .. MaxSize - 1, r[i] = r[j]
                 PROVE  i = j
      BY <2>3 DEF IsInjective
    <3>1. o[i + 1] = o[j + 1] /\ i + 1 \in DOMAIN o /\ j + 1 \in DOMAIN o
      BY <1>4, <2>1, <2>3
    <3>2. i + 1 = j + 1
      BY <1>1, <3>1 DEF IsInjective
    <3> QED BY <1>4, <3>2
  <2>5. \A a, b : Before(r, a, b) => Before(o, a, b)
    <3> SUFFICES ASSUME NEW a, NEW b, Before(r, a, b) PROVE Before(o, a, b)
      OBVIOUS
    <3>0. PICK i \in 1 .. MaxSize - 1, j \in 1 .. MaxSize - 1 : i < j /\ r[i] = a /\ r[j] = b
      BY <2>3 DEF Before
    <3>1. i + 1 < j + 1 /\ i + 1 \in 1 .. MaxSize /\ j + 1 \in 1 .. MaxSize
      BY <1>4, <3>0
    <3>2. o[i + 1] = a /\ o[j + 1] = b
      BY <2>3, <3>0
    <3> QED BY <2>1, <3>1, <3>2 DEF Before
  <2>6. ToSet(r) \subseteq ToSet(o)
    BY <1>4, <2>1, <2>3 DEF ToSet
  <2>7. /\ Append(r, d) \in Seq(Domains) /\ Len(Append(r, d)) = MaxSize
        /\ IsInjective(Append(r, d)) /\ ToSet(Append(r, d)) = ToSet(r) \cup {d}
        /\ \A a, b : Before(Append(r, d), a, b) <=> Before(r, a, b) \/ (a \in ToSet(r) /\ b = d)
    <3>1. d \notin ToSet(r)
      BY <1>1, <2>6
    <3>2. (MaxSize - 1) + 1 = MaxSize
      BY <1>4
    <3> QED BY <2>3, <2>4, <3>1, <3>2, AppendOrder
  <2>8. Insert(s, d) = Append(r, d)
    BY <1>3, <1>6
  <2>9. ASSUME NEW e \in ToSet(s) \ ToSet(Append(r, d)), NEW f \in ToSet(Append(r, d))
        PROVE  Before(t, e, f)
    <3>1. e \in ToSet(o) /\ e # d /\ e \notin ToSet(r)
      BY <1>1, <2>7, <2>9
    <3>2. PICK i \in 1 .. MaxSize : o[i] = e
      BY <1>4, <2>1, <3>1 DEF ToSet
    <3>3. i = 1
      <4>1. CASE i # 1
        <5>1. i - 1 \in 1 .. MaxSize - 1 /\ (i - 1) + 1 = i
          BY <1>4, <4>1
        <5>2. r[i - 1] = e
          BY <2>3, <3>2, <5>1
        <5> QED BY <2>3, <3>1, <5>1, <5>2 DEF ToSet
      <4> QED BY <4>1
    <3>4. CASE f = d
      BY <1>2, <2>9, <3>1, <3>4
    <3>5. CASE f \in ToSet(r)
      <4>1. PICK j \in 1 .. MaxSize - 1 : f = r[j]
        BY <2>3, <3>5 DEF ToSet
      <4>2. f = o[j + 1] /\ j + 1 \in 1 .. MaxSize /\ 1 < j + 1
        BY <1>4, <2>3, <4>1
      <4>3. Before(o, e, f)
        <5>1. 1 \in 1 .. Len(o) /\ j + 1 \in 1 .. Len(o) /\ o[1] = e /\ o[j + 1] = f /\ 1 < j + 1
          BY <1>4, <2>1, <3>2, <3>3, <4>2
        <5>2. \E k, l \in 1 .. Len(o) : k < l /\ o[k] = e /\ o[l] = f
          BY <5>1
        <5> QED BY <5>2 DEF Before
      <4> QED BY <1>1, <1>2, <4>3
    <3> QED BY <2>7, <2>9, <3>4, <3>5
  <2>10. ASSUME NEW a, NEW b, Before(Append(r, d), a, b) PROVE Before(t, a, b)
    <3>1. CASE Before(r, a, b)
      <4>1. Before(o, a, b)
        BY <2>5, <3>1
      <4>2. Before(s, a, b) /\ a # d /\ b # d
        BY <1>1, <4>1
      <4> QED BY <1>2, <4>2
    <3>2. CASE a \in ToSet(r) /\ b = d
      <4>1. a \in ToSet(s) \ {d}
        BY <1>1, <2>6, <3>2
      <4> QED BY <1>2, <3>2, <4>1
    <3> QED BY <2>7, <2>10, <3>1, <3>2
  <2>11. ToSet(Append(r, d)) \subseteq ToSet(s) \cup {d} /\ d \in ToSet(Append(r, d))
    BY <1>1, <2>6, <2>7
  <2>12. MaxSize <= MaxSize
    BY <1>4
  <2> QED BY <2>1, <2>7, <2>8, <2>9, <2>10, <2>11, <2>12 DEF t
<1> QED BY <1>5, <1>6

LEMMA LaterCounts ==
    ASSUME NEW D, NEW r \in Seq(D), IsInjective(r), NEW d, NEW S, S \subseteq Later(r, d)
    PROVE  /\ IsFiniteSet(S) /\ Cardinality(S) \in Nat
           /\ IsFiniteSet(Later(r, d)) /\ Cardinality(Later(r, d)) \in Nat
           /\ Cardinality(S) <= Cardinality(Later(r, d))
<1>1. IsFiniteSet(ToSet(r)) /\ Later(r, d) \subseteq ToSet(r)
  BY CountAll DEF Later
<1>2. IsFiniteSet(Later(r, d))
  BY <1>1, FS_Subset
<1> QED BY <1>2, FS_Subset, FS_CardinalityType

(* A certificate is made, and what makes room for it is the one asked for   *)
(* longest ago: all that are kept were asked for later.                     *)
LEMMA InsertKeeps ==
    ASSUME NEW c, NEW r, NEW E, LruInv(c, r, E), NEW d \in Domains
    PROVE  LruInv(Insert(c, d), Touch(r, d), E \ {d})
<1> DEFINE k == Insert(c, d)
           u == Touch(r, d)
<1>1. /\ c \in Seq(Domains) /\ IsInjective(c) /\ Len(c) <= MaxSize
      /\ r \in Seq(Domains) /\ IsInjective(r) /\ ToSet(c) \subseteq ToSet(r)
      /\ \A a, b : Before(c, a, b) => Before(r, a, b)
  BY DEF LruInv
<1>2. /\ k \in Seq(Domains) /\ IsInjective(k) /\ Len(k) <= MaxSize
      /\ d \in ToSet(k) /\ ToSet(k) \subseteq ToSet(c) \cup {d}
      /\ \A a, b : Before(k, a, b) => Before(Touch(c, d), a, b)
      /\ \A e \in ToSet(c) \ ToSet(k) :
            Len(k) = MaxSize /\ \A f \in ToSet(k) : Before(Touch(c, d), e, f)
  BY <1>1, InsertIs
<1>3. /\ u \in Seq(Domains) /\ IsInjective(u) /\ ToSet(u) = ToSet(r) \cup {d}
      /\ \A a, b : Before(u, a, b) <=> \/ Before(r, a, b) /\ a # d /\ b # d
                                       \/ a \in ToSet(r) \ {d} /\ b = d
  BY <1>1, TouchIs
<1>4. \A a, b : Before(Touch(c, d), a, b) <=> \/ Before(c, a, b) /\ a # d /\ b # d
                                              \/ a \in ToSet(c) \ {d} /\ b = d
  BY <1>1, TouchIs
<1> HIDE DEF k, u
<1>5. \A a, b : Before(Touch(c, d), a, b) => Before(u, a, b)
  BY <1>1, <1>3, <1>4
<1>6. ASSUME NEW e \in ToSet(u) \ ToSet(k)
      PROVE  e \in E \ {d} \/ MaxSize <= Cardinality(Later(u, e))
  <2>1. e \in ToSet(r) /\ e # d
    BY <1>2, <1>3
  <2>2. CASE e \in ToSet(c)
    <3>1. Len(k) = MaxSize /\ \A f \in ToSet(k) : Before(u, e, f)
      BY <1>2, <1>5, <1>6, <2>2
    <3>2. ToSet(k) \subseteq Later(u, e)
      BY <1>1, <1>2, <1>3, <3>1 DEF Later
    <3>3. Cardinality(ToSet(k)) = MaxSize
      BY <1>2, <3>1, CountAll
    <3>4. Cardinality(ToSet(k)) <= Cardinality(Later(u, e))
      BY <1>3, <3>2, LaterCounts
    <3> QED BY <3>3, <3>4
  <2>3. CASE e \notin ToSet(c)
    <3>1. e \in E \/ MaxSize <= Cardinality(Later(r, e))
      BY <2>1, <2>3 DEF LruInv
    <3>2. Later(r, e) \subseteq Later(u, e)
      BY <1>3, <2>1 DEF Later
    <3>3. /\ Cardinality(Later(r, e)) <= Cardinality(Later(u, e))
          /\ Cardinality(Later(r, e)) \in Nat /\ Cardinality(Later(u, e)) \in Nat
      BY <1>3, <3>2, LaterCounts
    <3> QED BY <2>1, <3>1, <3>3, CacheAssumption
  <2> QED BY <2>2, <2>3
<1>7. ToSet(k) \subseteq ToSet(u) /\ \A a, b : Before(k, a, b) => Before(u, a, b)
  BY <1>1, <1>2, <1>3, <1>5
<1>8. LruInv(k, u, E \ {d})
  BY <1>2, <1>3, <1>6, <1>7 DEF LruInv
<1> QED BY <1>8 DEF k, u

(* Certificates that are dropped have expired.                              *)
LEMMA KeepingKeeps ==
    ASSUME NEW c, NEW r, NEW E, NEW S, NEW F, LruInv(c, r, E), E \subseteq F, ToSet(c) \ S \subseteq F
    PROVE  LruInv(Keeping(c, S), r, F)
<1> DEFINE k == Keeping(c, S)
<1>1. /\ c \in Seq(Domains) /\ IsInjective(c) /\ Len(c) <= MaxSize
      /\ r \in Seq(Domains) /\ IsInjective(r) /\ ToSet(c) \subseteq ToSet(r)
      /\ \A a, b : Before(c, a, b) => Before(r, a, b)
  BY DEF LruInv
<1>2. /\ k \in Seq(Domains) /\ Len(k) <= Len(c) /\ ToSet(k) = ToSet(c) \cap S
      /\ \A a, b : Before(k, a, b) => Before(c, a, b)
      /\ IsInjective(k)
  BY <1>1, KeepingIs
<1> HIDE DEF k
<1>3. Len(k) <= MaxSize
  <2>1. Len(k) \in Nat /\ Len(c) \in Nat
    BY <1>1, <1>2
  <2> QED BY <1>1, <1>2, <2>1, CacheAssumption
<1>4. \A d \in ToSet(r) \ ToSet(k) : d \in F \/ MaxSize <= Cardinality(Later(r, d))
  BY <1>2 DEF LruInv
<1>5. ToSet(k) \subseteq ToSet(r) /\ \A a, b : Before(k, a, b) => Before(r, a, b)
  BY <1>1, <1>2
<1>6. LruInv(k, r, F)
  BY <1>1, <1>2, <1>3, <1>4, <1>5 DEF LruInv
<1> QED BY <1>6 DEF k

LEMMA EmptyCacheIs == ASSUME NEW E PROVE LruInv(<<>>, <<>>, E)
<1>1. /\ DOMAIN <<>> = {} /\ Len(<<>>) = 0 /\ <<>> \in Seq(Domains) /\ 0 <= MaxSize
  BY CacheAssumption, EmptySeq
<1>2. ToSet(<<>>) = {} /\ IsInjective(<<>>)
  BY <1>1 DEF ToSet, IsInjective
<1>3. \A a, b : ~Before(<<>>, a, b)
  BY <1>1 DEF Before
<1> QED BY <1>1, <1>2, <1>3 DEF LruInv

(* Pre-warming asks for one domain after the other.                         *)
LEMMA PreWarmedIs == LruInv(PreWarmed.cache, PreWarmed.recency, {})
<1> DEFINE n == Len(Prewarm)
           P == {w \in [cache : Seq(Domains), recency : Seq(Domains)] :
                    LruInv(w.cache, w.recency, {})}
           Asked(w, d) == [cache |-> Insert(w.cache, d), recency |-> Touch(w.recency, d)]
           empty == [cache |-> <<>>, recency |-> <<>>]
           G == [i \in 1 .. n |-> [w \in P |-> Asked(w, Prewarm[i])]]
           K(f) == f = [i \in 0 .. n |-> IF i = 0 THEN empty ELSE Asked(f[i - 1], Prewarm[i])]
           X == [i \in 0 .. n |-> P]
<1>0. n \in Nat /\ \A i \in 1 .. n : Prewarm[i] \in Domains
  BY CacheAssumption
<1>1. empty \in P
  BY EmptyCacheIs, EmptySeq
<1>2. ASSUME NEW w \in P, NEW d \in Domains PROVE Asked(w, d) \in P
  <2>1. LruInv(w.cache, w.recency, {})
    OBVIOUS
  <2>2. LruInv(Insert(w.cache, d), Touch(w.recency, d), {} \ {d})
    BY <2>1, InsertKeeps
  <2>3. {} \ {d} = {}
    OBVIOUS
  <2>4. LruInv(Insert(w.cache, d), Touch(w.recency, d), {})
    BY <2>2, <2>3
  <2>5. Insert(w.cache, d) \in Seq(Domains) /\ Touch(w.recency, d) \in Seq(Domains)
    BY <2>4 DEF LruInv
  <2> QED BY <2>4, <2>5
<1>3. \A i \in 0 .. n : X[i] = P
  OBVIOUS
<1> HIDE DEF n, P, Asked, empty, X
<1>4. \E f : K(f)
  <2>1. PICK f : IsRun(f, n, empty, G)
    BY <1>0, Iterates
  <2>2. \A i \in 0 .. n : f[i] = IF i = 0 THEN empty ELSE G[i][f[i - 1]]
    BY <2>1 DEF IsRun
  <2>3. f[0] = empty /\ f[0] \in X[0]
    <3>1. 0 \in 0 .. n
      BY <1>0
    <3> HIDE DEF G
    <3> QED BY <1>1, <1>3, <2>2, <3>1
  <2>4. ASSUME NEW i \in 1 .. n, f[i - 1] \in P
        PROVE  f[i] = Asked(f[i - 1], Prewarm[i]) /\ f[i] \in P
    <3>1. f[i] = G[i][f[i - 1]]
      <4>1. i \in 0 .. n /\ i # 0
        BY <1>0
      <4> HIDE DEF G
      <4> QED BY <2>2, <4>1
    <3>2. G[i][f[i - 1]] = Asked(f[i - 1], Prewarm[i])
      BY <2>4
    <3> QED BY <1>0, <1>2, <2>4, <3>1, <3>2
  <2>5. ASSUME NEW i \in 1 .. n, f[i - 1] \in X[i - 1] PROVE f[i] \in X[i]
    <3>1. i - 1 \in 0 .. n /\ i \in 0 .. n
      BY <1>0
    <3> QED BY <1>3, <2>4, <2>5, <3>1
  <2>6. \A i \in 0 .. n : f[i] \in X[i]
    BY <1>0, <2>3, <2>5, Inherits
  <2>7. \A i \in 0 .. n : f[i] = IF i = 0 THEN empty ELSE Asked(f[i - 1], Prewarm[i])
    <3> TAKE i \in 0 .. n
    <3>1. CASE i = 0
      BY <2>3, <3>1
    <3>2. CASE i # 0
      <4>1. i \in 1 .. n /\ i - 1 \in 0 .. n
        BY <1>0, <3>2
      <4> QED BY <1>3, <2>4, <2>6, <3>2, <4>1
    <3> QED BY <3>1, <3>2
  <2>8. f = [i \in 0 .. n |-> f[i]]
    BY <2>1 DEF IsRun
  <2> QED BY <2>7, <2>8
<1> DEFINE k == CHOOSE f : K(f)
<1>5. K(k) /\ PreWarmed = k[n]
  <2>1. K(k)
    BY <1>4
  <2>2. PreWarmed = k[n]
    BY DEF PreWarmed, n, Asked, empty
  <2> QED BY <2>1, <2>2
<1> HIDE DEF k
<1>6. \A i \in 0 .. n : k[i] = IF i = 0 THEN empty ELSE Asked(k[i - 1], Prewarm[i])
  BY <1>5
<1>7. k[0] \in X[0]
  BY <1>0, <1>1, <1>3, <1>6
<1>8. ASSUME NEW i \in 1 .. n, k[i - 1] \in X[i - 1] PROVE k[i] \in X[i]
  <2>1. i \in 0 .. n /\ i - 1 \in 0 .. n /\ i # 0 /\ Prewarm[i] \in Domains
    BY <1>0
  <2> QED BY <1>2, <1>3, <1>6, <1>8, <2>1
<1>9. k[n] \in P
  <2>1. \A i \in 0 .. n : k[i] \in X[i]
    BY <1>0, <1>7, <1>8, Inherits
  <2> QED BY <1>0, <1>3, <2>1
<1> QED BY <1>5, <1>9 DEF P

LEMMA CertInitInv == CertInit => CertInv
<1> SUFFICES ASSUME CertInit PROVE CertInv
  OBVIOUS
<1>1. \A d \in Domains : age[d] = 0
  BY DEF CertInit
<1>2. ExpiredOnes = {}
  BY <1>1, CacheAssumption DEF ExpiredOnes, Expired
<1>3. LruInv(cache, recency, ExpiredOnes)
  BY <1>2, PreWarmedIs DEF CertInit
<1>4. CertTypeOK
  BY <1>3, CacheAssumption DEF CertInit, CertTypeOK, LruInv
<1>5. Ttl # 0 => served <= Ttl
  BY CacheAssumption DEF CertInit
<1> QED BY <1>3, <1>4, <1>5 DEF CertInv

(* The steps of the certificate manager.                                   *)
LEMMA GenerateKeeps == ASSUME CertInv, NEW d \in Domains, GenerateCert(d) PROVE CertInv'
<1>1. /\ CertTypeOK /\ LruInv(cache, recency, ExpiredOnes) /\ Ttl \in Nat
      /\ age \in [Domains -> 0 .. Ttl + 1] /\ age[d] \in 0 .. Ttl + 1
  BY CacheAssumption DEF CertInv, CertTypeOK
<1>2. recency' = Touch(recency, d) /\ served' = age'[d]
  BY DEF GenerateCert
<1>3. CASE Hit(d)
  <2>1. /\ cache' = Touch(cache, d) /\ age' = age
        /\ d \in ToSet(cache) /\ ~Expired(d)
    BY <1>3 DEF GenerateCert, MoveToEnd, Hit, Cached
  <2>2. ExpiredOnes' = ExpiredOnes \ {d}
    BY <2>1 DEF ExpiredOnes, Expired
  <2>3. cache' = Insert(cache, d)
    BY <1>1, <2>1, InsertIs DEF LruInv
  <2>4. LruInv(cache', recency', ExpiredOnes')
    BY <1>1, <1>2, <2>2, <2>3, InsertKeeps
  <2>5. Ttl # 0 => served' <= Ttl
    BY <1>1, <1>2, <2>1 DEF Expired
  <2>6. CertTypeOK'
    BY <1>1, <1>2, <2>1, <2>4 DEF CertTypeOK, LruInv
  <2> QED BY <2>4, <2>5, <2>6 DEF CertInv
<1>4. CASE ~Hit(d)
  <2>1. cache' = Insert(Delete(cache, d), d) /\ age' = [age EXCEPT ![d] = 0]
    BY <1>4 DEF GenerateCert
  <2>2. ExpiredOnes' = ExpiredOnes \ {d}
    <3>1. /\ age'[d] = 0 /\ \A e \in Domains : e # d => age'[e] = age[e]
      BY <1>1, <2>1
    <3>2. ~(0 > Ttl)
      BY <1>1
    <3> QED BY <3>1, <3>2 DEF ExpiredOnes, Expired
  <2>3. LruInv(Delete(cache, d), recency, ExpiredOnes \cup {d})
    <3>1. ToSet(cache) \ (ToSet(cache) \ {d}) \subseteq ExpiredOnes \cup {d}
      OBVIOUS
    <3>2. LruInv(Keeping(cache, ToSet(cache) \ {d}), recency, ExpiredOnes \cup {d})
      BY <1>1, <3>1, KeepingKeeps
    <3> QED BY <3>2 DEF Delete
  <2>4. LruInv(cache', recency', (ExpiredOnes \cup {d}) \ {d})
    BY <1>2, <2>1, <2>3, InsertKeeps
  <2>5. (ExpiredOnes \cup {d}) \ {d} = ExpiredOnes'
    BY <2>2
  <2>6. LruInv(cache', recency', ExpiredOnes')
    BY <2>4, <2>5
  <2>7. age' \in [Domains -> 0 .. Ttl + 1] /\ served' = 0
    BY <1>1, <1>2, <2>1
  <2>8. CertTypeOK'
    BY <1>1, <2>6, <2>7 DEF CertTypeOK, LruInv
  <2>9. Ttl # 0 => served' <= Ttl
    BY <1>1, <2>7
  <2> QED BY <2>6, <2>8, <2>9 DEF CertInv
<1> QED BY <1>3, <1>4

LEMMA CertStep == CertInv /\ [CertNext]_certVars => CertInv'
<1> SUFFICES ASSUME CertInv, [CertNext]_certVars PROVE CertInv'
  OBVIOUS
<1>1. /\ CertTypeOK /\ LruInv(cache, recency, ExpiredOnes) /\ Ttl \in Nat
      /\ age \in [Domains -> 0 .. Ttl + 1]
      /\ Ttl # 0 => served <= Ttl
  BY CacheAssumption DEF CertInv, CertTypeOK
<1>2. CASE \E d \in Domains : GenerateCert(d)
  BY <1>2, GenerateKeeps
<1>3. CASE PruneCache
  <2>1. /\ cache' = Keeping(cache, {d \in Domains : ~Expired(d)})
        /\ UNCHANGED <<age, recency, served>>
    BY <1>3 DEF PruneCache
  <2>2. ToSet(cache) \ {d \in Domains : ~Expired(d)} \subseteq ExpiredOnes
    <3>1. ToSet(cache) \subseteq Domains
      BY <1>1 DEF LruInv, ToSet
    <3> QED BY <3>1 DEF ExpiredOnes
  <2>3. LruInv(cache', recency, ExpiredOnes)
    BY <1>1, <2>1, <2>2, KeepingKeeps
  <2>4. ExpiredOnes' = ExpiredOnes
    BY <2>1 DEF ExpiredOnes, Expired
  <2>5. CertTypeOK'
    BY <1>1, <2>1, <2>3 DEF CertTypeOK, LruInv
  <2> QED BY <1>1, <2>1, <2>3, <2>4, <2>5 DEF CertInv
<1>4. CASE ClearCache
  <2>1. cache' = <<>> /\ recency' = <<>> /\ UNCHANGED <<age, served>>
    BY <1>4 DEF ClearCache
  <2>2. LruInv(cache', recency', ExpiredOnes')
    BY <2>1, EmptyCacheIs
  <2>3. CertTypeOK'
    BY <1>1, <2>1, <2>2 DEF CertTypeOK, LruInv
  <2> QED BY <1>1, <2>1, <2>2, <2>3 DEF CertInv
<1>5. CASE CertTick
  <2>1. /\ age' = [d \in Domains |-> IF age[d] <= Ttl THEN age[d] + 1 ELSE age[d]]
        /\ UNCHANGED <<cache, recency, served>>
    BY <1>5 DEF CertTick
  <2>2. ASSUME NEW d \in Domains
        PROVE  age'[d] \in 0 .. Ttl + 1 /\ (age[d] > Ttl => age'[d] > Ttl)
    <3>1. age[d] \in 0 .. Ttl + 1
      BY <1>1
    <3> QED BY <1>1, <2>1, <3>1
  <2>3. ExpiredOnes \subseteq ExpiredOnes'
    BY <2>2 DEF ExpiredOnes, Expired
  <2>4. LruInv(cache, recency, ExpiredOnes')
    <3>1. \A E, F : LruInv(cache, recency, E) /\ E \subseteq F => LruInv(cache, recency, F)
      BY DEF LruInv
    <3> QED BY <1>1, <2>3, <3>1
  <2>5. age' \in [Domains -> 0 .. Ttl + 1]
    BY <2>1, <2>2
  <2>6. CertTypeOK'
    BY <1>1, <2>1, <2>5 DEF CertTypeOK
  <2> QED BY <1>1, <2>1, <2>4, <2>6 DEF CertInv
<1>6. CASE UNCHANGED certVars
  BY <1>6 DEF certVars, CertInv, CertTypeOK, ExpiredOnes, Expired
<1> QED BY <1>2, <1>3, <1>4, <1>5, <1>6 DEF CertNext

(* What is among the last MaxSize has fewer than MaxSize after it.          *)
LEMMA CertInvImplies == CertInv => CertTypeOK /\ LruContract
<1> SUFFICES ASSUME CertInv PROVE LruContract
  BY DEF CertInv
<1> DEFINE last == Len(recency) - MaxSize
<1>1. /\ recency \in Seq(Domains) /\ IsInjective(recency) /\ Len(cache) <= MaxSize
      /\ Ttl # 0 => served <= Ttl
      /\ DOMAIN recency = 1 .. Len(recency) /\ Len(recency) \in Nat /\ MaxSize \in Nat
  BY CacheAssumption DEF CertInv, LruInv
<1>2. ASSUME NEW j \in 1 .. Len(recency), j > last, ~Expired(recency[j])
      PROVE  recency[j] \in Cached
  <2> DEFINE d == recency[j]
             T == {recency[i] : i \in j + 1 .. Len(recency)}
  <2>1. IsFiniteSet(T) /\ Cardinality(T) = Len(recency) - j
    <3>1. j \in 0 .. Len(recency)
      BY <1>1
    <3>2. /\ IsFiniteSet({recency[i] : i \in j + 1 .. Len(recency)})
          /\ Cardinality({recency[i] : i \in j + 1 .. Len(recency)}) = Len(recency) - j
      <4>1. PICK m \in 0 .. Len(recency) : m = j
        BY <3>1
      <4>2. /\ IsFiniteSet({recency[i] : i \in m + 1 .. Len(recency)})
            /\ Cardinality({recency[i] : i \in m + 1 .. Len(recency)}) = Len(recency) - m
        BY <1>1, CountFrom
      <4> QED BY <4>1, <4>2
    <3> QED BY <3>2
  <2>2. Later(recency, d) \subseteq T
    <3> SUFFICES ASSUME NEW e, Before(recency, d, e) PROVE e \in T
      BY DEF Later
    <3>1. PICK i \in 1 .. Len(recency), k \in 1 .. Len(recency) :
                   i < k /\ recency[i] = d /\ recency[k] = e
      BY DEF Before
    <3>2. i = j
      BY <1>1, <3>1 DEF IsInjective
    <3> QED BY <1>1, <3>1, <3>2
  <2>3. Cardinality(Later(recency, d)) <= Cardinality(T) /\ Cardinality(Later(recency, d)) \in Nat
    <3> HIDE DEF T, d
    <3>1. IsFiniteSet(Later(recency, d))
      BY <2>1, <2>2, FS_Subset
    <3> QED BY <2>1, <2>2, <3>1, FS_Subset, FS_CardinalityType
  <2>4. Len(recency) - j < MaxSize
    BY <1>1, <1>2
  <2>5. ~(MaxSize <= Cardinality(Later(recency, d)))
    <3> HIDE DEF T, d
    <3> QED BY <1>1, <2>1, <2>3, <2>4
  <2>6. d \in ToSet(recency) /\ d \in Domains /\ d \notin ExpiredOnes
    BY <1>1, <1>2 DEF ToSet, ExpiredOnes
  <2> QED BY <2>5, <2>6 DEF CertInv, LruInv, Cached
<1> QED BY <1>1, <1>2 DEF LruContract

-----------------------------------------------------------------------------
LEMMA BreakerInvHolds == BreakerSpec => []BreakerInv
<1> QED BY BreakerInitInv, BreakerStep, PTL DEF BreakerSpec

LEMMA LimiterInvHolds == LimiterSpec => []LimiterInv
<1> QED BY LimiterInitInv, LimiterStep, PTL DEF LimiterSpec

LEMMA TenantInvHolds == TenantSpec => []TenantInv
<1> QED BY TenantInitInv, TenantStep, PTL DEF TenantSpec

(* circuit-breaker.ts: no more trials run than halfOpenMaxConcurrent allows, *)
(* but for one per late result; and a half-open circuit without a trial     *)
(* admits the next call, unless an operator cut a period short.             *)
THEOREM TrialsAreBounded == BreakerSpec => []SlotsBalance
<1> QED BY BreakerInvHolds, BreakerInvImplies, PTL

(* circuit-breaker.ts: the successes that close the circuit were reported in*)
(* this half-open period.                                                   *)
THEOREM RecoveryIsEarned == BreakerSpec => []RecoveryEarned
<1> QED BY BreakerInvHolds, BreakerInvImplies, PTL

(* circuit-breaker.ts: the breaker's counters, timer and period are of their *)
(* types, and within the bounds the code's guards set.                      *)
THEOREM BreakerTypes == BreakerSpec => []BreakerTypeOK
<1> QED BY BreakerInvHolds, BreakerInvImplies, PTL

(* connection-limiter.ts: the books are those of the sockets that are there,*)
(* and so what is open is within the limits, for any number of sockets.     *)
THEOREM LimiterCounts == LimiterSpec => [](LimiterTypeOK /\ ConnectionsCounted)
<1>1. LimiterInv => LimiterTypeOK /\ ConnectionsCounted
  BY DEF LimiterInv
<1> QED BY <1>1, LimiterInvHolds, PTL

(* multi-tenant.ts: a tenant's count drifts from its connections by no more *)
(* than the strays of its predecessors, and never above them.               *)
THEOREM TenantsDriftByStrays == TenantSpec => [](TenantTypeOK /\ TenantDrift)
<1>1. TenantInv => TenantTypeOK /\ TenantDrift
  BY DEF TenantInv
<1> QED BY <1>1, TenantInvHolds, PTL

(* lru-cache.ts: the live certificates of the MaxSize domains last asked for *)
(* are in the cache, it holds no more than that, and none that has expired  *)
(* is handed out, for any number of domains, any size and any time to live. *)
THEOREM LruKeepsTheLast == CertSpec => [](CertTypeOK /\ LruContract)
<1> QED BY CertInitInv, CertStep, CertInvImplies, PTL DEF CertSpec

(* All of it where the components are checked together.                     *)
THEOREM LimitsBalance ==
    Spec => [](TypeOK /\ SlotsBalance /\ RecoveryEarned /\ CountsBalance /\ LruContract)
<1> DEFINE inv == BreakerInv /\ LimiterInv /\ TenantInv /\ CertInv
<1>1. Init => inv
  BY BreakerInitInv, LimiterInitInv, TenantInitInv, CertInitInv DEF Init
<1>2. inv /\ [Next]_limitsVars => inv'
  <2> SUFFICES ASSUME inv, [Next]_limitsVars PROVE inv'
    OBVIOUS
  <2>1. /\ [BreakerNext]_breakerVars /\ [LimiterNext]_limiterVars
        /\ [TenantNext]_tenantVars /\ [CertNext]_certVars
    BY DEF Next, limitsVars
  <2> QED BY <2>1, BreakerStep, LimiterStep, TenantStep, CertStep
<1>3. inv => TypeOK /\ SlotsBalance /\ RecoveryEarned /\ CountsBalance /\ LruContract
  BY BreakerInvImplies, CertInvImplies DEF BreakerInv, LimiterInv, TenantInv, CountsBalance, TypeOK
<1> QED BY <1>1, <1>2, <1>3, PTL DEF Spec

(* The types of all four, within the bounds that the thresholds allow.      *)
THEOREM TypeCorrect == Spec => []TypeOK
BY LimitsBalance, PTL
=============================================================================
