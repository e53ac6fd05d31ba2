---------------------------- MODULE MultiTenant ----------------------------
(***************************************************************************)
(* src/proxy/multi-tenant.ts: the tenants, and the connections counted     *)
(* against each.  A request is resolved to a tenant, then counted, then,   *)
(* when its connection ends, counted down: three calls, between which      *)
(* tenants are updated, disabled, removed and added again.  A connection   *)
(* carries only the tenant's id, so it is counted down from whatever       *)
(* tenant has that id when it ends.                                        *)
(***************************************************************************)
EXTENDS Naturals, FiniteSets

CONSTANTS Tenants, Conns,
          DefaultTenant,  \* config.defaultTenantId, a tenant or NoTenant
          NoTenant,       \* what the extractor returns for a request that names none
          Limits,         \* the values of maxConnections, Unlimited for undefined
          Unlimited

ASSUME TenantAssumption == /\ DefaultTenant \in Tenants \cup {NoTenant}
                           /\ NoTenant \notin Tenants
                           /\ Limits \subseteq Nat \cup {Unlimited}
                           /\ Unlimited \notin Nat
                           /\ IsFiniteSet(Conns)

VARIABLES
    tenant,  \* tenants: the configuration of each, or Gone
    stats,   \* tenantStats: activeConnections of each
    conn,    \* each connection: idle, "resolved" to a tenant, or "counted"
             \* against one: the "present" one, or one removed since ("former")
    stray    \* connections of former tenants that ended on the present one (history)

tenantVars == <<tenant, stats, conn, stray>>

Gone == [here |-> FALSE, enabled |-> FALSE, max |-> Unlimited]

Configs == [here : {TRUE}, enabled : BOOLEAN, max : Limits]

Idle == [status |-> "idle", of |-> NoTenant]

Counted(t) == {c \in Conns : conn[c] = [status |-> "present", of |-> t]}

TenantInit == /\ tenant = [t \in Tenants |-> Gone]
              /\ stats = [t \in Tenants |-> 0]
              /\ conn = [c \in Conns |-> Idle]
              /\ stray = [t \in Tenants |-> 0]

-----------------------------------------------------------------------------
\* Variant of AddTenant: an update starts the counts again.
AddTenantAnew(t, config) == /\ tenant' = [tenant EXCEPT ![t] = config]
                            /\ stats' = [stats EXCEPT ![t] = 0]
                            /\ UNCHANGED <<conn, stray>>

\* addTenant, which keeps the counts of a tenant that is there, and every update
\* of one (updateTenant, setTenantEnabled, the rules of a tenant), which goes
\* through it.  The new matcher and rate limiter it makes are not followed.
AddTenant(t, config) == /\ tenant' = [tenant EXCEPT ![t] = config]
                        /\ UNCHANGED <<stats, conn, stray>>

UpdateTenant(t, config) == tenant[t].here /\ AddTenant(t, config)

\* The counts of these tenants go with them; their connections live on.
Forget(gone) ==
    /\ tenant' = [t \in Tenants |-> IF t \in gone THEN Gone ELSE tenant[t]]
    /\ stats' = [t \in Tenants |-> IF t \in gone THEN 0 ELSE stats[t]]
    /\ stray' = [t \in Tenants |-> IF t \in gone THEN 0 ELSE stray[t]]
    /\ conn' = [c \in Conns |-> IF conn[c].status = "present" /\ conn[c].of \in gone
                                THEN [conn[c] EXCEPT !.status = "former"] ELSE conn[c]]

RemoveTenant(t) == tenant[t].here /\ Forget({t})

ClearAllTenants == Forget(Tenants)

\* resolveTenant: the tenant the request names, or the default one; it must be
\* known and enabled, whatever rejectUnknownTenants says.
ResolveTenant(c, named) ==
    LET t == IF named = NoTenant THEN DefaultTenant ELSE named
    IN  /\ conn[c] = Idle
        /\ t # NoTenant /\ tenant[t].enabled
        /\ conn' = [conn EXCEPT ![c] = [status |-> "resolved", of |-> t]]
        /\ UNCHANGED <<tenant, stats, stray>>

\* incrementConnections: TRUE when the tenant is still there and below its limit;
\* nothing looks at whether it is still enabled.
HasRoom(t) == tenant[t].here /\ (tenant[t].max = Unlimited \/ stats[t] < tenant[t].max)

IncrementConnections(c) ==
    LET t == conn[c].of
    IN  /\ conn[c].status = "resolved"
        /\ IF HasRoom(t)
           THEN /\ stats' = [stats EXCEPT ![t] = @ + 1]
                /\ conn' = [conn EXCEPT ![c].status = "present"]
           ELSE /\ conn' = [conn EXCEPT ![c] = Idle]
                /\ UNCHANGED stats
        /\ UNCHANGED <<tenant, stray>>

\* decrementConnections, when the connection ends.
DecrementConnections(c) ==
    LET t == conn[c].of
    IN  /\ conn[c].status \in {"present", "former"}
        /\ stats' = [stats EXCEPT ![t] = IF tenant[t].here /\ @ > 0 THEN @ - 1 ELSE @]
        /\ stray' = [stray EXCEPT ![t] = IF tenant[t].here /\ conn[c].status = "former"
                                         THEN @ + 1 ELSE @]
        /\ conn' = [conn EXCEPT ![c] = Idle]
        /\ UNCHANGED tenant

TenantNext ==
    \/ \E t \in Tenants : \/ \E config \in Configs : AddTenant(t, config) \/ UpdateTenant(t, config)
                          \/ RemoveTenant(t)
    \/ ClearAllTenants
    \/ \E c \in Conns : \/ \E named \in Tenants \cup {NoTenant} : ResolveTenant(c, named)
                        \/ IncrementConnections(c) \/ DecrementConnections(c)

TenantSpec == TenantInit /\ [][TenantNext]_tenantVars

-----------------------------------------------------------------------------
TenantTypeOK == /\ tenant \in [Tenants -> Configs \cup {Gone}]
                /\ stats \in [Tenants -> 0 .. Cardinality(Conns)]
                /\ conn \in [Conns -> [status : {"idle", "resolved", "present", "former"},
                                       of : Tenants \cup {NoTenant}]]
                /\ stray \in [Tenants -> 0 .. Cardinality(Conns)]

\* A tenant's count is never above the connections it really has, and below them
\* by no more than the connections of former tenants of that name that ended
\* since: each of those takes one from the count of its successor, which may
\* then admit as many above its maximum.
TenantDrift == \A t \in Tenants : /\ stats[t] <= Cardinality(Counted(t))
                                  /\ Cardinality(Counted(t)) <= stats[t] + stray[t]
=============================================================================
