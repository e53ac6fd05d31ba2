------------------------------ MODULE MCLimits ------------------------------
(***************************************************************************)
(* Four components that bound something, checked in one run.  They share   *)
(* nothing, so a behaviour exercises one of them, chosen at the start: the *)
(* state space is the sum of theirs, not the product.                      *)
(***************************************************************************)
EXTENDS CircuitBreaker, ConnectionLimiter, MultiTenant, CertCache

CONSTANTS i1, i2, s1, s2, s3, s4, d1, d2

MCIpOf == (s1 :> i1) @@ (s2 :> i1) @@ (s3 :> i1) @@ (s4 :> i2)

MCLimits == {1, Unlimited}

MCPrewarm == <<d1, d2>>

VARIABLE part

limitsVars == <<breakerVars, limiterVars, tenantVars, certVars, part>>

Init == /\ part \in {"breaker", "limiter", "tenants", "certificates"}
        /\ BreakerInit /\ LimiterInit /\ TenantInit /\ CertInit

Next == /\ \/ /\ part = "breaker" /\ BreakerNext
              /\ UNCHANGED <<limiterVars, tenantVars, certVars>>
           \/ /\ part = "limiter" /\ LimiterNext
              /\ UNCHANGED <<breakerVars, tenantVars, certVars>>
           \/ /\ part = "tenants" /\ TenantNext
              /\ UNCHANGED <<breakerVars, limiterVars, certVars>>
           \/ /\ part = "certificates" /\ CertNext
              /\ UNCHANGED <<breakerVars, limiterVars, tenantVars>>
        /\ UNCHANGED part

Spec == Init /\ [][Next]_limitsVars

\* The type invariants of the four.
TypeOK == BreakerTypeOK /\ LimiterTypeOK /\ TenantTypeOK /\ CertTypeOK

\* Connections are counted as they are: those of an address, of all addresses, and
\* of a tenant, whatever is reset, reported twice or removed while they live.
CountsBalance == ConnectionsCounted /\ TenantDrift
=============================================================================
