------------------------- MODULE ConnectionLimiter -------------------------
(***************************************************************************)
(* src/filter/connection-limiter.ts: connections counted per client        *)
(* address and in total.  Its caller asks canAccept and tracks the socket  *)
(* in the same turn, once per socket.  A socket leaves the books when it   *)
(* fails, when it closes (after failing too) and when its owner calls the  *)
(* cleanup function track returned: up to three times, in any order.       *)
(***************************************************************************)
EXTENDS Naturals, FiniteSets

CONSTANTS Ips, Sockets,
          IpOf,          \* the client address of each socket
          MaxPerIp,      \* limits.maxConcurrentConnectionsPerIp
          MaxTotal       \* limits.maxTotalConnections

ASSUME LimiterAssumption == /\ IpOf \in [Sockets -> Ips]
                            /\ MaxPerIp \in Nat /\ MaxTotal \in Nat
                            /\ IsFiniteSet(Sockets)

VARIABLES
    byIp,    \* connectionsByIp: the sockets tracked, under their address
    total,   \* totalConnections
    socket,  \* each socket: "none", "open", or "failed": it emitted 'error' and
             \* has yet to emit 'close'
    owned    \* sockets whose owner has not called cleanup (history: those
             \* accepted since the last reset)

limiterVars == <<byIp, total, socket, owned>>

LimiterInit == /\ byIp = [i \in Ips |-> {}]
               /\ total = 0
               /\ socket = [s \in Sockets |-> "none"]
               /\ owned = {}

-----------------------------------------------------------------------------
CanAccept(ip) == total < MaxTotal /\ Cardinality(byIp[ip]) < MaxPerIp

\* A connection arrives: refused, it is gone again at once.
Track(s) == /\ socket[s] = "none" /\ CanAccept(IpOf[s])
            /\ byIp' = [byIp EXCEPT ![IpOf[s]] = @ \cup {s}]
            /\ total' = total + 1
            /\ socket' = [socket EXCEPT ![s] = "open"]
            /\ owned' = owned \cup {s}

\* Variant of Untrack: it does not ask whether the socket was tracked.
UntrackAnyway(s) == /\ byIp' = [byIp EXCEPT ![IpOf[s]] = @ \ {s}]
                    /\ total' = IF total > 0 THEN total - 1 ELSE total
                    /\ owned' = owned \ {s}

Untrack(s) == /\ byIp' = [byIp EXCEPT ![IpOf[s]] = @ \ {s}]
              /\ total' = IF s \in byIp[IpOf[s]] /\ total > 0 THEN total - 1 ELSE total
              /\ owned' = owned \ {s}

SocketFails(s) == /\ socket[s] = "open"
                  /\ socket' = [socket EXCEPT ![s] = "failed"]
                  /\ Untrack(s)

SocketCloses(s) == /\ socket[s] # "none"
                   /\ socket' = [socket EXCEPT ![s] = "none"]
                   /\ Untrack(s)

\* The owner of the socket calls the cleanup function; the socket may live on.
Cleanup(s) == /\ socket[s] # "none"
              /\ Untrack(s)
              /\ UNCHANGED socket

\* reset: every live socket is forgotten.
LimiterReset == /\ byIp' = [i \in Ips |-> {}]
                /\ total' = 0
                /\ owned' = {}
                /\ UNCHANGED socket

LimiterNext ==
    \/ \E s \in Sockets : Track(s) \/ SocketFails(s) \/ SocketCloses(s) \/ Cleanup(s)
    \/ LimiterReset

LimiterSpec == LimiterInit /\ [][LimiterNext]_limiterVars

-----------------------------------------------------------------------------
LimiterTypeOK == /\ byIp \in [Ips -> SUBSET Sockets]
                 /\ total \in Nat
                 /\ socket \in [Sockets -> {"none", "open", "failed"}]
                 /\ owned \subseteq Sockets

\* The books are right: the total is the number of sockets tracked, and those are
\* the sockets accepted since the last reset that neither failed, closed nor were
\* given up, however often and in whatever order their ends are reported; so the
\* limits bound what is really open.
ConnectionsCounted ==
    /\ \A i \in Ips : byIp[i] = {s \in owned : IpOf[s] = i}
    /\ total = Cardinality(owned)
    /\ total <= MaxTotal
    /\ \A i \in Ips : Cardinality(byIp[i]) <= MaxPerIp
=============================================================================
