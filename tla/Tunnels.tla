------------------------------ MODULE Tunnels ------------------------------
(***************************************************************************)
(* From the dial on: the tunnels of ConnectHandler.createTunnel             *)
(* (proxy/connect-handler.ts) and of WebSocketHandler.proxyWebSocket        *)
(* (proxy/websocket-handler.ts), with what their client reads, what the     *)
(* audit log says of them, and the count of active WebSockets.              *)
(*                                                                          *)
(* The handlers listen to the client's socket from the dial on: of a client *)
(* that left during an await before it they hear nothing. The 'close' events*)
(* of the sockets a step destroys belong to the step, and so does what the  *)
(* handler does when its promise is rejected.                               *)
(***************************************************************************)
EXTENDS Naturals, Sequences, FiniteSets

CONSTANT Tunnels

ASSUME TunnelAssumption == IsFiniteSet(Tunnels)

VARIABLES
    kind,      \* "connect" or "websocket", once dialled
    client,    \* the client's socket: "open" or "closed"
    upstream,  \* "none", "connecting", "waiting" (for the 101), "open", "closed"
    heard,     \* tunnels dialled while their client was there
    timer,     \* "none", "connect" or "idle"
    settled,   \* tunnels whose promise is settled
    quiet,     \* tunnels that transfer no data at present
    reply,     \* the status the client read
    audit,     \* the records of the tunnel in the audit log
    active     \* stats.activeConnections

tunnelVars == <<kind, client, upstream, heard, timer, settled, quiet, reply, audit, active>>

Connected(t) == upstream[t] \in {"waiting", "open"}
TunnelLive(t) == upstream[t] \in {"connecting", "waiting", "open"}

TunnelInit ==
    /\ kind = [t \in Tunnels |-> "none"]
    /\ client = [t \in Tunnels |-> "open"]
    /\ upstream = [t \in Tunnels |-> "none"]
    /\ heard = {} /\ settled = {} /\ quiet = Tunnels
    /\ timer = [t \in Tunnels |-> "none"]
    /\ reply = [t \in Tunnels |-> "none"]
    /\ audit = [t \in Tunnels |-> <<>>]
    /\ active = 0

-----------------------------------------------------------------------------
(* What is written to a socket that is gone is lost.                        *)
TunnelWrite(t, status) ==
    reply' = IF client[t] = "open" THEN [reply EXCEPT ![t] = status] ELSE reply

Record(t, entry) == audit' = [audit EXCEPT ![t] = Append(@, entry)]

(* The catch of handleConnect and handleUpgrade, if the promise is pending. *)
Reject(t) == IF t \in settled THEN UNCHANGED audit ELSE Record(t, "error")

(* Variant of Disconnect: a WebSocket's client is not destroyed with its    *)
(* upstream.                                                                *)
DisconnectUpstream(t) ==
    /\ upstream' = [upstream EXCEPT ![t] = "closed"]
    /\ timer' = [timer EXCEPT ![t] = "none"]
    /\ client' = IF kind[t] = "connect" THEN [client EXCEPT ![t] = "closed"] ELSE client
    /\ UNCHANGED active

(* Both sockets are destroyed and the timers stopped. The 'close' of a      *)
(* client that is listened to counts a WebSocket down, whether or not it was*)
(* ever counted up, but not below zero.                                     *)
Disconnect(t) ==
    /\ upstream' = [upstream EXCEPT ![t] = "closed"]
    /\ client' = [client EXCEPT ![t] = "closed"]
    /\ timer' = [timer EXCEPT ![t] = "none"]
    /\ active' = IF kind[t] = "websocket" /\ t \in heard /\ client[t] = "open" /\ active > 0
                 THEN active - 1 ELSE active

-----------------------------------------------------------------------------
(* Variant of Dial: the connection is counted and logged before it exists.  *)
DialCounting(t, k) ==
    /\ upstream[t] = "none"
    /\ kind' = [kind EXCEPT ![t] = k]
    /\ upstream' = [upstream EXCEPT ![t] = "connecting"]
    /\ timer' = [timer EXCEPT ![t] = "connect"]
    /\ heard' = IF client[t] = "open" THEN heard \union {t} ELSE heard
    /\ active' = IF k = "websocket" THEN active + 1 ELSE active
    /\ Record(t, "allowed")
    /\ UNCHANGED <<client, settled, quiet, reply>>

Dial(t, k) ==
    /\ upstream[t] = "none"
    /\ kind' = [kind EXCEPT ![t] = k]
    /\ upstream' = [upstream EXCEPT ![t] = "connecting"]
    /\ timer' = [timer EXCEPT ![t] = "connect"]
    /\ heard' = IF client[t] = "open" THEN heard \union {t} ELSE heard
    /\ UNCHANGED <<client, settled, quiet, reply, audit, active>>

(* net.connect's callback. It does not ask whether the promise was rejected.*)
Connect(t) ==
    /\ upstream[t] = "connecting" /\ kind[t] = "connect"
    /\ upstream' = [upstream EXCEPT ![t] = "open"]
    /\ timer' = [timer EXCEPT ![t] = "idle"]
    /\ settled' = settled \union {t}
    /\ TunnelWrite(t, "200") /\ Record(t, "allowed")
    /\ UNCHANGED <<kind, client, heard, quiet, active>>

ConnectWebSocket(t) ==
    /\ upstream[t] = "connecting" /\ kind[t] = "websocket"
    /\ upstream' = [upstream EXCEPT ![t] = "waiting"]
    /\ active' = active + 1
    /\ UNCHANGED <<kind, client, heard, timer, settled, quiet, reply, audit>>

(* The upstream's 101, from when on the sockets have the idle timeout.      *)
Upgraded(t) ==
    /\ upstream[t] = "waiting"
    /\ upstream' = [upstream EXCEPT ![t] = "open"]
    /\ timer' = [timer EXCEPT ![t] = "idle"]
    /\ settled' = settled \union {t}
    /\ TunnelWrite(t, "200") /\ Record(t, "allowed")
    /\ UNCHANGED <<kind, client, heard, quiet, active>>

(* Any other answer is passed on, and the sockets are destroyed.            *)
UpgradeRefused(t) ==
    /\ upstream[t] = "waiting"
    /\ TunnelWrite(t, "refused") /\ Reject(t) /\ Disconnect(t)
    /\ settled' = settled \union {t}
    /\ UNCHANGED <<kind, heard, quiet>>

(* 'error' of the upstream's socket. The client of a CONNECT is destroyed   *)
(* before the 502 is written. That of an upgrade gets it, from the catch,   *)
(* unless the upgrade is already answered.                                  *)
TunnelFails(t) ==
    /\ TunnelLive(t)
    /\ IF kind[t] = "websocket" /\ t \notin settled THEN TunnelWrite(t, "502") ELSE UNCHANGED reply
    /\ Reject(t) /\ Disconnect(t)
    /\ settled' = settled \union {t}
    /\ UNCHANGED <<kind, heard, quiet>>

(* 'close' without an error: a pending promise stays pending.               *)
UpstreamCloses(t) ==
    /\ Connected(t)
    /\ Disconnect(t)
    /\ UNCHANGED <<kind, heard, settled, quiet, reply, audit>>

(* Only the client's socket is destroyed, again before the 504 is written.  *)
(* If nobody hears its 'close', the dial goes on without a timer.           *)
TunnelTimeout(t) ==
    /\ timer[t] = "connect" /\ kind[t] = "connect"
    /\ Reject(t)
    /\ settled' = settled \union {t}
    /\ \/ t \in heard /\ Disconnect(t)
       \/ /\ t \notin heard
          /\ timer' = [timer EXCEPT ![t] = "none"]
          /\ UNCHANGED <<client, upstream, active>>
    /\ UNCHANGED <<kind, heard, quiet, reply>>

(* 'timeout' of the upstream's socket: here the 502 precedes the end.       *)
WebSocketTimeout(t) ==
    /\ timer[t] = "connect" /\ kind[t] = "websocket" /\ t \in quiet
    /\ TunnelWrite(t, "502") /\ Reject(t) /\ Disconnect(t)
    /\ settled' = settled \union {t}
    /\ UNCHANGED <<kind, heard, quiet>>

(* Data restarts the timer.                                                 *)
TunnelTransfers(t) ==
    /\ Connected(t)
    /\ quiet' = IF t \in quiet THEN quiet \ {t} ELSE quiet \union {t}
    /\ UNCHANGED <<kind, client, upstream, heard, timer, settled, reply, audit, active>>

(* Variant of IdleTimeout: none is started for a client that is gone.       *)
IdleTimeoutHeard(t) ==
    /\ timer[t] = "idle" /\ t \in quiet /\ t \in heard
    /\ Disconnect(t)
    /\ UNCHANGED <<kind, heard, settled, quiet, reply, audit>>

IdleTimeout(t) ==
    /\ timer[t] = "idle" /\ t \in quiet
    /\ Disconnect(t)
    /\ UNCHANGED <<kind, heard, settled, quiet, reply, audit>>

(* No audit record of a tunnel that was not yet open, and its promise stays *)
(* pending.                                                                 *)
ClientCloses(t) ==
    /\ client[t] = "open"
    /\ \/ t \in heard /\ Disconnect(t)
       \/ /\ t \notin heard
          /\ client' = [client EXCEPT ![t] = "closed"]
          /\ UNCHANGED <<upstream, timer, active>>
    /\ UNCHANGED <<kind, heard, settled, quiet, reply, audit>>

TunnelTimers(t) == TunnelTimeout(t) \/ WebSocketTimeout(t) \/ IdleTimeout(t)
Dialling(t) == Connect(t) \/ ConnectWebSocket(t) \/ TunnelFails(t)

TunnelNext == \E t \in Tunnels : \/ \E k \in {"connect", "websocket"} : Dial(t, k)
                                 \/ Dialling(t) \/ Upgraded(t) \/ UpgradeRefused(t)
                                 \/ UpstreamCloses(t) \/ TunnelTimers(t)
                                 \/ TunnelTransfers(t) \/ ClientCloses(t)

TunnelSpec == TunnelInit /\ [][TunnelNext]_tunnelVars

(* Timers expire, and a dial succeeds or fails. Upstreams need not answer,  *)
(* close or fall silent, and clients need not leave.                        *)
TunnelProgress(t) == upstream[t] = "connecting" /\ Dialling(t)

TunnelFairSpec ==
    TunnelSpec /\ \A t \in Tunnels : /\ WF_tunnelVars(TunnelTimers(t))
                                     /\ WF_tunnelVars(TunnelProgress(t))

-----------------------------------------------------------------------------
(* Types: a timer runs for every upstream connection, unless it is dialled  *)
(* after its connect timeout, and for no other tunnel.                      *)
TunnelTypeOK ==
    /\ kind \in [Tunnels -> {"none", "connect", "websocket"}]
    /\ client \in [Tunnels -> {"open", "closed"}]
    /\ upstream \in [Tunnels -> {"none", "connecting", "waiting", "open", "closed"}]
    /\ timer \in [Tunnels -> {"none", "connect", "idle"}]
    /\ heard \subseteq Tunnels /\ settled \subseteq Tunnels /\ quiet \subseteq Tunnels
    /\ reply \in [Tunnels -> {"none", "200", "refused", "502"}]
    /\ \A t \in Tunnels : Len(audit[t]) <= 2
    /\ active \in 0..Cardinality(Tunnels)
    /\ \A t \in Tunnels :
           timer[t] # "none" <=> TunnelLive(t) /\ (upstream[t] = "connecting" => t \notin settled)

(* The two sockets of a tunnel live and die together, unless the client left*)
(* before the dial.                                                         *)
SocketsPaired == \A t \in heard : client[t] = "open" <=> TunnelLive(t)

(* The audit log and the client agree: one record at most, "allowed" if and *)
(* only if the client was told so - unless it left before the dial.         *)
AuditAgrees ==
    \A t \in heard : /\ audit[t] \in {<<>>, <<"allowed">>, <<"error">>}
                     /\ (audit[t] = <<"allowed">>) <=> (reply[t] = "200")
                     /\ upstream[t] = "open" => audit[t] = <<"allowed">>

(* activeConnections counts no WebSocket that is not connected, except one  *)
(* whose client left before the dial: that one is never counted down. It may*)
(* count too few.                                                           *)
ActiveBounded ==
    active <= Cardinality({t \in Tunnels : /\ kind[t] = "websocket"
                                           /\ Connected(t) \/ t \notin heard})

(* A tunnel without a client, or that is dialled in vain, does not hold an  *)
(* upstream connection for ever, if data ceases to come.                    *)
QuietTunnelsEnd ==
    \A t \in Tunnels :
        <>[](t \in quiet) => (TunnelLive(t) /\ client[t] = "closed") ~> ~TunnelLive(t)
=============================================================================
