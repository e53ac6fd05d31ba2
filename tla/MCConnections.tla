--------------------------- MODULE MCConnections ---------------------------
(***************************************************************************)
(* The four ways from a client to an upstream: tunnels, forwarded requests, *)
(* gRPC streams and gRPC-Web requests.  They share nothing, so a behaviour  *)
(* exercises one of them, chosen at the start: the state space is the sum of*)
(* theirs, not the product.                                                 *)
(***************************************************************************)
EXTENDS Tunnels, ForwardRequest, GrpcHandler, GrpcWeb

VARIABLE part

connectionsVars == <<tunnelVars, forwardVars, grpcVars, webVars, part>>

Init == /\ part \in {"tunnels", "forward", "grpc", "web"}
        /\ TunnelInit /\ ForwardInit /\ GrpcInit /\ WebInit

Next == /\ \/ part = "tunnels" /\ TunnelNext /\ UNCHANGED <<forwardVars, grpcVars, webVars>>
           \/ part = "forward" /\ ForwardNext /\ UNCHANGED <<tunnelVars, grpcVars, webVars>>
           \/ part = "grpc" /\ GrpcNext /\ UNCHANGED <<tunnelVars, forwardVars, webVars>>
           \/ part = "web" /\ WebNext /\ UNCHANGED <<tunnelVars, forwardVars, grpcVars>>
        /\ UNCHANGED part

\* The fairness of the components: outside its part a component stands still.
Spec ==
    /\ Init /\ [][Next]_connectionsVars
    /\ \A t \in Tunnels : /\ WF_tunnelVars(part = "tunnels" /\ TunnelTimers(t))
                          /\ WF_tunnelVars(part = "tunnels" /\ TunnelProgress(t))
    /\ \A r \in Requests : /\ WF_forwardVars(part = "forward" /\ ConnectTimeout(r))
                           /\ WF_forwardVars(part = "forward" /\ ResponseTimeout(r))
                           /\ WF_forwardVars(part = "forward" /\ SocketTimeout(r))
                           /\ WF_forwardVars(part = "forward" /\ (Drains(r) \/ Overruns(r)))
    /\ \A s \in Streams : WF_grpcVars(part = "grpc" /\ GrpcProgress(s))
    /\ \A r \in WebRequests : WF_webVars(part = "web" /\ WebProgress(r))

\* The type invariants of the four.
TypeOK == TunnelTypeOK /\ ForwardTypeOK /\ GrpcTypeOK /\ WebTypeOK

\* What is written down is what happened: no audit record of a tunnel or a forwarded
\* request contradicts what its client saw, none is written twice, and no WebSocket is
\* counted active that is not connected.
BooksTruthful == AuditAgrees /\ AuditTells /\ ActiveBounded

\* No forwarded request holds or waits for a socket for ever, and none leaves a client
\* that stays without the end of its answer.
ForwardedRequestsEnd == SocketsComeBack /\ ClientAnswered

\* No gRPC or gRPC-Web request holds its upstream stream for ever or leaves a client
\* that stays without an answer, unless its session was closed under it.
GrpcRequestsEnd == GrpcUpstreamEnds /\ WebRequestsEnd
=============================================================================
