\* Two tunnels, each a CONNECT or a WebSocket; two requests that compete for one
\* socket, which is kept alive; two gRPC streams and two gRPC-Web requests.
SPECIFICATION Spec
CONSTANTS
    Tunnels = {t1, t2}
    Requests = {r1, r2}
    MaxSockets = 1
    MaxFreeSockets = 1
    Streams = {g1, g2}
    MaxSessions = 2
    WebRequests = {w1, w2}
INVARIANTS
    TypeOK
    SocketsPaired
    BooksTruthful
    SessionsTracked
PROPERTIES
    QuietTunnelsEnd
    ForwardedRequestsEnd
    GrpcRequestsEnd
CHECK_DEADLOCK FALSE
