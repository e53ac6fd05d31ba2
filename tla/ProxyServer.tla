---------------------------- MODULE ProxyServer ----------------------------
(***************************************************************************)
(* The life of ProxyServer (server.ts) with its admin server                *)
(* (admin/admin-server.ts): start, the connections it tracks, and the       *)
(* graceful shutdown. What the handlers decide on a request is RequestGate's.*)
(*                                                                          *)
(* stop() does its work once, and at any time: index.ts calls it on a       *)
(* signal, which may come while start() awaits something.                   *)
(*                                                                          *)
(* Node (20 and later) is external: http.Server.close() closes the          *)
(* connections between two requests, and calls back when none is left,      *)
(* tunnels included; a connection that has not sent anything yet is not idle*)
(* to it, and from then on no timeout of Node's ends an unfinished request. *)
(* It calls back at once, with an error, if the server does not listen yet, *)
(* and a listen() under way goes on. A write after socket.end() destroys the*)
(* socket.                                                                  *)
(***************************************************************************)

CONSTANTS Connections,  \* to the proxy
          Admins        \* connections to the admin server

VARIABLES
    start,       \* what start() awaits: "new" (the certificates), "starting" (the
                 \* admin server's listen()), "admin" (its own); "running"; or for
                 \* ever "adminStuck" or "stuck"
    stop,        \* "none", "draining", "admin" (it waits for that server), "done"
    early,       \* stop() was called before start() had settled
    adminListening,
    listening,
    ready,       \* isRunning: what /ready answers
    forceTimer,
    conn,        \* the client connections
    half,        \* those on which socket.end() was called
    admin,       \* the connections of the admin server
    cut          \* history: requests in flight whose answer the shutdown lost

starting == <<start, early, adminListening>>
serverVars == <<starting, stop, listening, ready, forceTimer, conn, half, admin, cut>>

\* "active": the request is being handled; "flushing": its response is queued.
States == {"none", "fresh", "idle", "active", "flushing", "tunnel", "closed"}
\* "pending": nothing, or a part of a request, was sent; "handled": the whole of it.
AdminStates == {"none", "pending", "handled", "idle", "stream", "closed"}
Open == {c \in Connections : conn[c] \notin {"none", "closed"}}
In(state) == {c \in Connections : conn[c] = state}

isShuttingDown == stop # "none"

ServerInit ==
    /\ start = "new" /\ stop = "none" /\ early = FALSE
    /\ adminListening = FALSE /\ listening = FALSE /\ ready = FALSE /\ forceTimer = FALSE
    /\ conn = [c \in Connections |-> "none"] /\ half = {}
    /\ admin = [a \in Admins |-> "none"] /\ cut = {}

-----------------------------------------------------------------------------
(* start: the certificates, the admin server, the proxy. An 'error' of      *)
(* either listen() is logged, and the promise never settles. None of these  *)
(* steps asks whether stop() was called in the meantime.                    *)
Initialized ==
    /\ start = "new"
    /\ start' = "starting"
    /\ UNCHANGED <<stop, early, adminListening, listening, ready, forceTimer, conn, half,
                   admin, cut>>

ListenFails ==
    /\ start \in {"starting", "admin"}
    /\ start' = IF start = "starting" THEN "adminStuck" ELSE "stuck"
    /\ UNCHANGED <<stop, early, adminListening, listening, ready, forceTimer, conn, half,
                   admin, cut>>

StartAdmin ==
    /\ start = "starting"
    /\ start' = "admin" /\ adminListening' = TRUE
    /\ UNCHANGED <<stop, early, listening, ready, forceTimer, conn, half, admin, cut>>

Listen ==
    /\ start = "admin"
    /\ start' = "running" /\ listening' = TRUE /\ ready' = TRUE
    /\ UNCHANGED <<stop, early, adminListening, forceTimer, conn, half, admin, cut>>

-----------------------------------------------------------------------------
Become(c, state) == conn' = [conn EXCEPT ![c] = state]

Accept(c) ==
    /\ listening /\ conn[c] = "none"
    /\ Become(c, "fresh")
    /\ UNCHANGED <<starting, stop, listening, ready, forceTimer, half, admin, cut>>

(* handleRequest: while shutting down the answer is a 503.                  *)
Request(c) ==
    /\ conn[c] \in {"fresh", "idle"}
    /\ Become(c, IF ~isShuttingDown THEN "active"
                 ELSE IF c \in half THEN "closed" ELSE "flushing")
    /\ UNCHANGED <<starting, stop, listening, ready, forceTimer, half, admin, cut>>

(* handleConnect, handleUpgrade: a tunnel is opened during a shutdown, too. *)
Connect(c) ==
    /\ conn[c] \in {"fresh", "idle"}
    /\ Become(c, IF c \in half THEN "closed" ELSE "tunnel")
    /\ UNCHANGED <<starting, stop, listening, ready, forceTimer, half, admin, cut>>

Respond(c) ==
    /\ conn[c] = "active"
    /\ Become(c, IF c \in half THEN "closed" ELSE "flushing")
    /\ cut' = IF c \in half THEN cut \union {c} ELSE cut
    /\ UNCHANGED <<starting, stop, listening, ready, forceTimer, half, admin>>

Flushed(c) ==
    /\ conn[c] = "flushing"
    /\ Become(c, "idle")
    /\ UNCHANGED <<starting, stop, listening, ready, forceTimer, half, admin, cut>>

(* The keep-alive timeout, the end of a tunnel, or the client.              *)
Closes(c) ==
    /\ c \in Open
    /\ Become(c, "closed")
    /\ UNCHANGED <<starting, stop, listening, ready, forceTimer, half, admin, cut>>

(* The same of the admin server, until it stops listening. It handles every *)
(* request by itself; GET /api/audit/stream is answered for as long as the  *)
(* client wants.                                                            *)
AdminBecomes(a, state) ==
    /\ admin' = [admin EXCEPT ![a] = state]
    /\ UNCHANGED <<starting, stop, listening, ready, forceTimer, conn, half, cut>>

AdminConnects(a) ==
    /\ adminListening /\ admin[a] = "none"
    /\ AdminBecomes(a, "pending")

AdminBegins(a) ==
    /\ admin[a] = "idle"
    /\ AdminBecomes(a, "pending")

AdminRequest(a) ==
    /\ admin[a] = "pending"
    /\ AdminBecomes(a, "handled")

AdminAnswers(a) ==
    /\ admin[a] = "handled"
    /\ \E state \in {"idle", "stream"} : AdminBecomes(a, state)

AdminCloses(a) ==
    /\ admin[a] \notin {"none", "closed"}
    /\ AdminBecomes(a, "closed")

-----------------------------------------------------------------------------
(* Variant of Stop: no force timer.                                         *)
StopPatient ==
    /\ start = "running" /\ stop = "none"
    /\ stop' = "draining"
    /\ listening' = FALSE /\ ready' = FALSE /\ UNCHANGED forceTimer
    /\ conn' = [c \in Connections |-> IF conn[c] = "idle" THEN "closed" ELSE conn[c]]
    /\ \E queued \in SUBSET (In("active") \union In("tunnel")) :
           half' = (In("fresh") \union In("active") \union In("tunnel")) \ queued
    /\ \E pooled \in SUBSET In("active") : cut' = pooled
    /\ UNCHANGED <<starting, admin>>

(* Up to its first await: the pool is destroyed, and with it the upstream   *)
(* connections in use; the server stops listening and closes what is idle;  *)
(* socket.end() is called on every other connection without queued output.  *)
Stop ==
    /\ start = "running" /\ stop = "none"
    /\ stop' = "draining" /\ forceTimer' = TRUE
    /\ listening' = FALSE /\ ready' = FALSE
    /\ conn' = [c \in Connections |-> IF conn[c] = "idle" THEN "closed" ELSE conn[c]]
    /\ \E queued \in SUBSET (In("active") \union In("tunnel")) :
           half' = (In("fresh") \union In("active") \union In("tunnel")) \ queued
    /\ \E pooled \in SUBSET In("active") : cut' = pooled
    /\ UNCHANGED <<starting, admin>>

(* AdminServer.stop: the server stops listening and closes what is idle.    *)
CloseAdmin ==
    /\ adminListening' = FALSE
    /\ admin' = [a \in Admins |-> IF admin[a] = "idle" THEN "closed" ELSE admin[a]]

(* stop() before start() has settled: no server yet, or server.close() calls*)
(* back at once; the admin server is stopped alike. What start() awaits     *)
(* goes on.                                                                 *)
StopEarly ==
    /\ start # "running" /\ stop = "none"
    /\ stop' = IF adminListening THEN "admin" ELSE "done"
    /\ early' = TRUE /\ CloseAdmin
    /\ UNCHANGED <<start, listening, ready, forceTimer, conn, half, cut>>

(* Variant of ForceShutdown: tunnels are not among the connections.         *)
ForceShutdownRequests ==
    /\ forceTimer
    /\ forceTimer' = FALSE
    /\ conn' = [c \in Connections |-> IF c \in Open /\ conn[c] # "tunnel" THEN "closed"
                                                                          ELSE conn[c]]
    /\ stop' = "admin" /\ CloseAdmin
    /\ UNCHANGED <<start, early, listening, ready, half, cut>>

ForceShutdown ==
    /\ forceTimer
    /\ forceTimer' = FALSE
    /\ conn' = [c \in Connections |-> IF c \in Open THEN "closed" ELSE conn[c]]
    /\ stop' = "admin" /\ CloseAdmin
    /\ UNCHANGED <<start, early, listening, ready, half, cut>>

(* Variant of Drain: the force timer is not cleared.                        *)
DrainUncleared ==
    /\ stop = "draining" /\ Open = {}
    /\ stop' = "admin" /\ CloseAdmin
    /\ UNCHANGED <<start, early, listening, ready, forceTimer, conn, half, cut>>

(* The callback of server.close(), at once if it was not listening.         *)
Drain ==
    /\ stop = "draining" /\ Open = {}
    /\ forceTimer' = FALSE /\ stop' = "admin" /\ CloseAdmin
    /\ UNCHANGED <<start, early, listening, ready, conn, half, cut>>

(* The callback of the admin server's close(): there is no timer.           *)
AdminStops ==
    /\ stop = "admin" /\ \A a \in Admins : admin[a] \in {"none", "closed"}
    /\ stop' = "done"
    /\ UNCHANGED <<starting, listening, ready, forceTimer, conn, half, admin, cut>>

ServerNext ==
    \/ Initialized \/ StartAdmin \/ Listen \/ ListenFails
    \/ \E c \in Connections : \/ Accept(c) \/ Request(c) \/ Connect(c)
                              \/ Respond(c) \/ Flushed(c) \/ Closes(c)
    \/ \E a \in Admins : \/ AdminConnects(a) \/ AdminBegins(a) \/ AdminRequest(a)
                         \/ AdminAnswers(a) \/ AdminCloses(a)
    \/ Stop \/ StopEarly \/ ForceShutdown \/ Drain \/ AdminStops

ServerSpec == ServerInit /\ [][ServerNext]_serverVars

(* Timers expire - of Node's, the keep-alive timeout of the admin server -, *)
(* callbacks run, and the admin server answers. Clients need not send, close*)
(* or leave, and upstreams need not answer.                                 *)
ServerFairSpec ==
    /\ ServerSpec
    /\ WF_serverVars(ForceShutdown) /\ WF_serverVars(Drain) /\ WF_serverVars(AdminStops)
    /\ \A a \in Admins : /\ WF_serverVars(AdminAnswers(a))
                         /\ WF_serverVars(admin[a] = "idle" /\ AdminCloses(a))

-----------------------------------------------------------------------------
(* Types: the force timer runs only while the shutdown waits, and no socket *)
(* is ended before it.                                                      *)
ServerTypeOK ==
    /\ start \in {"new", "starting", "admin", "running", "stuck", "adminStuck"}
    /\ stop \in {"none", "draining", "admin", "done"}
    /\ early \in BOOLEAN /\ adminListening \in BOOLEAN /\ listening \in BOOLEAN
    /\ ready \in BOOLEAN /\ forceTimer \in BOOLEAN
    /\ conn \in [Connections -> States]
    /\ half \subseteq Connections /\ cut \subseteq Connections
    /\ admin \in [Admins -> AdminStates]
    /\ forceTimer => stop = "draining"
    /\ stop = "none" => half = {} /\ cut = {}

(* When stop() is past its wait, nothing is left of the traffic: whether the*)
(* last connection closed by itself, was a tunnel opened during the shutdown*)
(* or was cut off, none is open, and the proxy does not say it is ready.    *)
(* Nothing of this holds of a stop() that came before start() had settled:  *)
(* start() goes on to listen. A plain request then gets a 503, but CONNECT  *)
(* tunnels and upgrades are served for as long as the process lives.        *)
Drained == stop \in {"admin", "done"} /\ ~early => Open = {} /\ ~listening /\ ~ready

(* stop() settles, however long clients and upstreams of the proxy hang on, *)
(* unless a connection of the admin server stays unfinished - it has sent   *)
(* nothing or a part of a request, or is an audit stream - or its clients go*)
(* on sending requests for ever. The force timer does not reach those.      *)
Unfinished == {a \in Admins : admin[a] \in {"pending", "stream"}}

StopSettles == <>[](Unfinished = {}) => ((stop # "none") ~> (stop = "done"))

(* "Waits for in-flight requests to complete (up to shutdownTimeout)": a    *)
(* request that was being handled loses its answer to the timeout only.     *)
InFlightCompletes == stop = "draining" => cut = {}
=============================================================================
