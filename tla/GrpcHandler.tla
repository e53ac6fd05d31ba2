---------------------------- MODULE GrpcHandler ----------------------------
(***************************************************************************)
(* GrpcHandler (proxy/grpc-handler.ts): client streams proxied over HTTP/2 *)
(* sessions kept per target.  Targets share nothing, so there is one.      *)
(*                                                                         *)
(* Of Node's HTTP/2: a session that is destroyed emits 'close' (after      *)
(* 'error', if it failed) only when its socket has closed; one that was    *)
(* told to go away is `closed` and lives until its streams have ended.     *)
(* Whether a stream that is destroyed without an error still emits 'end'   *)
(* depends on what it has been read: both are modelled.                    *)
(***************************************************************************)
EXTENDS Integers, FiniteSets

CONSTANTS Streams,
          MaxSessions  \* bound: sessions made

ASSUME GrpcAssumption == IsFiniteSet(Streams) /\ MaxSessions \in Nat

VARIABLES
    entry,          \* the session upstreamConnections has for the target, 0 for none
    session,        \* the sessions in the order they were made: "open", "draining":
                    \* closed to new streams, "dying": destroyed, its 'close' still
                    \* to come, "gone"
    displaced,      \* sessions taken out of the map by the 'close' of an older one (history)
    stage,          \* handleStream: "new", "limiter", "proxied", "settled"
    via,            \* the session of a stream
    upstreamStream, \* "none", "open", "failing", "ended", or destroyed: by its own
                    \* end ("destroyed") or its session's ("lost")
    grpcTimer,      \* streams with a request timer
    listened,       \* streams that were proxied before their client closed them
    grpcClient,     \* the client's stream: "open" or "closed"
    grpcAnswer,     \* what the client gets to read
    activeStreams   \* stats.activeStreams

grpcVars == <<entry, session, displaced, stage, via, upstreamStream, grpcTimer, listened,
              grpcClient, grpcAnswer, activeStreams>>

streamVars == <<stage, via, upstreamStream, grpcTimer, listened, grpcClient, grpcAnswer,
               activeStreams>>

Made == DOMAIN session
StreamsOf(n) == {s \in Streams : via[s] = n /\ upstreamStream[s] = "open"}
Unsettled == {s \in Streams : stage[s] \in {"limiter", "proxied"}}
FinalAnswers == {"error", "complete", "cut"}

GrpcInit ==
    /\ entry = 0 /\ session = [n \in {} |-> "open"] /\ displaced = {}
    /\ stage = [s \in Streams |-> "new"]
    /\ via = [s \in Streams |-> 0]
    /\ upstreamStream = [s \in Streams |-> "none"]
    /\ grpcTimer = {} /\ listened = {}
    /\ grpcClient = [s \in Streams |-> "open"]
    /\ grpcAnswer = [s \in Streams |-> "none"]
    /\ activeStreams = 0

-----------------------------------------------------------------------------
\* sendGrpcError: a trailers-only response; once the head was sent, respond()
\* throws and the client's stream is destroyed instead.
SendGrpcError(s) ==
    /\ grpcAnswer' = [grpcAnswer EXCEPT ![s] = IF grpcClient[s] = "closed" THEN @
                                              ELSE IF @ = "none" THEN "error"
                                              ELSE IF @ = "head" THEN "cut" ELSE @]
    /\ grpcClient' = [grpcClient EXCEPT ![s] = IF grpcAnswer[s] = "head" THEN "closed" ELSE @]

\* The promise settles, and with it handleStream: once.
Settle(s) == /\ stage' = [stage EXCEPT ![s] = "settled"]
             /\ activeStreams' = IF s \in Unsettled THEN activeStreams - 1 ELSE activeStreams

SettleRejected(s) == /\ Settle(s)
                     /\ IF stage[s] = "settled" THEN UNCHANGED <<grpcAnswer, grpcClient>>
                                                ELSE SendGrpcError(s)

\* An invalid path, or the allowlist, or the rule's gRPC conditions.
RejectStream(s) ==
    /\ stage[s] = "new"
    /\ SendGrpcError(s)
    /\ stage' = [stage EXCEPT ![s] = "settled"]
    /\ UNCHANGED <<entry, session, displaced, via, upstreamStream, grpcTimer, listened,
                   activeStreams>>

AcceptStream(s) ==
    /\ stage[s] = "new"
    /\ stage' = [stage EXCEPT ![s] = "limiter"]
    /\ activeStreams' = activeStreams + 1
    /\ UNCHANGED <<entry, session, displaced, via, upstreamStream, grpcTimer, listened,
                   grpcClient, grpcAnswer>>

RateLimited(s) ==
    /\ stage[s] = "limiter"
    /\ SettleRejected(s)
    /\ UNCHANGED <<entry, session, displaced, via, upstreamStream, grpcTimer, listened>>

-----------------------------------------------------------------------------
\* getUpstreamSession: the one there is, if it takes streams, or a new one.
Usable(n) == n # 0 /\ session[n] = "open"

\* Variant of GetUpstreamSession: closed sessions are not told from others.
GetUpstreamSessionAny(n) ==
    IF entry # 0 /\ session[entry] # "gone"
    THEN /\ n = entry
         /\ UNCHANGED <<entry, session>>
    ELSE /\ Cardinality(Made) < MaxSessions
         /\ n = Cardinality(Made) + 1
         /\ entry' = n
         /\ session' = [m \in Made \cup {n} |-> IF m = n THEN "open" ELSE session[m]]

GetUpstreamSession(n) ==
    IF Usable(entry)
    THEN /\ n = entry
         /\ UNCHANGED <<entry, session>>
    ELSE /\ Cardinality(Made) < MaxSessions
         /\ n = Cardinality(Made) + 1
         /\ entry' = n
         /\ session' = [m \in Made \cup {n} |-> IF m = n THEN "open" ELSE session[m]]

\* Variant of StartGrpcTimer: no request timer without a grpc-timeout.
StartGrpcTimerIfTold(s) == UNCHANGED grpcTimer

StartGrpcTimer(s) == grpcTimer' = grpcTimer \cup {s}

\* proxyToUpstream: a client that left during the await is not noticed.
ProxyToUpstream(s) ==
    /\ stage[s] = "limiter"
    /\ \E n \in 1 .. MaxSessions : /\ GetUpstreamSession(n)
                                   /\ via' = [via EXCEPT ![s] = n]
    /\ stage' = [stage EXCEPT ![s] = "proxied"]
    /\ upstreamStream' = [upstreamStream EXCEPT ![s] = "open"]
    /\ StartGrpcTimer(s)
    /\ listened' = IF grpcClient[s] = "open" THEN listened \cup {s} ELSE listened
    /\ UNCHANGED <<displaced, grpcClient, grpcAnswer, activeStreams>>

UpstreamHead(s) ==
    /\ upstreamStream[s] = "open" /\ session[via[s]] # "dying"
    /\ grpcAnswer[s] = "none" /\ grpcClient[s] = "open"
    /\ grpcAnswer' = [grpcAnswer EXCEPT ![s] = "head"]
    /\ UNCHANGED <<entry, session, displaced, stage, via, upstreamStream, grpcTimer, listened,
                   grpcClient, activeStreams>>

\* 'end' of the upstream stream; its trailers, which carry the status, are not
\* passed on.  A destroyed stream may emit it too.
UpstreamStreamEnds(s) ==
    /\ upstreamStream[s] \in {"open", "destroyed", "lost"} /\ stage[s] = "proxied"
    /\ upstreamStream' = [upstreamStream EXCEPT ![s] = IF @ = "open" THEN "ended" ELSE @]
    /\ grpcTimer' = grpcTimer \ {s}
    /\ grpcAnswer' = [grpcAnswer EXCEPT ![s] =
                         IF grpcClient[s] = "open" /\ @ \notin FinalAnswers THEN "complete" ELSE @]
    /\ Settle(s)
    /\ UNCHANGED <<entry, session, displaced, via, listened, grpcClient>>

\* 'error' of the upstream stream, its own or its session's.
UpstreamStreamFails(s) ==
    /\ upstreamStream[s] \in {"open", "failing"}
    /\ upstreamStream' = [upstreamStream EXCEPT ![s] = "destroyed"]
    /\ grpcTimer' = grpcTimer \ {s}
    /\ SettleRejected(s)
    /\ UNCHANGED <<entry, session, displaced, via, listened>>

\* The request timer.  The promise is left as it is; a stream that was destroyed
\* before is not answered.
RequestTimesOut(s) ==
    /\ s \in grpcTimer
    /\ grpcTimer' = grpcTimer \ {s}
    /\ IF upstreamStream[s] = "open"
       THEN /\ upstreamStream' = [upstreamStream EXCEPT ![s] = "destroyed"]
            /\ SendGrpcError(s)
       ELSE UNCHANGED <<upstreamStream, grpcAnswer, grpcClient>>
    /\ UNCHANGED <<entry, session, displaced, stage, via, listened, activeStreams>>

\* 'close' (after 'error' or not) of the client's stream.
GrpcClientCloses(s) ==
    /\ grpcClient[s] = "open"
    /\ grpcClient' = [grpcClient EXCEPT ![s] = "closed"]
    /\ IF s \in listened
       THEN /\ grpcTimer' = grpcTimer \ {s}
            /\ upstreamStream' = [upstreamStream EXCEPT ![s] = IF @ = "open" THEN "destroyed" ELSE @]
       ELSE UNCHANGED <<grpcTimer, upstreamStream>>
    /\ UNCHANGED <<entry, session, displaced, stage, via, listened, grpcAnswer, activeStreams>>

-----------------------------------------------------------------------------
\* The session is destroyed: its streams at once, its 'close' follows.
SessionFails(n) ==
    /\ session[n] \in {"open", "draining"}
    /\ session' = [session EXCEPT ![n] = "dying"]
    /\ upstreamStream' = [s \in Streams |-> IF s \in StreamsOf(n) THEN "failing" ELSE upstreamStream[s]]
    /\ UNCHANGED <<entry, displaced, stage, via, grpcTimer, listened,
                   grpcClient, grpcAnswer, activeStreams>>

\* setTimeout(connectionTimeout): nothing was transferred for so long, whatever
\* the streams wait for.
SessionIdle(n) ==
    /\ session[n] \in {"open", "draining"}
    /\ session' = [session EXCEPT ![n] = "dying"]
    /\ upstreamStream' = [s \in Streams |-> IF s \in StreamsOf(n) THEN "lost" ELSE upstreamStream[s]]
    /\ UNCHANGED <<entry, displaced, stage, via, grpcTimer, listened,
                   grpcClient, grpcAnswer, activeStreams>>

SessionGoesAway(n) ==
    /\ session[n] = "open"
    /\ session' = [session EXCEPT ![n] = "draining"]
    /\ UNCHANGED <<entry, displaced, streamVars>>

\* 'close': the map's entry is deleted by key, whichever session it names by now.
SessionClosed(n) ==
    /\ session[n] = "dying" \/ (session[n] = "draining" /\ StreamsOf(n) = {})
    /\ session' = [session EXCEPT ![n] = "gone"]
    /\ entry' = 0
    /\ displaced' = IF entry \notin {0, n} THEN displaced \cup {entry} ELSE displaced
    /\ UNCHANGED streamVars

CloseAll ==
    /\ session' = [n \in Made |-> IF n = entry /\ session[n] = "open" THEN "draining"
                                  ELSE session[n]]
    /\ entry' = 0
    /\ UNCHANGED <<displaced, streamVars>>

GrpcNext ==
    \/ \E s \in Streams :
          \/ RejectStream(s) \/ AcceptStream(s) \/ RateLimited(s) \/ ProxyToUpstream(s)
          \/ UpstreamHead(s) \/ UpstreamStreamEnds(s) \/ UpstreamStreamFails(s)
          \/ RequestTimesOut(s) \/ GrpcClientCloses(s)
    \/ \E n \in Made : SessionFails(n) \/ SessionIdle(n) \/ SessionGoesAway(n) \/ SessionClosed(n)
    \/ CloseAll

\* A request timer fires, and a stream destroyed with an error emits it.
GrpcProgress(s) == RequestTimesOut(s) \/ (upstreamStream[s] = "failing" /\ UpstreamStreamFails(s))

GrpcSpec == /\ GrpcInit /\ [][GrpcNext]_grpcVars
            /\ \A s \in Streams : WF_grpcVars(GrpcProgress(s))

-----------------------------------------------------------------------------
\* Types; the count of active streams is the number of calls of handleStream that
\* have not returned.
GrpcTypeOK ==
    /\ Made = 1 .. Cardinality(Made) /\ Cardinality(Made) <= MaxSessions
    /\ \A n \in Made : session[n] \in {"open", "draining", "dying", "gone"}
    /\ entry \in Made \cup {0} /\ displaced \subseteq Made
    /\ stage \in [Streams -> {"new", "limiter", "proxied", "settled"}]
    /\ \A s \in Streams : via[s] \in Made \cup {0}
    /\ upstreamStream \in [Streams -> {"none", "open", "failing", "ended", "destroyed", "lost"}]
    /\ grpcTimer \subseteq Streams /\ listened \subseteq Streams
    /\ grpcClient \in [Streams -> {"open", "closed"}]
    /\ grpcAnswer \in [Streams -> {"none", "head"} \cup FinalAnswers]
    /\ activeStreams = Cardinality(Unsettled)

\* No session is made beside one that takes streams, and closeAll reaches every
\* one that does: an open session is the one in the map - unless the 'close' of an
\* older session of the target, which deletes by name, took it out.  A stream is
\* never opened on a session that does not take it.
SessionsTracked ==
    /\ \A n \in Made : session[n] = "open" => n = entry \/ n \in displaced
    /\ \A s \in Streams : upstreamStream[s] = "open" => session[via[s]] \in {"open", "draining"}

\* No upstream stream stays open for ever, whether or not its client is there; and
\* the client of one, if it stays, is answered - unless the stream was lost with its
\* session, which the connection timeout destroys when nothing is transferred.
GrpcUpstreamEnds ==
    \A s \in Streams :
        /\ (upstreamStream[s] = "open") ~> (upstreamStream[s] # "open")
        /\ (upstreamStream[s] = "open") ~> \/ grpcClient[s] = "closed" \/ upstreamStream[s] = "lost"
                                     \/ grpcAnswer[s] \in FinalAnswers
=============================================================================
