------------------------------ MODULE GrpcWeb ------------------------------
(***************************************************************************)
(* GrpcWebHandler (proxy/grpc-web-handler.ts): a gRPC-Web request is read  *)
(* to its end before it is sent upstream, on a session chosen before.  The *)
(* sessions are kept as in GrpcHandler; here a request has one, which may  *)
(* die.                                                                    *)
(*                                                                         *)
(* What a listener throws nobody catches: index.ts exits on it.            *)
(***************************************************************************)
EXTENDS Naturals, FiniteSets

CONSTANT WebRequests

ASSUME WebAssumption == IsFiniteSet(WebRequests)

VARIABLES
    webStage,   \* handleRequest: "new", "limiter", "upload", "upstream", "settled"
    webSession, \* the session it has: "none", "live", "dead"
    webStream,  \* its upstream stream: "none", "open", "failing", "destroyed", "lost"
    webTimer,   \* requests with a timer
    webClient,  \* "open" or "gone"
    webAnswer,  \* what was written to the client: "none", "error", "complete"
    webActive,  \* stats.activeRequests
    down        \* an uncaught exception ended the process

webVars == <<webStage, webSession, webStream, webTimer, webClient, webAnswer, webActive, down>>

WebUnsettled == {r \in WebRequests : webStage[r] \notin {"new", "settled"}}

WebInit == /\ webStage = [r \in WebRequests |-> "new"]
           /\ webSession = [r \in WebRequests |-> "none"]
           /\ webStream = [r \in WebRequests |-> "none"]
           /\ webTimer = {}
           /\ webClient = [r \in WebRequests |-> "open"]
           /\ webAnswer = [r \in WebRequests |-> "none"]
           /\ webActive = 0
           /\ down = FALSE

-----------------------------------------------------------------------------
WebSettle(r) == /\ webStage' = [webStage EXCEPT ![r] = "settled"]
                /\ webActive' = IF r \in WebUnsettled THEN webActive - 1 ELSE webActive

Respond(r, what) == webAnswer' = [webAnswer EXCEPT ![r] = what]

\* The catch of handleRequest: an error, if nothing was written before.
WebSettleRejected(r) == /\ WebSettle(r)
                        /\ IF webAnswer[r] = "none" THEN Respond(r, "error")
                                                    ELSE UNCHANGED webAnswer

\* An invalid path, the allowlist, or the rule's gRPC conditions.
WebRejected(r) ==
    /\ webStage[r] = "new"
    /\ webStage' = [webStage EXCEPT ![r] = "settled"]
    /\ Respond(r, "error")
    /\ UNCHANGED <<webSession, webStream, webTimer, webClient, webActive, down>>

WebAccepted(r) ==
    /\ webStage[r] = "new"
    /\ webStage' = [webStage EXCEPT ![r] = "limiter"]
    /\ webActive' = webActive + 1
    /\ UNCHANGED <<webSession, webStream, webTimer, webClient, webAnswer, down>>

WebRateLimited(r) ==
    /\ webStage[r] = "limiter"
    /\ WebSettleRejected(r)
    /\ UNCHANGED <<webSession, webStream, webTimer, webClient, down>>

\* proxyToUpstream: the session is chosen, the body is collected.
CollectBody(r) ==
    /\ webStage[r] = "limiter"
    /\ webStage' = [webStage EXCEPT ![r] = "upload"]
    /\ webSession' = [webSession EXCEPT ![r] = "live"]
    /\ UNCHANGED <<webStream, webTimer, webClient, webAnswer, webActive, down>>

\* 'end' of the request: session.request throws if the session has died meanwhile.
SendUpstream(r) ==
    /\ webStage[r] = "upload" /\ webClient[r] = "open"
    /\ IF webSession[r] = "dead"
       THEN /\ down' = TRUE
            /\ UNCHANGED <<webStage, webStream, webTimer>>
       ELSE /\ webStage' = [webStage EXCEPT ![r] = "upstream"]
            /\ webStream' = [webStream EXCEPT ![r] = "open"]
            /\ webTimer' = webTimer \cup {r}
            /\ UNCHANGED down
    /\ UNCHANGED <<webSession, webClient, webAnswer, webActive>>

\* 'end' of the upstream stream, which a destroyed one may emit as well.  The
\* answer is written now, with status 0 whatever the trailers said; if it was
\* ended before, setHeader throws.
WebStreamEnds(r) ==
    /\ webStream[r] \in {"open", "destroyed", "lost"} /\ webStage[r] = "upstream"
    /\ IF webAnswer[r] = "none"
       THEN /\ Respond(r, "complete") /\ WebSettle(r)
            /\ UNCHANGED down
       ELSE /\ down' = TRUE
            /\ UNCHANGED <<webAnswer, webStage, webActive>>
    /\ webStream' = [webStream EXCEPT ![r] = "destroyed"]
    /\ webTimer' = webTimer \ {r}
    /\ UNCHANGED <<webSession, webClient>>

WebStreamFails(r) ==
    /\ webStream[r] \in {"open", "failing"}
    /\ WebSettleRejected(r)
    /\ webStream' = [webStream EXCEPT ![r] = "destroyed"]
    /\ webTimer' = webTimer \ {r}
    /\ UNCHANGED <<webSession, webClient, down>>

WebTimesOut(r) ==
    /\ r \in webTimer
    /\ webTimer' = webTimer \ {r}
    /\ IF webStream[r] = "open"
       THEN /\ webStream' = [webStream EXCEPT ![r] = "destroyed"]
            /\ Respond(r, "error")
       ELSE UNCHANGED <<webStream, webAnswer>>
    /\ UNCHANGED <<webStage, webSession, webClient, webActive, down>>

\* The session of these requests dies: with an error, which their streams emit
\* too, or because its socket was closed, when they may end without a word.
WebSessionDies(rs, how) ==
    /\ rs # {} /\ \A r \in rs : webSession[r] = "live"
    /\ webSession' = [r \in WebRequests |-> IF r \in rs THEN "dead" ELSE webSession[r]]
    /\ webStream' = [r \in WebRequests |-> IF r \in rs /\ webStream[r] = "open" THEN how
                                           ELSE webStream[r]]
    /\ UNCHANGED <<webStage, webTimer, webClient, webAnswer, webActive, down>>

\* A client that aborts its upload is an 'error' of the request; afterwards nobody
\* listens.
WebClientLeaves(r) ==
    /\ webClient[r] = "open"
    /\ webClient' = [webClient EXCEPT ![r] = "gone"]
    /\ IF webStage[r] = "upload" THEN WebSettleRejected(r)
                                 ELSE UNCHANGED <<webStage, webActive, webAnswer>>
    /\ UNCHANGED <<webSession, webStream, webTimer, down>>

WebNext == /\ ~down
           /\ \/ \E r \in WebRequests :
                    \/ WebRejected(r) \/ WebAccepted(r) \/ WebRateLimited(r) \/ CollectBody(r)
                    \/ SendUpstream(r) \/ WebStreamEnds(r) \/ WebStreamFails(r)
                    \/ WebTimesOut(r) \/ WebClientLeaves(r)
              \/ \E rs \in SUBSET WebRequests, how \in {"failing", "lost"} : WebSessionDies(rs, how)

\* A timer fires, and a stream destroyed with an error emits it.
WebProgress(r) == ~down /\ (WebTimesOut(r) \/ (webStream[r] = "failing" /\ WebStreamFails(r)))

WebSpec == /\ WebInit /\ [][WebNext]_webVars
           /\ \A r \in WebRequests : WF_webVars(WebProgress(r))

-----------------------------------------------------------------------------
\* Types; the count of active requests is the number of calls of handleRequest
\* that have not returned.
WebTypeOK ==
    /\ webStage \in [WebRequests -> {"new", "limiter", "upload", "upstream", "settled"}]
    /\ webSession \in [WebRequests -> {"none", "live", "dead"}]
    /\ webStream \in [WebRequests -> {"none", "open", "failing", "destroyed", "lost"}]
    /\ webTimer \subseteq WebRequests
    /\ webClient \in [WebRequests -> {"open", "gone"}]
    /\ webAnswer \in [WebRequests -> {"none", "error", "complete"}]
    /\ webActive = Cardinality(WebUnsettled)
    /\ down \in BOOLEAN

\* A request that was sent upstream is answered, and its upstream stream ends,
\* while the process lives; only one whose session's socket was closed under it
\* may stay without an answer.
WebRequestsEnd ==
    \A r \in WebRequests :
        (webStage[r] = "upstream") ~>
            \/ webAnswer[r] # "none" /\ webStream[r] # "open"
            \/ webStream[r] = "lost" \/ down
=============================================================================
