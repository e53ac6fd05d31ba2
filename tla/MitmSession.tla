----------------------------- MODULE MitmSession -----------------------------
(***************************************************************************)
(* One TLS session of MitmInterceptor (proxy/mitm/interceptor.ts) after the *)
(* CONNECT was answered: the request parser, the timers, the request that   *)
(* is served and what the client gets to read.                              *)
(*                                                                          *)
(* The decisions on the request (allowlist, limiter) are RequestGate's; here*)
(* they are any decisions.                                                  *)
(***************************************************************************)
EXTENDS Naturals, Sequences

CONSTANTS MaxSent,   \* bound: requests a client sends in full
          MaxParts,  \* chunks of an unfinished request that fit maxHeaderSize
          Pipelining \* whether clients send before the last request is answered

ASSUME SessionAssumption == MaxSent \in Nat /\ MaxParts \in Nat /\ Pipelining \in BOOLEAN

VARIABLES
    client,      \* the client's side of the connection: "open" or "closed"
    ended,       \* clientSocket.end() was called: what is written now is lost
    parser,      \* "reading", "complete" or "error"
    parts,       \* chunks of an unfinished request the parser holds
    processing,  \* isProcessing
    timers,      \* the timers that run: "request", "connect", "response"
    stage,       \* what the 'complete' handler is at
    replies,     \* what was written to the client
    sent,        \* requests the client has sent in full
    dripping     \* the client keeps sending, and faster than the request timeout, what
                 \* the parser neither completes nor rejects

sessionVars == <<client, ended, parser, parts, processing, timers, stage, replies, sent, dripping>>

SessionInit ==
    /\ client = "open" /\ ended = FALSE
    /\ parser = "reading" /\ parts = 0 /\ processing = FALSE
    /\ timers = {"request"} /\ stage = "none" /\ replies = <<>> /\ sent = 0
    /\ dripping = FALSE

Reply(reply) ==
    replies' = IF client = "open" /\ ~ended THEN Append(replies, reply) ELSE replies

-----------------------------------------------------------------------------
(* The data handler: data is fed to the parser only while nothing is        *)
(* processed, and restarts the request timer.                               *)
Fed == client = "open" /\ ~processing

(* Variant of Fits: no limit at all.                                        *)
FitsAlways == TRUE

Fits == parts < MaxParts

PartArrives ==
    /\ Fed /\ parser = "reading" /\ Fits
    /\ parts' = parts + 1
    /\ timers' = timers \union {"request"}
    /\ UNCHANGED <<client, ended, parser, processing, stage, replies, sent, dripping>>

(* parser 'error', over the limit or malformed: 400, 413 or 431 and the end.*)
ParseError ==
    /\ Fed /\ parser = "reading"
    /\ parser' = "error" /\ timers' = timers \ {"request"}
    /\ Reply("bad_request") /\ ended' = TRUE
    /\ UNCHANGED <<client, parts, processing, stage, sent, dripping>>

(* The parser ignores data after an error, and sets no limit to the length  *)
(* of a chunk-size line or of the trailers of a chunked body; all of it     *)
(* restarts the timer.                                                      *)
Drips ==
    /\ Fed /\ parser \in {"reading", "error"}
    /\ dripping' = ~dripping
    /\ timers' = timers \union {"request"}
    /\ UNCHANGED <<client, ended, parser, parts, processing, stage, replies, sent>>

(* Variant of BeginsProcessing: the request timer is left running.          *)
BeginsProcessingTimed == processing' = TRUE /\ timers' = timers \union {"request"}

BeginsProcessing == processing' = TRUE /\ timers' = timers \ {"request"}

(* parser 'complete': the handler up to its first await, or to its end if   *)
(* the allowlist denies the request.                                        *)
RequestCompletes ==
    /\ Fed /\ parser = "reading" /\ sent < MaxSent
    /\ sent' = sent + 1
    /\ BeginsProcessing
    /\ \/ /\ stage' = "limiter" /\ parser' = "complete"
          /\ UNCHANGED <<replies, parts>>
       \/ /\ stage' = "none" /\ Reply("forbidden")
          /\ parser' = "reading" /\ parts' = 0
    /\ UNCHANGED <<client, ended, dripping>>

(* Data that arrives while isProcessing is set is dropped.                  *)
RequestDropped ==
    /\ client = "open" /\ ~Fed /\ sent < MaxSent
    /\ Pipelining \/ stage = "none"
    /\ sent' = sent + 1
    /\ UNCHANGED <<client, ended, parser, parts, processing, timers, stage, replies, dripping>>

-----------------------------------------------------------------------------
(* prepareForNextRequest: parser.reset, and nothing else. The promise of    *)
(* forwardRequest has settled, and its cleanup stopped the upstream timers. *)
PrepareForNextRequest ==
    /\ stage' = "none"
    /\ parser' = "reading" /\ parts' = 0
    /\ timers' = timers \ {"connect", "response"}
    /\ UNCHANGED <<processing, client, ended, sent, dripping>>

LimiterDecides ==
    /\ stage = "limiter"
    /\ \/ Reply("limited") /\ PrepareForNextRequest
       \/ /\ stage' = "connecting" /\ timers' = timers \union {"connect"}
          /\ UNCHANGED <<client, ended, parser, parts, processing, replies, sent, dripping>>

(* No timer of the handler runs until the response begins: only the         *)
(* socket's own inactivity timeout bounds the wait.                         *)
UpstreamConnects ==
    /\ stage = "connecting"
    /\ stage' = "waiting" /\ timers' = timers \ {"connect"}
    /\ UNCHANGED <<client, ended, parser, parts, processing, replies, sent, dripping>>

UpstreamResponds ==
    /\ stage = "waiting"
    /\ stage' = "body" /\ timers' = timers \union {"response"}
    /\ Reply("response")
    /\ UNCHANGED <<client, ended, parser, parts, processing, sent, dripping>>

BodyEnds ==
    /\ stage = "body"
    /\ PrepareForNextRequest
    /\ UNCHANGED replies

(* Variant of UpstreamFails: the error is logged and nothing written.       *)
UpstreamFailsSilently ==
    /\ stage \in {"connecting", "waiting", "body"}
    /\ PrepareForNextRequest
    /\ UNCHANGED replies

(* A timer, the inactivity timeout, an error of the upstream or a response  *)
(* over the limit: 502 or 504, after the headers of a response too.         *)
UpstreamFails ==
    /\ stage \in {"connecting", "waiting", "body"}
    /\ Reply("gateway_error")
    /\ PrepareForNextRequest

(* The request timer does not look at the connection's state.               *)
RequestTimeout ==
    /\ "request" \in timers /\ ~(dripping /\ Fed)
    /\ timers' = timers \ {"request"}
    /\ Reply("timeout") /\ ended' = TRUE
    /\ UNCHANGED <<client, parser, parts, processing, stage, sent, dripping>>

(* 'close' stops the request timer. What is served is not given up.         *)
ClientLeaves ==
    /\ client = "open"
    /\ client' = "closed" /\ timers' = timers \ {"request"}
    /\ UNCHANGED <<ended, parser, parts, processing, stage, replies, sent, dripping>>

Upstream == UpstreamConnects \/ UpstreamResponds \/ BodyEnds \/ UpstreamFails

SessionNext == \/ PartArrives \/ ParseError \/ Drips
               \/ RequestCompletes \/ RequestDropped
               \/ LimiterDecides \/ Upstream
               \/ RequestTimeout \/ ClientLeaves

SessionSpec == SessionInit /\ [][SessionNext]_sessionVars

(* Timers expire, the limiter's promise settles, and an upstream answers,   *)
(* fails or is timed out. Nothing is assumed of the client.                 *)
SessionFairSpec == /\ SessionSpec
                   /\ WF_sessionVars(RequestTimeout)
                   /\ WF_sessionVars(LimiterDecides)
                   /\ WF_sessionVars(Upstream)

-----------------------------------------------------------------------------
(* Types: what the parser holds of an unfinished head or a body of a known  *)
(* length is bounded, and so is what the client of a session gets to read.  *)
(* The request timer never answers a request that is being served: a timeout*)
(* is the only thing the client of a timed-out session reads.               *)
SessionTypeOK ==
    /\ client \in {"open", "closed"} /\ ended \in BOOLEAN
    /\ parser \in {"reading", "complete", "error"} /\ parts \in 0..MaxParts
    /\ processing \in BOOLEAN /\ timers \subseteq {"request", "connect", "response"}
    /\ stage \in {"none", "limiter", "connecting", "waiting", "body"}
    /\ Len(replies) <= 2
    /\ sent \in 0..MaxSent /\ dripping \in BOOLEAN
    /\ processing => "request" \notin timers
    /\ \A i \in DOMAIN replies : replies[i] = "timeout" => Len(replies) = 1

(* A request that is served gets an answer, unless its client is gone or was*)
(* told before that it had timed out; and no upstream timer survives it.    *)
ServedRequestAnswered ==
    (stage # "none") ~> /\ replies # <<>> \/ client = "closed"
                        /\ stage = "none" /\ timers \subseteq {"request"}

(* "Prepare for the next request on a keep-alive connection": every request *)
(* a client sends on a session that is not ended gets an answer.            *)
KeepAlive ==
    \A n \in 1..MaxSent :
        (sent >= n) ~> (Len(replies) >= n \/ ended \/ client = "closed")
=============================================================================
