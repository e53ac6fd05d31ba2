--------------------------- MODULE ForwardRequest ---------------------------
(***************************************************************************)
(* ForwardProxy.forwardRequest (proxy/forward-proxy.ts) after the decision: *)
(* the upstream request and its place in the connection pool, its timers,   *)
(* what the client reads and what the audit log says. All requests go to    *)
(* one origin, so they share maxSocketsPerHost.                             *)
(*                                                                          *)
(* Which request gets which socket is up to Node's http.Agent, modelled from*)
(* the options ConnectionPool gives it. A destroyed request leaves the      *)
(* agent's queue at once here.                                              *)
(***************************************************************************)
EXTENDS Integers, Sequences, SequencesExt, FiniteSets

CONSTANTS Requests,
          MaxSockets,     \* maxSocketsPerHost
          MaxFreeSockets  \* maxFreeSocketsPerHost

ASSUME ForwardAssumption ==
    IsFiniteSet(Requests) /\ MaxSockets \in Nat \ {0} /\ MaxFreeSockets \in Nat

VARIABLES
    state,     \* of the upstream request: see ForwardTypeOK
    queue,     \* the agent's requests without a socket
    free,      \* the agent's free sockets
    kept,      \* requests that were given a kept-alive socket
    timers,    \* connectTimeoutId and responseTimeoutId, where they run
    resolved,  \* requests whose promise is settled
    uploading, \* requests whose body has not been piped to its end
    idle,      \* requests whose upstream socket is idle at present
    requester, \* the client: "open" or "gone"
    answer,    \* what the client reads
    records    \* the records of the request in the audit log

forwardVars == <<state, queue, free, kept, timers, resolved, uploading, idle, requester,
                 answer, records>>

Holding == {"connecting", "waiting", "body", "uploading"}
InUse == {r \in Requests : state[r] \in Holding}
Pending(r) == state[r] \in Holding \union {"queued"}

ForwardInit ==
    /\ state = [r \in Requests |-> "none"]
    /\ queue = <<>> /\ free = 0
    /\ kept = {} /\ resolved = {} /\ uploading = {} /\ idle = Requests
    /\ timers = [r \in Requests |-> {}]
    /\ requester = [r \in Requests |-> "open"]
    /\ answer = [r \in Requests |-> "none"]
    /\ records = [r \in Requests |-> <<>>]

-----------------------------------------------------------------------------
(* The sockets of the requests in S are gone: as many queued ones get new   *)
(* sockets.  If S is a request that is queued itself, it leaves the queue.  *)
Drop(S) ==
    LET places == {i \in DOMAIN queue : queue[i] \in S}
        waiting == IF places = {} THEN queue ELSE RemoveAt(queue, CHOOSE i \in places : TRUE)
        n == Cardinality(S \intersect InUse)
        served == {waiting[i] : i \in {i \in DOMAIN waiting : i <= n}}
    IN  /\ state' = [r \in Requests |-> IF r \in S THEN "done"
                                        ELSE IF r \in served THEN "connecting" ELSE state[r]]
        /\ queue' = SubSeq(waiting, n + 1, Len(waiting))
        /\ UNCHANGED kept

(* The socket of r survives its request: the next in the queue gets it, or  *)
(* it is free.                                                              *)
HandOn(r) ==
    IF queue = <<>>
    THEN /\ state' = [state EXCEPT ![r] = "done"]
         /\ free' = IF free < MaxFreeSockets THEN free + 1 ELSE free
         /\ UNCHANGED <<queue, kept>>
    ELSE /\ state' = [state EXCEPT ![r] = "done", ![Head(queue)] = "waiting"]
         /\ queue' = Tail(queue) /\ kept' = kept \union {Head(queue)}
         /\ UNCHANGED free

Release(r) == HandOn(r) \/ (Drop({r}) /\ UNCHANGED free)

Cleanup(S) == timers' = [r \in Requests |-> IF r \in S THEN {} ELSE timers[r]]

(* Variant of Fail: an error after the head is not recorded.                *)
FailUnrecorded(S) ==
    LET rejected == S \ resolved IN
    /\ Drop(S) /\ Cleanup(S)
    /\ resolved' = resolved \union S
    /\ uploading' = uploading \ S
    /\ answer' = [r \in Requests |->
                     IF r \notin rejected \/ requester[r] = "gone" THEN answer[r]
                     ELSE IF answer[r] = "none" THEN "error" ELSE "spoiled"]
    /\ records' = [r \in Requests |-> IF r \in rejected /\ records[r] = <<>>
                                    THEN <<"error">> ELSE records[r]]

(* Variant of Fail: an answer whose head was sent is not ended.             *)
FailUnended(S) ==
    LET rejected == S \ resolved IN
    /\ Drop(S) /\ Cleanup(S)
    /\ resolved' = resolved \union S
    /\ uploading' = uploading \ S
    /\ answer' = [r \in Requests |->
                     IF r \in rejected /\ requester[r] = "open" /\ answer[r] = "none"
                     THEN "error" ELSE answer[r]]
    /\ records' = [r \in Requests |-> IF r \in rejected THEN Append(records[r], "error")
                                    ELSE records[r]]

(* safeReject and proxyReq.destroy, with the catch of handleRequest, which  *)
(* records the error and writes it: as an answer of its own, or, if the head*)
(* of the response was sent, behind what was sent of its body.              *)
Fail(S) ==
    LET rejected == S \ resolved IN
    /\ Drop(S) /\ Cleanup(S)
    /\ resolved' = resolved \union S
    /\ uploading' = uploading \ S
    /\ answer' = [r \in Requests |->
                     IF r \notin rejected \/ requester[r] = "gone" THEN answer[r]
                     ELSE IF answer[r] = "none" THEN "error" ELSE "spoiled"]
    /\ records' = [r \in Requests |-> IF r \in rejected THEN Append(records[r], "error")
                                    ELSE records[r]]

-----------------------------------------------------------------------------
StartTimer(r) == timers' = [timers EXCEPT ![r] = {"connect"}]

(* transport.request: a free socket, a new one, or the queue. The body of a *)
(* client that left before is never piped to its end.                       *)
Forward(r, hasBody) ==
    /\ state[r] = "none"
    /\ requester[r] = "gone" => hasBody
    /\ IF free > 0
       THEN /\ state' = [state EXCEPT ![r] = "waiting"]
            /\ free' = free - 1 /\ kept' = kept \union {r}
            /\ UNCHANGED queue
       ELSE IF Cardinality(InUse) < MaxSockets
       THEN /\ state' = [state EXCEPT ![r] = "connecting"]
            /\ UNCHANGED <<free, kept, queue>>
       ELSE /\ state' = [state EXCEPT ![r] = "queued"]
            /\ queue' = Append(queue, r)
            /\ UNCHANGED <<free, kept>>
    /\ StartTimer(r)
    /\ uploading' = IF hasBody THEN uploading \union {r} ELSE uploading
    /\ UNCHANGED <<resolved, idle, requester, answer, records>>

(* The socket's 'connect', which a kept-alive socket does not emit again.   *)
Connects(r) ==
    /\ state[r] = "connecting"
    /\ state' = [state EXCEPT ![r] = "waiting"]
    /\ timers' = [timers EXCEPT ![r] = @ \ {"connect"}]
    /\ UNCHANGED <<queue, free, kept, resolved, uploading, idle, requester, answer, records>>

(* Variant of Responds: no response timer.                                  *)
RespondsUntimed(r) ==
    /\ state[r] = "waiting"
    /\ state' = [state EXCEPT ![r] = "body"]
    /\ timers' = [timers EXCEPT ![r] = {}]
    /\ records' = [records EXCEPT ![r] = Append(@, "allowed")]
    /\ answer' = IF requester[r] = "open" THEN [answer EXCEPT ![r] = "partial"] ELSE answer
    /\ UNCHANGED <<queue, free, kept, resolved, uploading, idle, requester>>

(* The response's head, with a length within the limit or none.             *)
Responds(r) ==
    /\ state[r] = "waiting"
    /\ state' = [state EXCEPT ![r] = "body"]
    /\ timers' = [timers EXCEPT ![r] = {"response"}]
    /\ records' = [records EXCEPT ![r] = Append(@, "allowed")]
    /\ answer' = IF requester[r] = "open" THEN [answer EXCEPT ![r] = "partial"] ELSE answer
    /\ UNCHANGED <<queue, free, kept, resolved, uploading, idle, requester>>

(* 'end' of the response: all of it is in the limiting stream, but what the *)
(* client was too slow to read has not been counted yet. The socket is given*)
(* back when the request's body was sent too.                               *)
BodyEnds(r) ==
    /\ state[r] = "body"
    /\ IF r \in uploading
       THEN /\ state' = [state EXCEPT ![r] = "uploading"]
            /\ UNCHANGED <<queue, free, kept>>
       ELSE Release(r)
    /\ Cleanup({r})
    /\ resolved' = resolved \union {r}
    /\ answer' = IF requester[r] = "open" THEN [answer EXCEPT ![r] = "ending"] ELSE answer
    /\ UNCHANGED <<uploading, idle, requester, records>>

(* The rest goes through the limiting stream, and ends the answer.          *)
Drains(r) ==
    /\ answer[r] = "ending" /\ requester[r] = "open"
    /\ answer' = [answer EXCEPT ![r] = "complete"]
    /\ UNCHANGED <<state, queue, free, kept, timers, resolved, uploading, idle, requester, records>>

(* The rest exceeds the limit: safeReject has no effect any more, and nobody*)
(* ends the answer.                                                         *)
Overruns(r) ==
    /\ answer[r] = "ending" /\ requester[r] = "open"
    /\ answer' = [answer EXCEPT ![r] = "cut"]
    /\ IF state[r] = "uploading" THEN Drop({r}) ELSE UNCHANGED <<state, queue, kept>>
    /\ uploading' = uploading \ {r}
    /\ UNCHANGED <<free, timers, resolved, idle, requester, records>>

UploadEnds(r) ==
    /\ r \in uploading /\ Pending(r) /\ requester[r] = "open"
    /\ uploading' = uploading \ {r}
    /\ IF state[r] = "uploading" THEN Release(r) ELSE UNCHANGED <<state, queue, free, kept>>
    /\ UNCHANGED <<timers, resolved, idle, requester, answer, records>>

(* The request's limiting stream, before and after the promise is settled.  *)
RequestTooLarge(r) ==
    /\ r \in uploading /\ Pending(r) /\ requester[r] = "open"
    /\ Fail({r})
    /\ UNCHANGED <<free, idle, requester>>

(* An error of the request or of the response, a length over the limit, or a*)
(* body that exceeds it.                                                    *)
RequestFails(r) ==
    /\ state[r] \in Holding
    /\ Fail({r})
    /\ UNCHANGED <<free, idle, requester>>

ConnectTimeout(r) ==
    /\ "connect" \in timers[r]
    /\ Fail({r})
    /\ UNCHANGED <<free, idle, requester>>

ResponseTimeout(r) ==
    /\ "response" \in timers[r]
    /\ Fail({r})
    /\ UNCHANGED <<free, idle, requester>>

(* 'timeout' of the request: its socket was idle for connectTimeout.        *)
SocketTimeout(r) ==
    /\ state[r] \in Holding /\ r \in idle
    /\ Fail({r})
    /\ UNCHANGED <<free, idle, requester>>

-----------------------------------------------------------------------------
(* ConnectionPool.destroy ends all sockets; queued requests get new ones.   *)
Destroy ==
    /\ free' = 0
    /\ Fail(InUse)
    /\ UNCHANGED <<idle, requester>>

FreeSocketCloses ==
    /\ free > 0 /\ free' = free - 1
    /\ UNCHANGED <<state, queue, kept, timers, resolved, uploading, idle, requester, answer,
                   records>>

(* Nobody listens: the upstream request goes on.                            *)
ClientLeaves(r) ==
    /\ requester[r] = "open"
    /\ requester' = [requester EXCEPT ![r] = "gone"]
    /\ UNCHANGED <<state, queue, free, kept, timers, resolved, uploading, idle, answer, records>>

RequestTransfers(r) ==
    /\ Pending(r)
    /\ idle' = IF r \in idle THEN idle \ {r} ELSE idle \union {r}
    /\ UNCHANGED <<state, queue, free, kept, timers, resolved, uploading, requester, answer,
                   records>>

RequestTimers(r) == ConnectTimeout(r) \/ ResponseTimeout(r) \/ SocketTimeout(r)

ForwardNext == \/ \E r \in Requests : \/ \E hasBody \in BOOLEAN : Forward(r, hasBody)
                                      \/ Connects(r) \/ Responds(r) \/ BodyEnds(r)
                                      \/ Drains(r) \/ Overruns(r)
                                      \/ UploadEnds(r) \/ RequestTooLarge(r)
                                      \/ RequestFails(r) \/ RequestTimers(r)
                                      \/ ClientLeaves(r) \/ RequestTransfers(r)
               \/ Destroy \/ FreeSocketCloses

ForwardSpec == ForwardInit /\ [][ForwardNext]_forwardVars

(* Timers expire, and a client that stays reads on. Nothing is assumed of   *)
(* upstreams and uploads.                                                   *)
ForwardFairSpec ==
    ForwardSpec /\ \A r \in Requests : /\ WF_forwardVars(ConnectTimeout(r))
                                      /\ WF_forwardVars(ResponseTimeout(r))
                                      /\ WF_forwardVars(SocketTimeout(r))
                                      /\ WF_forwardVars(Drains(r) \/ Overruns(r))

-----------------------------------------------------------------------------
(* Types, with the pool's bounds: a request waits for a socket only while   *)
(* all are in use. A pending request has a timer, except while it waits for *)
(* the head on a connection that was made for it.                           *)
ForwardTypeOK ==
    /\ state \in [Requests -> {"none", "queued", "done"} \union Holding]
    /\ \A i, j \in DOMAIN queue : i # j => queue[i] # queue[j]
    /\ {queue[i] : i \in DOMAIN queue} = {r \in Requests : state[r] = "queued"}
    /\ queue # <<>> => Cardinality(InUse) = MaxSockets /\ free = 0
    /\ Cardinality(InUse) <= MaxSockets /\ free \in 0..MaxFreeSockets
    /\ kept \subseteq Requests /\ uploading \subseteq Requests /\ idle \subseteq Requests
    /\ requester \in [Requests -> {"open", "gone"}]
    /\ answer \in [Requests -> {"none", "error", "partial", "ending", "complete",
                                "spoiled", "cut"}]
    /\ resolved = {r \in Requests : state[r] \in {"uploading", "done"}}
    /\ \A r \in Requests :
           timers[r] = CASE state[r] \in {"queued", "connecting"} -> {"connect"}
                         [] state[r] = "waiting" /\ r \in kept -> {"connect"}
                         [] state[r] = "body" -> {"response"}
                         [] OTHER -> {}

(* The audit log and the client agree: "allowed" is recorded when the       *)
(* upstream answered, "error" when the client is told of an error - in place*)
(* of the response or in the middle of it - and neither twice.              *)
AuditTells ==
    \A r \in Requests :
        /\ records[r] \in {<<>>, <<"error">>, <<"allowed">>, <<"allowed", "error">>}
        /\ r \in resolved <=> records[r] # <<>> /\ state[r] # "body"
        /\ requester[r] = "open" =>
               records[r] = CASE answer[r] = "none" -> <<>>
                            [] answer[r] = "error" -> <<"error">>
                            [] answer[r] = "spoiled" -> <<"allowed", "error">>
                            [] OTHER -> <<"allowed">>

(* A request does not hold or wait for a socket for ever: not when data     *)
(* ceases to come, whether or not its client left, and neither in the queue *)
(* nor from the response's head on, however much data comes.                *)
SocketsComeBack ==
    \A r \in Requests :
        /\ <>[](r \in idle) => Pending(r) ~> ~Pending(r)
        /\ (state[r] = "queued") ~> (state[r] # "queued")
        /\ (state[r] = "body") ~> (state[r] # "body")

(* A client that stays gets its answer to the end, if data ceases to come,  *)
(* and unless the response was found too long after its end had been seen.  *)
ClientAnswered ==
    \A r \in Requests :
        <>[](r \in idle)
        => Pending(r) ~> requester[r] = "gone"
                      \/ answer[r] \in {"error", "spoiled", "complete", "cut"}
=============================================================================
