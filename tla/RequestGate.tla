----------------------------- MODULE RequestGate -----------------------------
(***************************************************************************)
(* The way of a request through the proxy up to the upstream connection:    *)
(* allowlist, DNS check and pinning, rate limit, dial. Four handlers walk   *)
(* it, each in its own manner:                                              *)
(*   connect    ConnectHandler.handleConnect     (proxy/connect-handler.ts) *)
(*   http       ForwardProxy.handleRequest       (proxy/forward-proxy.ts)   *)
(*   websocket  WebSocketHandler.handleUpgrade   (proxy/websocket-handler.ts)*)
(*   mitm       MitmInterceptor.handleConnect, then the request inside the  *)
(*              TLS session                      (proxy/mitm/interceptor.ts)*)
(*                                                                          *)
(* They share the allowlist, the DNS cache and the rate limiters, which     *)
(* ProxyServer.reloadAllowlist replaces at any await of any handler: every  *)
(* action below runs from one await to the next.                            *)
(***************************************************************************)
EXTENDS Allowlist, FiniteSets

CONSTANTS
    Requests,
    Asks,          \* what may be asked for: records [kind, host, port, client, op]
    Configs,       \* names of the allowlist configurations in use
    Content,       \* Content[c]: the configuration, as described in Allowlist
    Answers,       \* what dns.lookup may answer: sequences of addresses
    NoLimit,       \* a rule without a rateLimit
    DefaultLimit,  \* points of the default limiter
    CacheCap       \* entries at which the DNS cache is emptied (10000)

Kinds == {"connect", "http", "websocket", "mitm"}
Hosts == {a.host : a \in Asks}

ASSUME GateAssumption ==
    /\ \A a \in Asks : a.kind \in Kinds /\ IsHost(a.host)
    /\ \A c \in Configs :
           /\ IsConfig(Content[c])
           /\ \A x \in ToSet(Content[c].rules) : x.limit = NoLimit \/ x.limit \in Nat
    /\ \A ips \in Answers : ips \in Seq(Addresses) /\ ips # <<>>
    /\ DefaultLimit \in Nat /\ CacheCap \in Nat

VARIABLES
    ask,       \* the request each handler serves, None before it arrives
    config,    \* the AllowlistMatcher's configuration
    dnsCache,  \* host -> [ips, fresh], for the hosts it has entries of
    used,      \* points consumed in the current windows: <<limiter, key, request>>
    pc,        \* where the request's handler is
    rule,      \* the matched rule the handler holds across its awaits
    address,   \* what it will dial, once decided: a literal address or the host itself
    seen,      \* history: configurations in force since the request came in
    failed     \* history: requests whose lookup failed

vars == <<ask, config, dnsCache, used, pc, rule, address, seen, failed>>

InFlight == {"resolve", "lookup", "session", "limit"}
Settled == {"dialled", "forbidden", "limited", "closed"}

-----------------------------------------------------------------------------
(* What a handler tells match() of a request.                               *)

(* isDomainAllowed(host): no client, no path, and always port 443.          *)
DomainQuery(a) ==
    [host |-> a.host, scheme |-> None, port |-> 443, client |-> None, op |-> None]

Scheme(a) == CASE a.kind = "http" -> "http"
               [] a.kind = "mitm" -> "https"
               [] OTHER -> None

FullQuery(a) ==
    [host |-> a.host, scheme |-> Scheme(a), port |-> a.port,
     client |-> a.client, op |-> a.op]

ArrivalQuery(a) ==
    IF a.kind \in {"connect", "mitm"} THEN DomainQuery(a) ELSE FullQuery(a)

(* The last question asked before the dial.                                 *)
DialQuery(a) == IF a.kind = "connect" THEN DomainQuery(a) ELSE FullQuery(a)

-----------------------------------------------------------------------------
(* Rate limiting: registerRules gives every rule with a rateLimit, enabled  *)
(* or not, a limiter of its own; consume falls back to the default limiter. *)
Limited(c) == {x \in ToSet(Content[c].rules) : x.limit # NoLimit}
Limiter(c, id) == IF \E x \in Limited(c) : x.id = id THEN id ELSE NoRule

Points(c, limiter) ==
    IF \E x \in Limited(c) : x.id = limiter
    THEN (CHOOSE x \in Limited(c) : x.id = limiter).limit
    ELSE DefaultLimit

(* Variant of Key: every handler counts for itself.                         *)
KeyPerHandler(a, id) == <<a.kind, id, a.client>>

(* Upgrades are counted per client, everything else per rule and client.    *)
Key(a, id) == IF a.kind = "websocket" THEN <<a.client>> ELSE <<id, a.client>>

Consumed(limiter, key) == {u \in used : u[1] = limiter /\ u[2] = key}

-----------------------------------------------------------------------------
Init ==
    /\ ask = [r \in Requests |-> None]
    /\ config \in Configs
    /\ dnsCache = <<>>
    /\ used = {}
    /\ pc = [r \in Requests |-> "idle"]
    /\ rule = [r \in Requests |-> NoRule]
    /\ address = [r \in Requests |-> None]
    /\ seen = [r \in Requests |-> {}]
    /\ failed = {}

(* ProxyServer.reloadAllowlist: matcher.reload empties the DNS cache, and   *)
(* the rule limiters are made anew; the default limiter is kept.            *)
Reload(c) ==
    /\ config' = c
    /\ dnsCache' = <<>>
    /\ used' = {u \in used : u[1] = NoRule}
    /\ seen' = [r \in Requests |-> IF pc[r] \in InFlight THEN seen[r] \union {c}
                                                         ELSE seen[r]]
    /\ UNCHANGED <<ask, pc, rule, address, failed>>

(* The handler of r goes on to, and the history of a settled request ends.  *)
Goto(r, to) ==
    /\ pc' = [pc EXCEPT ![r] = to]
    /\ seen' = [seen EXCEPT ![r] = IF to \in Settled THEN {}
                                   ELSE IF pc[r] = "idle" THEN {config} ELSE @]

(* The handler is entered: the synchronous allowlist check. An upgrade is   *)
(* not resolved and checked: net.connect is given the host.                 *)
Receive(r, a) ==
    LET result == Match(Content[config], ArrivalQuery(a))
    IN  /\ pc[r] = "idle"
        /\ ask' = [ask EXCEPT ![r] = a]
        /\ rule' = [rule EXCEPT ![r] = result.rule]
        /\ \/ /\ ~result.allowed
              /\ Goto(r, "forbidden")
              /\ UNCHANGED address
           \/ /\ result.allowed /\ a.kind = "websocket"
              /\ Goto(r, "limit")
              /\ address' = [address EXCEPT ![r] = a.host]
           \/ /\ result.allowed /\ a.kind # "websocket"
              /\ Goto(r, "resolve")
              /\ UNCHANGED address
        /\ UNCHANGED <<config, dnsCache, used, failed>>

(* What follows resolveAndCheckHost: a MITM handler answers 200 and waits   *)
(* for the request inside the TLS session, the others go to the limiter.    *)
Resolved(r, target) ==
    /\ Goto(r, IF ask[r].kind = "mitm" THEN "session" ELSE "limit")
    /\ address' = [address EXCEPT ![r] = target]

(* Variant of CheckAnswer: all addresses are pinned.                        *)
CheckAnswerPinsAll(r, ips) ==
    IF AnswerBlocked(Content[config], ips)
    THEN Goto(r, "forbidden") /\ UNCHANGED address
    ELSE Resolved(r, ips)

(* Variant of CheckAnswer: the answer is checked, and the host dialled.     *)
CheckAnswerDialsHost(r, ips) ==
    IF AnswerBlocked(Content[config], ips)
    THEN Goto(r, "forbidden") /\ UNCHANGED address
    ELSE Resolved(r, ask[r].host)

(* The check of the answer reads the configuration in force now, after the  *)
(* await, and pins the first address.                                       *)
CheckAnswer(r, ips) ==
    IF AnswerBlocked(Content[config], ips)
    THEN Goto(r, "forbidden") /\ UNCHANGED address
    ELSE Resolved(r, <<Head(ips)>>)

Cached(host) == host \in DOMAIN dnsCache /\ dnsCache[host].fresh

SkipLiteral(r) ==
    /\ pc[r] = "resolve"
    /\ IsLiteral(ask[r].host)
    /\ Resolved(r, ask[r].host)
    /\ UNCHANGED <<ask, config, dnsCache, used, rule, failed>>

(* Variant of UseCache: what is cached is taken to have been checked.       *)
UseCacheUnchecked(r) ==
    /\ pc[r] = "resolve"
    /\ ~IsLiteral(ask[r].host)
    /\ Cached(ask[r].host)
    /\ Resolved(r, <<Head(dnsCache[ask[r].host].ips)>>)
    /\ UNCHANGED <<ask, config, dnsCache, used, rule, failed>>

UseCache(r) ==
    /\ pc[r] = "resolve"
    /\ ~IsLiteral(ask[r].host)
    /\ Cached(ask[r].host)
    /\ CheckAnswer(r, dnsCache[ask[r].host].ips)
    /\ UNCHANGED <<ask, config, dnsCache, used, rule, failed>>

(* Variant of StartLookup: no lookup while the cache is full.               *)
StartLookupIfRoom(r) ==
    /\ pc[r] = "resolve"
    /\ ~IsLiteral(ask[r].host)
    /\ ~Cached(ask[r].host)
    /\ Cardinality(DOMAIN dnsCache) < CacheCap
    /\ Goto(r, "lookup")
    /\ UNCHANGED <<ask, config, dnsCache, used, rule, address, failed>>

StartLookup(r) ==
    /\ pc[r] = "resolve"
    /\ ~IsLiteral(ask[r].host)
    /\ ~Cached(ask[r].host)
    /\ Goto(r, "lookup")
    /\ UNCHANGED <<ask, config, dnsCache, used, rule, address, failed>>

(* The answer is cached even if the configuration changed meanwhile: the    *)
(* cache holds addresses, not verdicts.                                     *)
LookupAnswers(r, ips) ==
    /\ pc[r] = "lookup"
    /\ LET kept == IF Cardinality(DOMAIN dnsCache) >= CacheCap THEN {} ELSE DOMAIN dnsCache
       IN  dnsCache' = [host \in kept \union {ask[r].host} |->
                            IF host = ask[r].host THEN [ips |-> ips, fresh |-> TRUE]
                            ELSE dnsCache[host]]
    /\ CheckAnswer(r, ips)
    /\ UNCHANGED <<ask, config, used, rule, failed>>

(* 'pass': the handler dials the host itself. The dial looks the host up    *)
(* again, and what it gets then is not checked.                             *)
LookupFails(r) ==
    /\ pc[r] = "lookup"
    /\ Resolved(r, ask[r].host)
    /\ failed' = failed \union {r}
    /\ UNCHANGED <<ask, config, dnsCache, used, rule>>

(* The 30 seconds of a DNS cache entry are over.                            *)
CacheExpires(host) ==
    /\ Cached(host)
    /\ dnsCache' = [dnsCache EXCEPT ![host].fresh = FALSE]
    /\ UNCHANGED <<ask, config, used, pc, rule, address, seen, failed>>

(* The parser completes the request of a TLS session: full check under the  *)
(* configuration in force now; the address stays the one of the CONNECT.    *)
InnerRequest(r) ==
    LET result == Match(Content[config], FullQuery(ask[r]))
    IN  /\ pc[r] = "session"
        /\ Goto(r, IF result.allowed THEN "limit" ELSE "forbidden")
        /\ rule' = [rule EXCEPT ![r] = result.rule]
        /\ UNCHANGED <<ask, config, dnsCache, used, address, failed>>

(* The TLS session ends without a request: request timeout, parse error, or *)
(* the client leaves.                                                       *)
SessionEnds(r) ==
    /\ pc[r] = "session"
    /\ Goto(r, "closed")
    /\ UNCHANGED <<ask, config, dnsCache, used, rule, address, failed>>

(* RateLimiter.consume and, if a point was left, the dial. A request over   *)
(* the limit is counted too.                                                *)
Consume(r) ==
    LET limiter == Limiter(config, rule[r])
        key == Key(ask[r], rule[r])
        left == Cardinality(Consumed(limiter, key)) < Points(config, limiter)
    IN  /\ pc[r] = "limit"
        /\ used' = used \union {<<limiter, key, r>>}
        /\ Goto(r, IF left THEN "dialled" ELSE "limited")
        /\ UNCHANGED <<ask, config, dnsCache, rule, address, failed>>

(* The fixed 60-second window of one key ends.                              *)
WindowEnds(limiter, key) ==
    /\ Consumed(limiter, key) # {}
    /\ used' = used \ Consumed(limiter, key)
    /\ UNCHANGED <<ask, config, dnsCache, pc, rule, address, seen, failed>>

Step(r) == \/ \E a \in Asks : Receive(r, a)
           \/ SkipLiteral(r)
           \/ UseCache(r)
           \/ StartLookup(r)
           \/ \E ips \in Answers : LookupAnswers(r, ips)
           \/ LookupFails(r)
           \/ InnerRequest(r)
           \/ SessionEnds(r)
           \/ Consume(r)

Next == \/ \E r \in Requests : Step(r)
        \/ \E c \in Configs : Reload(c)
        \/ \E host \in DOMAIN dnsCache : CacheExpires(host)
        \/ \E u \in used : WindowEnds(u[1], u[2])

Spec == Init /\ [][Next]_vars

(* A handler that was entered runs on: the resolver answers or fails, and   *)
(* the rate limiter's promise settles. Nothing is assumed of the client     *)
(* (Receive, InnerRequest, SessionEnds) or of the operator (Reload).        *)
Progress(r) == \/ SkipLiteral(r)
               \/ UseCache(r)
               \/ StartLookup(r)
               \/ \E ips \in Answers : LookupAnswers(r, ips)
               \/ LookupFails(r)
               \/ Consume(r)

FairSpec == Spec /\ \A r \in Requests : WF_vars(Progress(r))

-----------------------------------------------------------------------------
Clients == {a.client : a \in Asks}
Destinations == Hosts \union {<<ip>> : ip \in Addresses}
RuleIds == {x.id : x \in UNION {ToSet(Content[c].rules) : c \in Configs}} \union {NoRule}

(* Types: in particular what a handler dials is one address, or the host.   *)
TypeOK ==
    /\ ask \in [Requests -> Asks \union {None}]
    /\ config \in Configs
    /\ DOMAIN dnsCache \subseteq Hosts
    /\ \A host \in DOMAIN dnsCache : dnsCache[host] \in [ips : Answers, fresh : BOOLEAN]
    /\ used \subseteq RuleIds \X {Key(a, id) : a \in Asks, id \in RuleIds} \X Requests
    /\ pc \in [Requests -> {"idle"} \union InFlight \union Settled]
    /\ rule \in [Requests -> RuleIds]
    /\ address \in [Requests -> Destinations \union {None}]
    /\ seen \in [Requests -> SUBSET Configs]
    /\ failed \subseteq Requests

(* What a handler holds justifies the verdict it can come to next: some     *)
(* configuration since the request came in allows what it asks for, and some*)
(* one allows the address it is to be sent to - unless it is to be sent to a*)
(* name, which only an upgrade is, or a request whose lookup failed.        *)
Reachable(r) ==
    IF IsLiteral(address[r])
    THEN \/ address[r] = ask[r].host
         \/ \E c \in seen[r] : ~AddressBlocked(Content[c], address[r][1])
    ELSE address[r] = ask[r].host /\ (ask[r].kind = "websocket" \/ r \in failed)

Allowed(r, q) == \E c \in seen[r] : Match(Content[c], q).allowed

Justified ==
    \A r \in Requests :
        /\ pc[r] = "idle" => seen[r] = {}
        /\ pc[r] # "idle" => ask[r] \in Asks
        /\ pc[r] \in InFlight => config \in seen[r]
        /\ pc[r] \in {"resolve", "lookup"} => /\ ask[r].kind # "websocket"
                                             /\ Allowed(r, ArrivalQuery(ask[r]))
        /\ pc[r] = "session" => ask[r].kind = "mitm"
        /\ pc[r] = "limit" => Allowed(r, DialQuery(ask[r]))
        /\ pc[r] \in {"session", "limit"} => Reachable(r) /\ address[r] \in Destinations

(* The points on the books are those of requests that were decided, each    *)
(* under its key, and no key has let more through than its limiter has.     *)
Accounted ==
    /\ IsFiniteSet(used)
    /\ \A u \in used : /\ pc[u[3]] \in {"dialled", "limited"}
                      /\ u[2] = Key(ask[u[3]], rule[u[3]])
                      /\ Cardinality({v \in Consumed(u[1], u[2]) : pc[v[3]] = "dialled"})
                             <= Points(config, u[1])

(* Within one window of a rule's limiter a client gets no more requests     *)
(* through the rule than its limit, over all handlers and across reloads -  *)
(* except that WebSocket upgrades have the same limit once more, because    *)
(* they are counted under another key.                                      *)
ClientQuota ==
    \A id \in RuleIds, client \in Clients :
        LET limiter == Limiter(config, id)
            Dialled(kinds) == {u \in used : /\ u[1] = limiter
                                            /\ rule[u[3]] = id
                                            /\ ask[u[3]].client = client
                                            /\ ask[u[3]].kind \in kinds
                                            /\ pc[u[3]] = "dialled"}
        IN  /\ Cardinality(Dialled({"websocket"})) <= Points(config, limiter)
            /\ Cardinality(Dialled(Kinds \ {"websocket"})) <= Points(config, limiter)

(* A handler that was entered comes to a verdict, or to an open TLS session,*)
(* however often the configuration is reloaded and the cache expires.       *)
RequestSettles ==
    \A r \in Requests :
        pc[r] \in InFlight \ {"session"} ~> pc[r] \in Settled \union {"session"}

(* "DNS rebinding - domains that resolve to a blocked IP" are blocked: a    *)
(* request for a name is connected to an address only if some configuration *)
(* in force during the request allows connections to it. A dial that is     *)
(* given the name may come to any address the name has.                     *)
MayReach(r) == IF IsLiteral(address[r]) THEN {address[r][1]}
               ELSE UNION {ToSet(ips) : ips \in Answers}

RebindingBlocked ==
    [][\A r \in Requests :
           pc[r] = "limit" /\ pc'[r] = "dialled" /\ ~IsLiteral(ask[r].host)
           => \A ip \in MayReach(r) :
                  \E c \in seen[r] : ~AddressBlocked(Content[c], ip)]_vars

(* Every way through the handlers keeps the promise of EgressPolicy, with   *)
(* its exception: a name is dialled only for an upgrade, and after a lookup *)
(* that failed.                                                             *)
Verdict(r) == CASE pc[r] = "idle" -> "none"
                [] pc[r] \in InFlight -> "pending"
                [] pc[r] = "dialled" -> "granted"
                [] pc[r] = "forbidden" -> "refused"
                [] OTHER -> "dropped"

PolicyPermits == {x \in Configs \X Asks : Match(Content[x[1]], DialQuery(x[2])).allowed}
\* An address that is asked for by itself is matched like a host.
PolicyReaches == {x \in Configs \X Asks \X Destinations :
                     /\ IsLiteral(x[3])
                     /\ \/ x[3] = x[2].host /\ <<x[1], x[2]>> \in PolicyPermits
                        \/ ~AddressBlocked(Content[x[1]], x[3][1])}
PolicyNamed == {x \in Asks \X Hosts : x[2] = x[1].host /\ ~IsLiteral(x[2])}
PolicyRejects == {x \in Configs \X Asks :
                     \/ ~Match(Content[x[1]], ArrivalQuery(x[2])).allowed
                     \/ ~Match(Content[x[1]], DialQuery(x[2])).allowed
                     \/ /\ x[2].kind # "websocket"
                        /\ \E ips \in Answers : AnswerBlocked(Content[x[1]], ips)}

Policy == INSTANCE EgressPolicy WITH
              Policies <- Configs, Nowhere <- None,
              Permits <- PolicyPermits, Reaches <- PolicyReaches, Rejects <- PolicyRejects,
              Named <- PolicyNamed, Upgrades <- {a \in Asks : a.kind = "websocket"},
              policy <- config, unresolved <- failed,
              verdict <- [r \in Requests |-> Verdict(r)],
              destination <- [r \in Requests |-> IF pc[r] = "dialled" THEN address[r] ELSE None]

ImplementsPolicy == Policy!Spec
=============================================================================
