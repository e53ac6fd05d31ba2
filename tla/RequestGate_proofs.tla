------------------------- MODULE RequestGate_proofs -------------------------
(***************************************************************************)
(* Type correctness of RequestGate, the quota of a client, and that the     *)
(* gate implements EgressPolicy, for any number of requests, any            *)
(* configurations, any resolver answers and any limits.                     *)
(***************************************************************************)
EXTENDS RequestGate, Allowlist_proofs, FiniteSetTheorems

Inv == TypeOK /\ Justified /\ Accounted


-----------------------------------------------------------------------------
(* Of the constants.                                                        *)

(* What match() names is a rule of the configuration, or no rule.           *)
LEMMA RuleOfMatch ==
    ASSUME NEW c \in Configs, NEW q, IsHost(q.host)
    PROVE  Match(Content[c], q).rule \in RuleIds
<1>1. IsConfig(Content[c])
  BY GateAssumption
<1>2. MatchedRule(Content[c], q) \in RuleIds
  <2>1. CASE MatchedRule(Content[c], q) = NoRule
    BY <2>1 DEF RuleIds
  <2>2. CASE \E i \in DOMAIN Content[c].rules : MatchedRule(Content[c], q) = Content[c].rules[i].id
    <3>1. PICK i \in DOMAIN Content[c].rules : MatchedRule(Content[c], q) = Content[c].rules[i].id
      BY <2>2
    <3>2. Content[c].rules[i] \in UNION {ToSet(Content[d].rules) : d \in Configs}
      BY DEF ToSet
    <3> QED BY <3>1, <3>2 DEF RuleIds
  <2>3. \A i \in Accepting(Content[c], q) : i \in DOMAIN Content[c].rules
    BY DEF Accepting
  <2> QED BY <1>1, <2>1, <2>2, <2>3, MatchedRuleIsFirst
<1>3. NoRule \in RuleIds
  BY DEF RuleIds
<1> QED BY <1>2, <1>3 DEF Match

(* A limiter has a natural number of points, the default limiter always the *)
(* same.                                                                    *)
LEMMA PointsType ==
    ASSUME NEW c \in Configs, NEW limiter
    PROVE  Points(c, limiter) \in Nat /\ Points(c, NoRule) = DefaultLimit
<1>1. \A x \in Limited(c) : x.limit \in Nat /\ x.id # NoRule
  <2> SUFFICES ASSUME NEW x \in Limited(c) PROVE x.limit \in Nat /\ x.id # NoRule
    OBVIOUS
  <2>1. x \in ToSet(Content[c].rules) /\ x.limit # NoLimit
    BY DEF Limited
  <2>2. PICK i \in DOMAIN Content[c].rules : x = Content[c].rules[i]
    BY <2>1 DEF ToSet
  <2>3. IsConfig(Content[c])
    BY GateAssumption
  <2> QED BY <2>1, <2>2, <2>3, GateAssumption DEF IsConfig
<1>2. DefaultLimit \in Nat
  BY GateAssumption
<1> QED BY <1>1, <1>2 DEF Points

LEMMA LimiterType ==
    ASSUME NEW c \in Configs, NEW id \in RuleIds PROVE Limiter(c, id) \in RuleIds
BY DEF Limiter, RuleIds

(* A request is not an address that was decided on.                         *)
LEMMA QueryHosts ==
    ASSUME NEW a \in Asks
    PROVE  /\ IsHost(DomainQuery(a).host) /\ IsHost(FullQuery(a).host)
           /\ IsHost(ArrivalQuery(a).host) /\ a.host \in Hosts
BY GateAssumption DEF DomainQuery, FullQuery, ArrivalQuery, Hosts

-----------------------------------------------------------------------------
LEMMA InitInv == Init => Inv
<1> SUFFICES ASSUME Init PROVE Inv
  OBVIOUS
<1>1. TypeOK
  BY DEF Init, TypeOK, RuleIds
<1>2. Justified
  BY DEF Init, Justified, InFlight
<1>3. Accounted
  BY FS_EmptySet DEF Init, Accounted
<1> QED BY <1>1, <1>2, <1>3 DEF Inv

-----------------------------------------------------------------------------
(* What the handler of one request does leaves the others alone.            *)
LEMMA GotoEffect ==
    ASSUME TypeOK, NEW r \in Requests, NEW to \in InFlight \union Settled, Goto(r, to)
    PROVE  /\ pc' \in [Requests -> {"idle"} \union InFlight \union Settled]
           /\ pc'[r] = to
           /\ seen' \in [Requests -> SUBSET Configs]
           /\ seen'[r] = IF to \in Settled THEN {}
                         ELSE IF pc[r] = "idle" THEN {config} ELSE seen[r]
           /\ \A s \in Requests \ {r} : pc'[s] = pc[s] /\ seen'[s] = seen[s]
BY DEF Goto, TypeOK

(* The books are right as long as used is untouched and the handler that    *)
(* moves had not been counted.                                              *)
LEMMA BooksUntouched ==
    ASSUME Inv, NEW r \in Requests, pc[r] \notin {"dialled", "limited"},
           UNCHANGED <<used, config>>,
           \A s \in Requests \ {r} : pc'[s] = pc[s] /\ ask'[s] = ask[s] /\ rule'[s] = rule[s]
    PROVE  Accounted'
<1>1. IsFiniteSet(used')
  BY DEF Inv, Accounted
<1>2. ASSUME NEW u \in used
      PROVE  pc'[u[3]] = pc[u[3]] /\ ask'[u[3]] = ask[u[3]] /\ rule'[u[3]] = rule[u[3]]
  <2>1. u[3] \in Requests
    BY DEF Inv, TypeOK
  <2>2. pc[u[3]] \in {"dialled", "limited"}
    BY DEF Inv, Accounted
  <2> QED BY <2>1, <2>2
<1>3. ASSUME NEW u \in used'
      PROVE  /\ pc'[u[3]] \in {"dialled", "limited"}
             /\ u[2] = Key(ask'[u[3]], rule'[u[3]])
             /\ Cardinality({v \in Consumed(u[1], u[2])' : pc'[v[3]] = "dialled"})
                    <= Points(config', u[1])
  <2>1. {v \in Consumed(u[1], u[2])' : pc'[v[3]] = "dialled"}
            = {v \in Consumed(u[1], u[2]) : pc[v[3]] = "dialled"}
    BY <1>2 DEF Consumed
  <2> QED BY <1>2, <2>1 DEF Inv, Accounted
<1> QED BY <1>1, <1>3 DEF Accounted

(* A settled or waiting request other than r stays justified.               *)
LEMMA OthersJustified ==
    ASSUME Inv, NEW r \in Requests, config' = config,
           NEW s \in Requests \ {r},
           pc'[s] = pc[s], seen'[s] = seen[s], ask'[s] = ask[s], address'[s] = address[s],
           failed \subseteq failed'
    PROVE  /\ pc'[s] = "idle" => seen'[s] = {}
           /\ pc'[s] # "idle" => ask'[s] \in Asks
           /\ pc'[s] \in InFlight => config' \in seen'[s]
           /\ pc'[s] \in {"resolve", "lookup"} => /\ ask'[s].kind # "websocket"
                                                 /\ Allowed(s, ArrivalQuery(ask[s]))'
           /\ pc'[s] = "session" => ask'[s].kind = "mitm"
           /\ pc'[s] = "limit" => Allowed(s, DialQuery(ask[s]))'
           /\ pc'[s] \in {"session", "limit"} => Reachable(s)' /\ address'[s] \in Destinations
BY DEF Inv, Justified, Allowed, Reachable

-----------------------------------------------------------------------------
(* The steps of a handler, one by one.                                      *)

LEMMA ReceiveInv ==
    ASSUME Inv, NEW r \in Requests, NEW a \in Asks, Receive(r, a)
    PROVE  Inv'
<1> DEFINE result == Match(Content[config], ArrivalQuery(a))
           to == IF ~result.allowed THEN "forbidden"
                 ELSE IF a.kind = "websocket" THEN "limit" ELSE "resolve"
<1>1. /\ pc[r] = "idle" /\ config \in Configs /\ a.host \in Hosts
      /\ ask' = [ask EXCEPT ![r] = a] /\ rule' = [rule EXCEPT ![r] = result.rule]
      /\ UNCHANGED <<config, dnsCache, used, failed>> /\ Goto(r, to)
  BY QueryHosts DEF Receive, Inv, TypeOK
<1>2. to \in InFlight \union Settled
  BY DEF InFlight, Settled
<1>3. result.rule \in RuleIds
  BY <1>1, QueryHosts, RuleOfMatch
<1>4. /\ to = "limit" => address' = [address EXCEPT ![r] = a.host]
      /\ to # "limit" => address' = address
  BY DEF Receive
<1> HIDE DEF to
<1>5. /\ pc' \in [Requests -> {"idle"} \union InFlight \union Settled]
      /\ pc'[r] = to
      /\ seen' \in [Requests -> SUBSET Configs]
      /\ seen'[r] = IF to \in Settled THEN {} ELSE {config}
      /\ \A s \in Requests \ {r} : pc'[s] = pc[s] /\ seen'[s] = seen[s]
  BY <1>1, <1>2, GotoEffect DEF Inv
<1>6. TypeOK'
  <2>1. address' \in [Requests -> Destinations \union {None}]
    BY <1>1, <1>4 DEF TypeOK, Inv, Destinations
  <2>2. ask' \in [Requests -> Asks \union {None}] /\ rule' \in [Requests -> RuleIds]
    BY <1>1, <1>3 DEF TypeOK, Inv
  <2> QED BY <1>1, <1>5, <2>1, <2>2 DEF TypeOK, Inv
<1>7. Justified'
  <2>1. ASSUME NEW s \in Requests \ {r}
        PROVE  ask'[s] = ask[s] /\ address'[s] = address[s]
    BY <1>1, <1>4 DEF Inv, TypeOK
  <2>2. ask'[r] = a /\ (to = "limit" => address'[r] = a.host)
    BY <1>1, <1>4 DEF Inv, TypeOK
  <2>3. to \in InFlight => Match(Content[config], ArrivalQuery(a)).allowed
    BY DEF to, InFlight
  <2>4. to = "limit" => ArrivalQuery(a) = DialQuery(a) /\ a.kind = "websocket"
    BY DEF to, ArrivalQuery, DialQuery
  <2>5. to = "resolve" => a.kind # "websocket"
    BY DEF to
  <2>6. to \in {"forbidden", "limit", "resolve"} /\ a.host \in Destinations
    BY <1>1 DEF to, Destinations
  <2> QED BY <1>1, <1>5, <2>1, <2>2, <2>3, <2>4, <2>5, <2>6, OthersJustified
          DEF Justified, Allowed, Reachable, InFlight, Settled
<1>8. Accounted'
  <2>1. ASSUME NEW s \in Requests \ {r} PROVE ask'[s] = ask[s] /\ rule'[s] = rule[s]
    BY <1>1 DEF Inv, TypeOK
  <2> QED BY <1>1, <1>5, <2>1, BooksUntouched
<1> QED BY <1>6, <1>7, <1>8 DEF Inv

(* A handler that only moves on to "lookup", or gives its request up.       *)
LEMMA MovesOnInv ==
    ASSUME Inv, NEW r \in Requests, NEW to \in {"lookup", "forbidden", "closed"},
           pc[r] \in {"resolve", "lookup", "session"},
           to = "lookup" => pc[r] \in {"resolve", "lookup"},
           Goto(r, to), UNCHANGED <<ask, config, used, rule, address, failed>>,
           DOMAIN dnsCache' \subseteq Hosts,
           \A host \in DOMAIN dnsCache' :
               dnsCache'[host] \in [ips : Answers, fresh : BOOLEAN]
    PROVE  Inv'
<1>1. to \in InFlight \union Settled
  BY DEF InFlight, Settled
<1>2. /\ pc' \in [Requests -> {"idle"} \union InFlight \union Settled]
      /\ pc'[r] = to
      /\ seen' \in [Requests -> SUBSET Configs]
      /\ seen'[r] = IF to \in Settled THEN {} ELSE seen[r]
      /\ \A s \in Requests \ {r} : pc'[s] = pc[s] /\ seen'[s] = seen[s]
  BY <1>1, GotoEffect DEF Inv
<1>3. TypeOK'
  BY <1>2 DEF TypeOK, Inv
<1>4. Justified'
  BY <1>2, OthersJustified DEF Inv, Justified, Allowed, InFlight, Settled
<1>5. Accounted'
  BY <1>2, BooksUntouched
<1> QED BY <1>3, <1>4, <1>5 DEF Inv

(* A handler that has its address: the host itself if it is literal or its  *)
(* lookup failed, or an address that the configuration in force allows.     *)
LEMMA ResolvedInv ==
    ASSUME Inv, NEW r \in Requests, NEW target \in Destinations,
           pc[r] \in {"resolve", "lookup"},
           \/ target = ask[r].host /\ (IsLiteral(target) \/ r \in failed')
           \/ IsLiteral(target) /\ ~AddressBlocked(Content[config], target[1]),
           Resolved(r, target), UNCHANGED <<ask, config, used, rule>>,
           failed \subseteq failed', failed' \subseteq Requests,
           DOMAIN dnsCache' \subseteq Hosts,
           \A host \in DOMAIN dnsCache' :
               dnsCache'[host] \in [ips : Answers, fresh : BOOLEAN]
    PROVE  Inv'
<1> DEFINE to == IF ask[r].kind = "mitm" THEN "session" ELSE "limit"
<1>1. Goto(r, to) /\ address' = [address EXCEPT ![r] = target]
  BY DEF Resolved
<1>2. to \in {"session", "limit"} /\ to \in InFlight \union Settled /\ to \notin Settled
  BY DEF InFlight, Settled
<1>3. to = "session" => ask[r].kind = "mitm"
  OBVIOUS
<1>4. to = "limit" => DialQuery(ask[r]) = ArrivalQuery(ask[r])
  <2>1. ask[r].kind \in Kinds /\ ask[r].kind # "websocket"
    BY GateAssumption DEF Inv, Justified, TypeOK
  <2> QED BY <2>1 DEF DialQuery, ArrivalQuery, Kinds
<1> HIDE DEF to
<1>5. /\ pc' \in [Requests -> {"idle"} \union InFlight \union Settled]
      /\ pc'[r] = to
      /\ seen' \in [Requests -> SUBSET Configs]
      /\ seen'[r] = seen[r]
      /\ \A s \in Requests \ {r} : pc'[s] = pc[s] /\ seen'[s] = seen[s]
  BY <1>1, <1>2, GotoEffect DEF Inv
<1>6. /\ address' \in [Requests -> Destinations \union {None}]
      /\ address'[r] = target
      /\ \A s \in Requests \ {r} : address'[s] = address[s]
  BY <1>1 DEF Inv, TypeOK
<1>7. TypeOK'
  BY <1>5, <1>6 DEF TypeOK, Inv
<1>8. Justified'
  <2>1. /\ ask[r] \in Asks /\ config \in seen[r]
        /\ Allowed(r, ArrivalQuery(ask[r]))
    BY DEF Inv, Justified, InFlight
  <2>2. Reachable(r)'
    BY <2>1, <1>5, <1>6 DEF Reachable
  <2>3. to = "limit" => Allowed(r, DialQuery(ask[r]))'
    BY <2>1, <1>4, <1>5 DEF Allowed
  <2> QED BY <1>2, <1>3, <1>5, <1>6, <2>1, <2>2, <2>3, OthersJustified DEF Justified
<1>9. Accounted'
  BY <1>5, BooksUntouched
<1> QED BY <1>7, <1>8, <1>9 DEF Inv

LEMMA CheckAnswerInv ==
    ASSUME Inv, NEW r \in Requests, NEW ips \in Answers,
           pc[r] \in {"resolve", "lookup"},
           CheckAnswer(r, ips), UNCHANGED <<ask, config, used, rule, failed>>,
           DOMAIN dnsCache' \subseteq Hosts,
           \A host \in DOMAIN dnsCache' :
               dnsCache'[host] \in [ips : Answers, fresh : BOOLEAN]
    PROVE  Inv'
<1>1. CASE AnswerBlocked(Content[config], ips)
  BY <1>1, MovesOnInv DEF CheckAnswer
<1>2. CASE ~AnswerBlocked(Content[config], ips)
  <2>1. ips \in Seq(Addresses) /\ ips # <<>>
    BY GateAssumption
  <2>2. Head(ips) \in Addresses /\ Head(ips) \in ToSet(ips)
    BY <2>1 DEF ToSet
  <2>3. <<Head(ips)>> \in Destinations /\ ~AddressBlocked(Content[config], <<Head(ips)>>[1])
    BY <1>2, <2>2 DEF AnswerBlocked, Destinations
  <2>5. IsLiteral(<<Head(ips)>>) /\ failed \subseteq failed' /\ failed' \subseteq Requests
    BY <2>2 DEF IsLiteral, Inv, TypeOK
  <2>4. Resolved(r, <<Head(ips)>>)
    BY <1>2 DEF CheckAnswer
  <2> QED BY <2>3, <2>4, <2>5, ResolvedInv
<1> QED BY <1>1, <1>2

(* resolveAndCheckHost: by its five ways out.                               *)
LEMMA ResolveInv ==
    ASSUME Inv, NEW r \in Requests,
           \/ SkipLiteral(r) \/ UseCache(r) \/ StartLookup(r)
           \/ \E ips \in Answers : LookupAnswers(r, ips)
           \/ LookupFails(r)
    PROVE  Inv'
<1>1. /\ pc[r] \in {"resolve", "lookup"} => ask[r].host \in Hosts /\ ask[r].host \in Destinations
  BY QueryHosts DEF Inv, Justified, Destinations
<1>2. /\ DOMAIN dnsCache \subseteq Hosts
      /\ \A host \in DOMAIN dnsCache :
             dnsCache[host] \in [ips : Answers, fresh : BOOLEAN]
      /\ failed \subseteq Requests
  BY DEF Inv, TypeOK
<1>3. CASE SkipLiteral(r)
  BY <1>1, <1>2, <1>3, ResolvedInv DEF SkipLiteral
<1>4. CASE UseCache(r)
  <2>1. dnsCache[ask[r].host].ips \in Answers
    BY <1>2, <1>4 DEF UseCache, Cached
  <2> QED BY <1>2, <1>4, <2>1, CheckAnswerInv DEF UseCache
<1>5. CASE StartLookup(r)
  BY <1>2, <1>5, MovesOnInv DEF StartLookup
<1>6. CASE LookupFails(r)
  BY <1>1, <1>2, <1>6, ResolvedInv DEF LookupFails
<1>7. ASSUME NEW ips \in Answers, LookupAnswers(r, ips) PROVE Inv'
  <2>1. PICK kept \in SUBSET DOMAIN dnsCache :
            dnsCache' = [host \in kept \union {ask[r].host} |->
                             IF host = ask[r].host THEN [ips |-> ips, fresh |-> TRUE]
                             ELSE dnsCache[host]]
    BY <1>7 DEF LookupAnswers
  <2>2. /\ pc[r] = "lookup" /\ CheckAnswer(r, ips)
        /\ UNCHANGED <<ask, config, used, rule, failed>>
    BY <1>7 DEF LookupAnswers
  <2>3. DOMAIN dnsCache' \subseteq Hosts
    BY <1>1, <1>2, <2>1, <2>2
  <2>4. \A host \in DOMAIN dnsCache' :
            dnsCache'[host] \in [ips : Answers, fresh : BOOLEAN]
    BY <1>2, <2>1
  <2> QED BY <2>2, <2>3, <2>4, CheckAnswerInv
<1> QED BY <1>3, <1>4, <1>5, <1>6, <1>7

(* The request inside a TLS session.                                        *)
LEMMA SessionInv ==
    ASSUME Inv, NEW r \in Requests, InnerRequest(r) \/ SessionEnds(r)
    PROVE  Inv'
<1>1. CASE SessionEnds(r)
  BY <1>1, MovesOnInv DEF SessionEnds, Inv, TypeOK
<1>2. CASE InnerRequest(r)
  <2> DEFINE result == Match(Content[config], FullQuery(ask[r]))
             to == IF result.allowed THEN "limit" ELSE "forbidden"
  <2>1. /\ pc[r] = "session" /\ Goto(r, to)
        /\ rule' = [rule EXCEPT ![r] = result.rule]
        /\ UNCHANGED <<ask, config, dnsCache, used, address, failed>>
    BY <1>2 DEF InnerRequest
  <2>2. /\ ask[r] \in Asks /\ ask[r].kind = "mitm" /\ config \in seen[r]
        /\ Reachable(r) /\ address[r] \in Destinations
    BY <2>1 DEF Inv, Justified, InFlight
  <2>3. to \in {"limit", "forbidden"} /\ to \in InFlight \union Settled
    BY DEF InFlight, Settled
  <2>4. to = "limit" => Match(Content[config], DialQuery(ask[r])).allowed
    BY <2>2 DEF DialQuery
  <2>5. result.rule \in RuleIds
    BY <2>2, QueryHosts, RuleOfMatch DEF Inv, TypeOK
  <2> HIDE DEF to, result
  <2>6. /\ pc' \in [Requests -> {"idle"} \union InFlight \union Settled]
        /\ pc'[r] = to
        /\ seen' \in [Requests -> SUBSET Configs]
        /\ seen'[r] = IF to \in Settled THEN {} ELSE seen[r]
        /\ \A s \in Requests \ {r} : pc'[s] = pc[s] /\ seen'[s] = seen[s]
    BY <2>1, <2>3, GotoEffect DEF Inv
  <2>7. rule' \in [Requests -> RuleIds] /\ \A s \in Requests \ {r} : rule'[s] = rule[s]
    BY <2>1, <2>5 DEF Inv, TypeOK
  <2>8. TypeOK'
    BY <2>1, <2>6, <2>7 DEF Inv, TypeOK
  <2>9. Justified'
    <3>1. to = "limit" => seen'[r] = seen[r]
      BY <2>6 DEF Settled
    <3>2. to = "limit" => Allowed(r, DialQuery(ask[r]))' /\ Reachable(r)'
      BY <2>1, <2>2, <2>4, <3>1 DEF Allowed, Reachable
    <3> QED BY <2>1, <2>2, <2>3, <2>6, <3>1, <3>2, OthersJustified DEF Justified, InFlight
  <2>10. Accounted'
    BY <2>1, <2>6, <2>7, BooksUntouched
  <2> QED BY <2>8, <2>9, <2>10 DEF Inv
<1> QED BY <1>1, <1>2

(* What the requests of one limiter and key that were let through amount to.*)
LetThrough(limiter, key) == {v \in Consumed(limiter, key) : pc[v[3]] = "dialled"}

LEMMA LetThroughBound ==
    ASSUME Inv, NEW limiter, NEW key
    PROVE  /\ IsFiniteSet(Consumed(limiter, key))
           /\ Cardinality(Consumed(limiter, key)) \in Nat
           /\ Cardinality(LetThrough(limiter, key)) <= Points(config, limiter)
<1>1. IsFiniteSet(Consumed(limiter, key))
  BY FS_Subset DEF Inv, Accounted, Consumed
<1>2. Cardinality(Consumed(limiter, key)) \in Nat
  BY <1>1, FS_CardinalityType
<1>3. CASE LetThrough(limiter, key) = {}
  BY <1>1, <1>2, <1>3, FS_EmptySet, PointsType DEF Inv, TypeOK
<1>4. CASE LetThrough(limiter, key) # {}
  <2>1. PICK u \in used : u[1] = limiter /\ u[2] = key
    BY <1>4 DEF LetThrough, Consumed
  <2> QED BY <1>1, <1>2, <2>1 DEF Inv, Accounted, LetThrough
<1> QED BY <1>1, <1>2, <1>3, <1>4

LEMMA ConsumeInv ==
    ASSUME Inv, NEW r \in Requests, Consume(r)
    PROVE  Inv'
<1> DEFINE limiter == Limiter(config, rule[r])
           key == Key(ask[r], rule[r])
           left == Cardinality(Consumed(limiter, key)) < Points(config, limiter)
           to == IF left THEN "dialled" ELSE "limited"
           new == <<limiter, key, r>>
<1>1. /\ pc[r] = "limit" /\ used' = used \union {new} /\ Goto(r, to)
      /\ UNCHANGED <<ask, config, dnsCache, rule, address, failed>>
  BY DEF Consume
<1>2. to \in Settled /\ to \in {"dialled", "limited"} /\ (left <=> to = "dialled")
  BY DEF Settled
<1>3. /\ ask[r] \in Asks /\ rule[r] \in RuleIds /\ config \in Configs
      /\ limiter \in RuleIds /\ Points(config, limiter) \in Nat
  BY <1>1, LimiterType, PointsType DEF Inv, TypeOK, Justified
<1>4. /\ pc' \in [Requests -> {"idle"} \union InFlight \union Settled]
      /\ pc'[r] = to
      /\ seen' \in [Requests -> SUBSET Configs]
      /\ \A s \in Requests \ {r} : pc'[s] = pc[s] /\ seen'[s] = seen[s]
  BY <1>1, <1>2, GotoEffect DEF Inv
<1>5. TypeOK'
  <2>1. new \in RuleIds \X {Key(a, id) : a \in Asks, id \in RuleIds} \X Requests
    BY <1>3
  <2> HIDE DEF new
  <2> QED BY <1>1, <1>4, <2>1 DEF Inv, TypeOK
<1>6. Justified'
  BY <1>1, <1>2, <1>4, OthersJustified DEF Inv, Justified, InFlight, Settled
<1>7. Accounted'
  <2>1. \A u \in used : u[3] \in Requests \ {r} /\ pc'[u[3]] = pc[u[3]]
    <3>1. \A u \in used : u[3] \in Requests
      BY DEF Inv, TypeOK
    <3>2. \A u \in used : u[3] # r
      BY <1>1 DEF Inv, Accounted
    <3> QED BY <1>4, <3>1, <3>2
  <2>2. IsFiniteSet(used')
    BY <1>1, FS_AddElement DEF Inv, Accounted
  <2>3. ASSUME NEW u \in used'
        PROVE  pc'[u[3]] \in {"dialled", "limited"} /\ u[2] = Key(ask'[u[3]], rule'[u[3]])
    <3>1. CASE u \in used
      BY <1>1, <2>1, <3>1 DEF Inv, Accounted
    <3>2. CASE u = new
      BY <1>1, <1>2, <1>4, <3>2
    <3> QED BY <1>1, <3>1, <3>2
  <2>4. ASSUME NEW u \in used'
        PROVE  Cardinality(LetThrough(u[1], u[2])') <= Points(config', u[1])
    <3>1. CASE u[1] = limiter /\ u[2] = key /\ left
      <4> DEFINE before == Consumed(limiter, key)
                 after == LetThrough(u[1], u[2])'
                 n == Cardinality(before)
      <4>1. after \subseteq before \union {new}
        BY <1>1, <3>1 DEF LetThrough, Consumed
      <4>2. IsFiniteSet(before) /\ n \in Nat
        BY LetThroughBound
      <4>3. IsFiniteSet(before \union {new}) /\ Cardinality(before \union {new}) \in {n, n + 1}
        BY <4>2, FS_AddElement
      <4>4. IsFiniteSet(after) /\ Cardinality(after) <= Cardinality(before \union {new})
        BY <4>1, <4>3, FS_Subset
      <4>5. Cardinality(after) \in Nat
        BY <4>4, FS_CardinalityType
      <4>6. n < Points(config, u[1]) /\ Points(config, u[1]) \in Nat
        BY <1>3, <3>1
      <4> HIDE DEF before, after, n
      <4>7. Cardinality(after) <= Points(config, u[1])
        BY <4>2, <4>3, <4>4, <4>5, <4>6
      <4> QED BY <1>1, <4>7 DEF after
    <3>2. CASE ~(u[1] = limiter /\ u[2] = key /\ left)
      <4>1. new \notin LetThrough(u[1], u[2])'
        <5>1. new[1] = limiter /\ new[2] = key /\ new[3] = r
          OBVIOUS
        <5> QED BY <1>2, <1>4, <3>2, <5>1 DEF LetThrough, Consumed
      <4>2. LetThrough(u[1], u[2])' = LetThrough(u[1], u[2])
        BY <1>1, <2>1, <4>1 DEF LetThrough, Consumed
      <4> QED BY <1>1, <4>2, LetThroughBound
    <3> QED BY <3>1, <3>2
  <2> QED BY <2>2, <2>3, <2>4 DEF Accounted, LetThrough
<1> QED BY <1>5, <1>6, <1>7 DEF Inv

-----------------------------------------------------------------------------
(* What happens around the handlers.                                        *)

LEMMA CacheExpiresInv ==
    ASSUME Inv, NEW host \in DOMAIN dnsCache, CacheExpires(host)
    PROVE  Inv'
<1>1. TypeOK'
  <2>1. dnsCache' = [dnsCache EXCEPT ![host] = [dnsCache[host] EXCEPT !.fresh = FALSE]]
    BY DEF CacheExpires
  <2>2. dnsCache[host] \in [ips : Answers, fresh : BOOLEAN]
    BY DEF Inv, TypeOK
  <2>3. [dnsCache[host] EXCEPT !.fresh = FALSE] \in [ips : Answers, fresh : BOOLEAN]
    BY <2>2
  <2>4. /\ DOMAIN dnsCache' = DOMAIN dnsCache
        /\ \A h \in DOMAIN dnsCache' : dnsCache'[h] \in [ips : Answers, fresh : BOOLEAN]
    BY <2>1, <2>3 DEF Inv, TypeOK
  <2>5. UNCHANGED <<ask, config, used, pc, rule, address, seen, failed>>
    BY DEF CacheExpires
  <2> QED BY <2>4, <2>5 DEF Inv, TypeOK
<1>2. Justified'
  BY DEF Inv, Justified, Allowed, Reachable, CacheExpires
<1>3. Accounted'
  BY DEF Inv, Accounted, Consumed, CacheExpires
<1> QED BY <1>1, <1>2, <1>3 DEF Inv

LEMMA WindowEndsInv ==
    ASSUME Inv, NEW limiter, NEW key, WindowEnds(limiter, key)
    PROVE  Inv'
<1>1. used' = used \ Consumed(limiter, key)
  BY DEF WindowEnds
<1>2. TypeOK'
  BY DEF Inv, TypeOK, WindowEnds
<1>3. Justified'
  BY DEF Inv, Justified, Allowed, Reachable, WindowEnds
<1>4. Accounted'
  <2>1. IsFiniteSet(used')
    BY <1>1, FS_Difference DEF Inv, Accounted
  <2>2. ASSUME NEW u \in used'
        PROVE  Consumed(u[1], u[2])' = Consumed(u[1], u[2])
    BY <1>1 DEF Consumed
  <2> QED BY <1>1, <2>1, <2>2 DEF Inv, Accounted, WindowEnds
<1> QED BY <1>2, <1>3, <1>4 DEF Inv

LEMMA ReloadInv ==
    ASSUME Inv, NEW c \in Configs, Reload(c)
    PROVE  Inv'
<1>1. /\ config' = c /\ dnsCache' = <<>>
      /\ used' = {u \in used : u[1] = NoRule}
      /\ UNCHANGED <<ask, pc, rule, address, failed>>
  BY DEF Reload
<1>2. ASSUME NEW r \in Requests
      PROVE  /\ seen[r] \subseteq seen'[r] /\ seen'[r] \subseteq Configs
             /\ pc[r] \in InFlight => c \in seen'[r]
             /\ pc[r] \notin InFlight => seen'[r] = seen[r]
  BY DEF Reload, Inv, TypeOK
<1>3. TypeOK'
  <2>1. seen' \in [Requests -> SUBSET Configs]
    BY <1>2 DEF Reload
  <2> QED BY <1>1, <2>1 DEF Inv, TypeOK
<1>4. Justified'
  BY <1>1, <1>2 DEF Inv, Justified, Allowed, Reachable, InFlight
<1>5. Accounted'
  <2>1. IsFiniteSet(used')
    BY <1>1, FS_Subset DEF Inv, Accounted
  <2>2. ASSUME NEW u \in used'
        PROVE  /\ Consumed(u[1], u[2])' = Consumed(u[1], u[2])
               /\ Points(config', u[1]) = Points(config, u[1])
    <3>1. Points(c, NoRule) = Points(config, NoRule)
      BY PointsType DEF Inv, TypeOK
    <3> QED BY <1>1, <3>1 DEF Consumed
  <2> QED BY <1>1, <2>1, <2>2 DEF Inv, Accounted
<1> QED BY <1>3, <1>4, <1>5 DEF Inv

LEMMA NextInv == Inv /\ [Next]_vars => Inv'
<1> SUFFICES ASSUME Inv, [Next]_vars PROVE Inv'
  OBVIOUS
<1>1. CASE \E r \in Requests : Step(r)
  BY <1>1, ReceiveInv, ResolveInv, SessionInv, ConsumeInv DEF Step
<1>2. CASE \E c \in Configs : Reload(c)
  BY <1>2, ReloadInv
<1>3. CASE \E host \in DOMAIN dnsCache : CacheExpires(host)
  BY <1>3, CacheExpiresInv
<1>4. CASE \E u \in used : WindowEnds(u[1], u[2])
  BY <1>4, WindowEndsInv
<1>5. CASE UNCHANGED vars
  BY <1>5 DEF vars, Inv, TypeOK, Justified, Allowed, Reachable, Accounted, Consumed
<1> QED BY <1>1, <1>2, <1>3, <1>4, <1>5 DEF Next

(* Inv holds of the gate, and with it that every value has its type: what a *)
(* handler dials is always one address or the host it was asked for.        *)
THEOREM Invariant == Spec => []Inv
<1> QED BY InitInv, NextInv, PTL DEF Spec

THEOREM TypeCorrect == Spec => []TypeOK
<1>1. Inv => TypeOK
  BY DEF Inv
<1> QED BY <1>1, Invariant, PTL

-----------------------------------------------------------------------------
(* The quota: what a client got through a rule by the upgrades, or by the   *)
(* other handlers, was counted under one key of the rule's limiter.         *)
LEMMA InvImpliesQuota == Inv => ClientQuota
<1> SUFFICES ASSUME Inv, NEW id \in RuleIds, NEW client \in Clients,
                    NEW kinds, kinds \in {{"websocket"}, Kinds \ {"websocket"}}
             PROVE  LET limiter == Limiter(config, id)
                    IN  Cardinality({u \in used : /\ u[1] = limiter
                                                  /\ rule[u[3]] = id
                                                  /\ ask[u[3]].client = client
                                                  /\ ask[u[3]].kind \in kinds
                                                  /\ pc[u[3]] = "dialled"})
                            <= Points(config, limiter)
  BY DEF ClientQuota
<1> DEFINE limiter == Limiter(config, id)
           dialled == {u \in used : /\ u[1] = limiter
                                    /\ rule[u[3]] = id
                                    /\ ask[u[3]].client = client
                                    /\ ask[u[3]].kind \in kinds
                                    /\ pc[u[3]] = "dialled"}
           key == IF kinds = {"websocket"} THEN <<client>> ELSE <<id, client>>
<1>1. dialled \subseteq LetThrough(limiter, key)
  <2> SUFFICES ASSUME NEW u \in dialled PROVE u \in LetThrough(limiter, key)
    OBVIOUS
  <2>1. u[2] = Key(ask[u[3]], rule[u[3]])
    BY DEF Inv, Accounted
  <2>2. kinds = {"websocket"} <=> ask[u[3]].kind = "websocket"
    BY DEF Kinds
  <2> QED BY <2>1, <2>2 DEF LetThrough, Consumed, Key
<1>2. /\ IsFiniteSet(LetThrough(limiter, key))
      /\ Cardinality(LetThrough(limiter, key)) <= Points(config, limiter)
  <2>1. LetThrough(limiter, key) \subseteq Consumed(limiter, key)
    BY DEF LetThrough
  <2> QED BY <2>1, LetThroughBound, FS_Subset
<1>3. /\ IsFiniteSet(dialled)
      /\ Cardinality(dialled) <= Cardinality(LetThrough(limiter, key))
  BY <1>1, <1>2, FS_Subset
<1>4. /\ Cardinality(dialled) \in Nat /\ Cardinality(LetThrough(limiter, key)) \in Nat
      /\ Points(config, limiter) \in Nat
  BY <1>2, <1>3, FS_CardinalityType, PointsType DEF Inv, TypeOK
<1> HIDE DEF dialled, limiter, key
<1>5. Cardinality(dialled) <= Points(config, limiter)
  BY <1>2, <1>3, <1>4
<1> QED BY <1>5 DEF dialled, limiter

(* However requests interleave, windows end and configurations change, no   *)
(* client gets more through a rule than its limiter has points.             *)
THEOREM QuotaHolds == Spec => []ClientQuota
<1> QED BY InvImpliesQuota, Invariant, PTL

-----------------------------------------------------------------------------
(* The gate implements EgressPolicy: every step is a step of the policy, or *)
(* none that the policy sees.                                               *)
verdicts == [r \in Requests |-> Verdict(r)]
destinations == [r \in Requests |-> IF pc[r] = "dialled" THEN address[r] ELSE None]

VerdictAt(to) == CASE to = "idle" -> "none"
                   [] to \in InFlight -> "pending"
                   [] to = "dialled" -> "granted"
                   [] to = "forbidden" -> "refused"
                   [] OTHER -> "dropped"

(* How the mapped variables move with a handler. *)
LEMMA MappedMove ==
    ASSUME Inv, NEW r \in Requests, NEW to \in InFlight \union Settled, Goto(r, to),
           pc[r] # "dialled",
           \A s \in Requests \ {r} : address'[s] = address[s]
    PROVE  /\ verdicts' = [verdicts EXCEPT ![r] = VerdictAt(to)]
           /\ to # "dialled" => destinations' = destinations
           /\ to = "dialled" => destinations' = [destinations EXCEPT ![r] = address'[r]]
<1>1. pc'[r] = to /\ \A s \in Requests \ {r} : pc'[s] = pc[s]
  BY GotoEffect DEF Inv
<1>2. Verdict(r)' = VerdictAt(to) /\ \A s \in Requests \ {r} : Verdict(s)' = Verdict(s)
  BY <1>1 DEF Verdict, VerdictAt
<1>3. verdicts' = [verdicts EXCEPT ![r] = VerdictAt(to)]
  BY <1>2 DEF verdicts
<1> QED BY <1>1, <1>3 DEF destinations

LEMMA VerdictValues ==
    /\ \A to \in InFlight : VerdictAt(to) = "pending"
    /\ VerdictAt("dialled") = "granted" /\ VerdictAt("forbidden") = "refused"
    /\ VerdictAt("limited") = "dropped" /\ VerdictAt("closed") = "dropped"
BY DEF VerdictAt, InFlight

LEMMA VerdictNow ==
    ASSUME NEW r \in Requests
    PROVE  /\ pc[r] = "idle" => verdicts[r] = "none"
           /\ pc[r] \in InFlight => verdicts[r] = "pending"
BY DEF verdicts, Verdict, InFlight

(* The entry of a handler admits its request or turns it away.              *)
LEMMA ReceiveRefines ==
    ASSUME Inv, NEW r \in Requests, NEW a \in Asks, Receive(r, a)
    PROVE  Policy!Admit(r, a) \/ Policy!TurnAway(r, a)
<1> DEFINE result == Match(Content[config], ArrivalQuery(a))
           to == IF ~result.allowed THEN "forbidden"
                 ELSE IF a.kind = "websocket" THEN "limit" ELSE "resolve"
<1>1. /\ pc[r] = "idle" /\ ask' = [ask EXCEPT ![r] = a] /\ config' = config /\ Goto(r, to)
      /\ failed' = failed
      /\ \A s \in Requests \ {r} : address'[s] = address[s]
  BY DEF Receive, Inv, TypeOK
<1>2. to \in {"forbidden", "limit", "resolve"} /\ to \in InFlight \union Settled
  BY DEF InFlight, Settled
<1>3. seen \in [Requests -> SUBSET Configs] /\ seen[r] = {} /\ config \in Configs
  BY <1>1 DEF Inv, TypeOK, Justified
<1>4. verdicts[r] = "none"
  BY <1>1, VerdictNow
<1>5. CASE to = "forbidden"
  <2>1. <<config, a>> \in PolicyRejects
    BY <1>3, <1>5 DEF PolicyRejects
  <2>2. verdicts' = [verdicts EXCEPT ![r] = "refused"] /\ destinations' = destinations
    BY <1>1, <1>2, <1>5, MappedMove, VerdictValues
  <2>3. seen' = seen
    BY <1>1, <1>3, <1>5 DEF Goto, Settled
  <2> QED BY <1>1, <1>4, <2>1, <2>2, <2>3 DEF Policy!TurnAway, verdicts, destinations
<1>6. CASE to # "forbidden"
  <2>1. to \in InFlight /\ to \notin Settled
    BY <1>2, <1>6 DEF InFlight, Settled
  <2>2. verdicts' = [verdicts EXCEPT ![r] = "pending"] /\ destinations' = destinations
    BY <1>1, <1>2, <1>6, <2>1, MappedMove, VerdictValues
  <2>3. seen' = [seen EXCEPT ![r] = {config}]
    BY <1>1, <2>1 DEF Goto
  <2> QED BY <1>1, <1>4, <2>2, <2>3 DEF Policy!Admit, verdicts, destinations
<1> QED BY <1>5, <1>6

(* A handler that goes on is not seen by the policy.                        *)
LEMMA GoesOnSame ==
    ASSUME Inv, NEW r \in Requests, pc[r] \in InFlight, NEW to \in InFlight, Goto(r, to),
           \A s \in Requests \ {r} : address'[s] = address[s]
    PROVE  UNCHANGED <<verdicts, destinations, seen>>
<1>1. verdicts' = [verdicts EXCEPT ![r] = "pending"] /\ destinations' = destinations
  BY MappedMove, VerdictValues DEF InFlight
<1>2. verdicts' = verdicts
  BY <1>1, VerdictNow DEF verdicts
<1>3. seen' = seen
  BY DEF Goto, Inv, TypeOK, InFlight, Settled
<1> QED BY <1>1, <1>2, <1>3

LEMMA GoesOnUnseen ==
    ASSUME Inv, NEW r \in Requests, pc[r] \in InFlight, NEW to \in InFlight, Goto(r, to),
           \A s \in Requests \ {r} : address'[s] = address[s],
           UNCHANGED <<ask, config, failed>>
    PROVE  UNCHANGED Policy!vars
BY GoesOnSame DEF Policy!vars, verdicts, destinations

(* A handler that gives a request up for a reason, or loses it.             *)
LEMMA RefusalRefines ==
    ASSUME Inv, NEW r \in Requests, pc[r] \in InFlight, Goto(r, "forbidden"),
           <<config, ask[r]>> \in PolicyRejects,
           UNCHANGED <<ask, config, address, failed>>
    PROVE  Policy!Refuse(r)
<1>1. "forbidden" \in Settled
  BY DEF Settled
<1>2. verdicts' = [verdicts EXCEPT ![r] = "refused"] /\ destinations' = destinations
  BY <1>1, MappedMove, VerdictValues DEF InFlight
<1>3. seen' = [seen EXCEPT ![r] = {}]
  BY <1>1 DEF Goto
<1>4. verdicts[r] = "pending" /\ config \in seen[r]
  BY VerdictNow DEF Inv, Justified
<1> QED BY <1>2, <1>3, <1>4 DEF Policy!Refuse, verdicts, destinations

LEMMA DropRefines ==
    ASSUME Inv, NEW r \in Requests, pc[r] \in InFlight,
           NEW to \in {"limited", "closed"}, Goto(r, to),
           UNCHANGED <<ask, config, address, failed>>
    PROVE  Policy!Drop(r)
<1>1. to \in Settled
  BY DEF Settled
<1>2. verdicts' = [verdicts EXCEPT ![r] = "dropped"] /\ destinations' = destinations
  BY <1>1, MappedMove, VerdictValues DEF InFlight
<1>3. seen' = [seen EXCEPT ![r] = {}] /\ verdicts[r] = "pending"
  BY <1>1, VerdictNow DEF Goto
<1> QED BY <1>2, <1>3 DEF Policy!Drop, verdicts, destinations

LEMMA ResolvedUnseen ==
    ASSUME Inv, NEW r \in Requests, NEW target, pc[r] \in InFlight,
           Resolved(r, target), UNCHANGED <<ask, config, failed>>
    PROVE  UNCHANGED Policy!vars
<1>1. \A s \in Requests \ {r} : address'[s] = address[s]
  BY DEF Resolved, Inv, TypeOK
<1>2. PICK to \in InFlight : Goto(r, to)
  BY DEF Resolved, InFlight
<1> QED BY <1>1, <1>2, GoesOnUnseen

LEMMA CheckAnswerRefines ==
    ASSUME Inv, NEW r \in Requests, NEW ips \in Answers,
           pc[r] \in {"resolve", "lookup"},
           CheckAnswer(r, ips), UNCHANGED <<ask, config, failed>>
    PROVE  Policy!Refuse(r) \/ UNCHANGED Policy!vars
<1>1. pc[r] \in InFlight
  BY DEF InFlight
<1>2. CASE AnswerBlocked(Content[config], ips)
  <2>1. ask[r] \in Asks /\ ask[r].kind # "websocket" /\ config \in Configs
    BY DEF Inv, TypeOK, Justified
  <2>2. <<config, ask[r]>> \in PolicyRejects
    BY <1>2, <2>1 DEF PolicyRejects
  <2> QED BY <1>1, <1>2, <2>2, RefusalRefines DEF CheckAnswer
<1>3. CASE ~AnswerBlocked(Content[config], ips)
  BY <1>1, <1>3, ResolvedUnseen DEF CheckAnswer
<1> QED BY <1>2, <1>3

(* A failed lookup shows in the policy; nothing else of it moves.           *)
LEMMA LookupFailsRefines ==
    ASSUME Inv, NEW r \in Requests, LookupFails(r)
    PROVE  Policy!LookupFails(r)
<1>1. pc[r] = "lookup" /\ pc[r] \in InFlight
      /\ Resolved(r, ask[r].host) /\ failed' = failed \union {r} /\ UNCHANGED <<ask, config>>
  BY DEF LookupFails, InFlight
<1>2. ask[r] \in Asks /\ ask[r].kind # "websocket" /\ verdicts[r] = "pending"
  BY <1>1, VerdictNow DEF Inv, Justified
<1>3. PICK to \in InFlight : Goto(r, to)
  BY <1>1 DEF Resolved, InFlight
<1>4. \A s \in Requests \ {r} : address'[s] = address[s]
  BY <1>1 DEF Resolved, Inv, TypeOK
<1>5. UNCHANGED <<verdicts, destinations, seen>>
  BY <1>1, <1>3, <1>4, GoesOnSame
<1> QED BY <1>1, <1>2, <1>5 DEF Policy!LookupFails, verdicts, destinations

LEMMA ResolveRefines ==
    ASSUME Inv, NEW r \in Requests,
           \/ SkipLiteral(r) \/ UseCache(r) \/ StartLookup(r)
           \/ \E ips \in Answers : LookupAnswers(r, ips)
           \/ LookupFails(r)
    PROVE  Policy!LookupFails(r) \/ Policy!Refuse(r) \/ UNCHANGED Policy!vars
<1>1. "resolve" \in InFlight /\ "lookup" \in InFlight
  BY DEF InFlight
<1>2. CASE SkipLiteral(r)
  BY <1>1, <1>2, ResolvedUnseen DEF SkipLiteral
<1>3. CASE UseCache(r)
  <2>1. dnsCache[ask[r].host].ips \in Answers
    BY <1>3 DEF UseCache, Cached, Inv, TypeOK
  <2> QED BY <1>3, <2>1, CheckAnswerRefines DEF UseCache
<1>4. CASE StartLookup(r)
  BY <1>1, <1>4, GoesOnUnseen DEF StartLookup
<1>5. ASSUME NEW ips \in Answers, LookupAnswers(r, ips)
      PROVE  Policy!Refuse(r) \/ UNCHANGED Policy!vars
  <2>1. pc[r] = "lookup" /\ CheckAnswer(r, ips) /\ UNCHANGED <<ask, config, failed>>
    BY <1>5 DEF LookupAnswers
  <2> QED BY <2>1, CheckAnswerRefines
<1>6. CASE LookupFails(r)
  BY <1>6, LookupFailsRefines
<1> QED BY <1>2, <1>3, <1>4, <1>5, <1>6

LEMMA SessionRefines ==
    ASSUME Inv, NEW r \in Requests, InnerRequest(r) \/ SessionEnds(r)
    PROVE  Policy!Refuse(r) \/ Policy!Drop(r) \/ UNCHANGED Policy!vars
<1>1. "session" \in InFlight /\ "limit" \in InFlight
  BY DEF InFlight
<1>2. CASE SessionEnds(r)
  BY <1>1, <1>2, DropRefines DEF SessionEnds
<1>3. CASE InnerRequest(r)
  <2>1. /\ pc[r] = "session" /\ ask[r] \in Asks /\ ask[r].kind = "mitm" /\ config \in Configs
        /\ UNCHANGED <<ask, config, address, failed>>
    BY <1>3 DEF InnerRequest, Inv, TypeOK, Justified
  <2>2. CASE Match(Content[config], FullQuery(ask[r])).allowed
    BY <1>1, <1>3, <2>1, <2>2, GoesOnUnseen DEF InnerRequest
  <2>3. CASE ~Match(Content[config], FullQuery(ask[r])).allowed
    <3>1. <<config, ask[r]>> \in PolicyRejects
      BY <2>1, <2>3 DEF PolicyRejects, DialQuery
    <3> QED BY <1>1, <1>3, <2>1, <2>3, <3>1, RefusalRefines DEF InnerRequest
  <2> QED BY <2>2, <2>3
<1> QED BY <1>2, <1>3

(* The dial is granted by what the handler holds.                           *)
LEMMA ConsumeRefines ==
    ASSUME Inv, NEW r \in Requests, Consume(r)
    PROVE  (\E d \in Destinations : Policy!Grant(r, d)) \/ Policy!Drop(r)
<1>1. /\ pc[r] = "limit" /\ pc[r] \in InFlight
      /\ Goto(r, "dialled") \/ Goto(r, "limited")
      /\ UNCHANGED <<ask, config, address, failed>>
  BY DEF Consume, InFlight
<1>2. CASE Goto(r, "limited")
  BY <1>1, <1>2, DropRefines
<1>3. CASE Goto(r, "dialled")
  <2>1. /\ ask[r] \in Asks /\ address[r] \in Destinations
        /\ Allowed(r, DialQuery(ask[r])) /\ Reachable(r) /\ seen[r] \subseteq Configs
    BY <1>1 DEF Inv, TypeOK, Justified
  <2>2. \E c \in seen[r] : <<c, ask[r]>> \in PolicyPermits
    BY <2>1 DEF Allowed, PolicyPermits
  <2>3. \/ \E c \in seen[r] : <<c, ask[r], address[r]>> \in PolicyReaches
        \/ /\ <<ask[r], address[r]>> \in PolicyNamed
           /\ ask[r] \in {a \in Asks : a.kind = "websocket"} \/ r \in failed
    <3>1. CASE IsLiteral(address[r])
      BY <2>1, <2>2, <3>1 DEF Reachable, PolicyReaches
    <3>2. CASE ~IsLiteral(address[r])
      BY <2>1, <3>2, QueryHosts DEF Reachable, PolicyNamed
    <3> QED BY <3>1, <3>2
  <2>4. "dialled" \in Settled
    BY DEF Settled
  <2>5. /\ verdicts' = [verdicts EXCEPT ![r] = "granted"]
        /\ destinations' = [destinations EXCEPT ![r] = address[r]]
    BY <1>1, <1>3, <2>4, MappedMove, VerdictValues
  <2>6. seen' = [seen EXCEPT ![r] = {}] /\ verdicts[r] = "pending"
    BY <1>1, <1>3, <2>4, VerdictNow DEF Goto
  <2>7. PICK d \in Destinations : d = address[r]
    BY <2>1
  <2>8. Policy!Grant(r, d)
    BY <1>1, <2>2, <2>3, <2>5, <2>6, <2>7 DEF Policy!Grant, verdicts, destinations
  <2> QED BY <2>8
<1> QED BY <1>1, <1>2, <1>3

LEMMA ReloadRefines ==
    ASSUME Inv, NEW c \in Configs, Reload(c)
    PROVE  Policy!Change(c)
<1>1. \A r \in Requests : (pc[r] \in InFlight) <=> (verdicts[r] = "pending")
  BY DEF verdicts, Verdict, InFlight
<1>2. seen' = [r \in Requests |-> IF verdicts[r] = "pending" THEN seen[r] \union {c} ELSE seen[r]]
  BY <1>1 DEF Reload
<1>3. verdicts' = verdicts /\ destinations' = destinations
  BY DEF Reload, verdicts, Verdict, destinations
<1> QED BY <1>2, <1>3 DEF Policy!Change, verdicts, destinations, Reload

(* The steps of the cache and of the rate limiter's clock are not seen.     *)
LEMMA SurroundingsUnseen ==
    ASSUME UNCHANGED <<ask, config, pc, address, seen, failed>>
    PROVE  UNCHANGED Policy!vars
BY DEF Policy!vars, Verdict

LEMMA NextRefines == Inv /\ [Next]_vars => [Policy!Next]_(Policy!vars)
<1> SUFFICES ASSUME Inv, [Next]_vars PROVE Policy!Next \/ UNCHANGED Policy!vars
  OBVIOUS
<1>1. ASSUME NEW r \in Requests, Step(r) PROVE Policy!Next \/ UNCHANGED Policy!vars
  BY <1>1, ReceiveRefines, ResolveRefines, SessionRefines, ConsumeRefines DEF Step, Policy!Next
<1>2. ASSUME NEW c \in Configs, Reload(c) PROVE Policy!Next
  BY <1>2, ReloadRefines DEF Policy!Next
<1>3. ASSUME NEW host \in DOMAIN dnsCache, CacheExpires(host) PROVE UNCHANGED Policy!vars
  BY <1>3, SurroundingsUnseen DEF CacheExpires
<1>4. ASSUME NEW u \in used, WindowEnds(u[1], u[2]) PROVE UNCHANGED Policy!vars
  BY <1>4, SurroundingsUnseen DEF WindowEnds
<1>5. CASE UNCHANGED vars
  BY <1>5, SurroundingsUnseen DEF vars
<1> QED BY <1>1, <1>2, <1>3, <1>4, <1>5 DEF Next

LEMMA InitRefines == Init => Policy!Init
<1> SUFFICES ASSUME Init PROVE Policy!Init
  OBVIOUS
<1>1. /\ config \in Configs /\ ask = [r \in Requests |-> None]
      /\ seen = [r \in Requests |-> {}] /\ failed = {}
      /\ \A r \in Requests : pc[r] = "idle"
  BY DEF Init
<1>2. \A r \in Requests : Verdict(r) = "none"
  BY <1>1 DEF Verdict, InFlight
<1>3. verdicts = [r \in Requests |-> "none"] /\ destinations = [r \in Requests |-> None]
  BY <1>1, <1>2 DEF verdicts, destinations
<1> QED BY <1>1, <1>3 DEF Policy!Init, verdicts, destinations

(* No handler, interleaving of handlers or reload grants a request what no  *)
(* configuration in force during it allowed, or sends it to an address where*)
(* none allowed it to go; and only an upgrade, or a request whose lookup    *)
(* failed, is sent to a name.                                               *)
THEOREM Implementation == Spec => ImplementsPolicy
<1> QED BY InitRefines, NextRefines, Invariant, PTL DEF Spec, ImplementsPolicy, Policy!Spec
=============================================================================
