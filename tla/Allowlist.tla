----------------------------- MODULE Allowlist -----------------------------
(***************************************************************************)
(* The decision functions of AllowlistMatcher (filter/allowlist-matcher.ts) *)
(* with the trie and the pattern matcher it is built from                   *)
(* (filter/domain-trie.ts, filter/domain-matcher.ts).                       *)
(*                                                                          *)
(* A host is the sequence of its labels read from the right, the form in    *)
(* which the trie stores it: api.example.com is <<"com", "example", "api">>.*)
(* A literal IP is a sequence of one element, an address.                   *)
(*                                                                          *)
(* A configuration is a record                                              *)
(*   rules          sequence of [id, enabled, kind, base, from, ops, limit] *)
(*                  kind   "exact" (a.b), "star" ( *.a.b ), "deep" ( **.a.b)*)
(*                  base   the labels behind the wildcard                   *)
(*                  from   clients left by clientIps and excludeClientIps   *)
(*                  ops    path-and-method pairs the rule accepts           *)
(*                  limit  points of its limiter, or NoLimit                *)
(*   blockHosts, blockAddresses   the user's block list                     *)
(*   safe           whether safe defaults are on (all of them, httpsOnly    *)
(*                  included: buildSafeDefaultsPolicy)                      *)
(*   safeHosts, safeAddresses     what the safe defaults block              *)
(*   defaultAllow   defaultAction = "allow"                                 *)
(*                                                                          *)
(* A query is a record [host, scheme, port, client, op]; a field the caller *)
(* leaves out of RequestInfo is None.                                       *)
(***************************************************************************)
EXTENDS Naturals, Sequences, SequencesExt

CONSTANTS Labels, Addresses, None, NoRule

IsHost(host) == host \in Seq(Labels)

(* What a configuration that passed validation/schemas.ts is.               *)
IsConfig(c) ==
    /\ DOMAIN c.rules \subseteq Nat
    /\ \A i \in DOMAIN c.rules : /\ IsHost(c.rules[i].base)
                                 /\ c.rules[i].kind \in {"exact", "star", "deep"}
                                 /\ c.rules[i].id # NoRule
    /\ \A i, j \in DOMAIN c.rules : c.rules[i].id = c.rules[j].id => i = j

IsLiteral(host) == Len(host) = 1 /\ host[1] \in Addresses

(* DomainMatcher.compilePattern: what the regular expression of a pattern   *)
(* accepts. The deep wildcard also accepts its base alone.                  *)
PatternMatches(rule, host) ==
    \/ rule.kind = "exact" /\ host = rule.base
    \/ rule.kind = "star" /\ Len(host) = Len(rule.base) + 1 /\ IsPrefix(rule.base, host)
    \/ rule.kind = "deep" /\ IsPrefix(rule.base, host)

(* A node of the trie exists where some rule was inserted at or below it.   *)
IsNode(c, path) == \E rule \in ToSet(c.rules) : rule.enabled /\ IsPrefix(path, rule.base)

(* Variant of OnTrie: a single-level wildcard that spans several labels.    *)
OnTrieAnyDepth(c, host, rule) ==
    \/ rule.kind = "exact" /\ rule.base = host
    \/ rule.kind \in {"star", "deep"} /\ IsStrictPrefix(rule.base, host)

(* findMatchingRules: the exact index, and the wildcards met on the walk    *)
(* from the root. A single-level wildcard sits at the parent of the host    *)
(* and is passed over when the host itself is a node.                       *)
OnTrie(c, host, rule) ==
    \/ rule.kind = "exact" /\ rule.base = host
    \/ rule.kind = "deep" /\ IsStrictPrefix(rule.base, host)
    \/ /\ rule.kind = "star" /\ Len(host) > 1
       /\ rule.base = SubSeq(host, 1, Len(host) - 1)
       /\ ~IsNode(c, host)

(* The order in which match() tries the rules: the exact ones, the wildcards*)
(* in the order of the walk - a node's single-level ones before its deep    *)
(* ones - and then, in its fallback, those the trie did not hand out.       *)
Rank(c, host, rule) ==
    IF ~OnTrie(c, host, rule) THEN Len(host) + 2
    ELSE CASE rule.kind = "exact" -> 0
           [] rule.kind = "star"  -> Len(host)
           [] rule.kind = "deep"  ->
                  IF Len(rule.base) = Len(host) - 1 THEN Len(host) + 1
                                                    ELSE Len(rule.base) + 1

(* Rules of one rank are tried in the order of the configuration.           *)
TriedBefore(c, host, i, j) ==
    LET rank(k) == Rank(c, host, c.rules[k])
    IN  rank(i) < rank(j) \/ (rank(i) = rank(j) /\ i < j)

(* matchesRuleDetails: a detail the query does not carry is not checked.    *)
DetailsMatch(rule, q) == /\ q.client = None \/ q.client \in rule.from
                         /\ q.op = None \/ q.op \in rule.ops

(* Variant of HostMatches: match() without its fallback.                    *)
HostMatchesTrieOnly(c, host, rule) == OnTrie(c, host, rule)

HostMatches(c, host, rule) == OnTrie(c, host, rule) \/ PatternMatches(rule, host)

Accepting(c, q) == {i \in DOMAIN c.rules : /\ c.rules[i].enabled
                                           /\ HostMatches(c, q.host, c.rules[i])
                                           /\ DetailsMatch(c.rules[i], q)}

MatchedRule(c, q) ==
    LET accepting == Accepting(c, q)
    IN  IF accepting = {} THEN NoRule
        ELSE c.rules[CHOOSE i \in accepting :
                         \A j \in accepting : ~TriedBefore(c, q.host, j, i)].id

UserBlocked(c, q) == \/ q.host \in c.blockHosts
                     \/ IsLiteral(q.host) /\ q.host[1] \in c.blockAddresses

SafeBlocked(c, q) ==
    /\ c.safe
    /\ \/ q.host \in c.safeHosts
       \/ IsLiteral(q.host) /\ q.host[1] \in c.safeAddresses
       \/ q.scheme = "http"
       \/ q.scheme = None /\ q.port = 80

(* AllowlistMatcher.match: user blocks, then rules, then safe defaults, then*)
(* the default action.                                                      *)
Match(c, q) ==
    LET rule == MatchedRule(c, q)
    IN  [allowed |-> /\ ~UserBlocked(c, q)
                     /\ rule # NoRule \/ (~SafeBlocked(c, q) /\ c.defaultAllow),
         rule    |-> IF UserBlocked(c, q) THEN NoRule ELSE rule]

(* resolveAndCheckHost: an address no resolved name may have. An allow rule *)
(* does not override the safe defaults here.                                *)
AddressBlocked(c, address) == \/ c.safe /\ address \in c.safeAddresses
                              \/ address \in c.blockAddresses

AnswerBlocked(c, ips) == \E ip \in ToSet(ips) : AddressBlocked(c, ip)
=============================================================================
