-------------------------- MODULE Allowlist_proofs --------------------------
(***************************************************************************)
(* What the decision functions of Allowlist compute, for every list of      *)
(* rules: a rule is found exactly where some rule's pattern accepts the     *)
(* host and its details accept the request, and it is the first one tried.  *)
(***************************************************************************)
EXTENDS Allowlist, ProofLemmas

-----------------------------------------------------------------------------
(* The rank match() tries a rule at is a natural number.                    *)
LEMMA RankIsNatural ==
    ASSUME NEW c, NEW q, IsConfig(c), IsHost(q.host), NEW i \in DOMAIN c.rules
    PROVE  Rank(c, q.host, c.rules[i]) \in Nat
<1> DEFINE rule == c.rules[i]
           onTrie == OnTrie(c, q.host, rule)
<1>1. Len(q.host) \in Nat /\ Len(rule.base) \in Nat
  BY DEF IsConfig, IsHost
<1>2. CASE ~onTrie
  <2>1. Rank(c, q.host, rule) = Len(q.host) + 2
    BY <1>2 DEF Rank
  <2> QED BY <1>1, <2>1
<1>3. CASE onTrie /\ rule.kind = "exact"
  BY <1>1, <1>3 DEF Rank
<1>4. CASE onTrie /\ rule.kind = "star"
  BY <1>1, <1>4 DEF Rank
<1>5. CASE onTrie /\ rule.kind = "deep"
  BY <1>1, <1>5 DEF Rank
<1> QED BY <1>2, <1>3, <1>4, <1>5 DEF IsConfig, IsHost

(* Among rules that accept, one is tried first: the CHOOSE of MatchedRule   *)
(* has something to choose.                                                 *)
LEMMA SomeRuleIsFirst ==
    ASSUME NEW c, NEW q, IsConfig(c), IsHost(q.host), Accepting(c, q) # {}
    PROVE  \E i \in Accepting(c, q) :
               \A j \in Accepting(c, q) : ~TriedBefore(c, q.host, j, i)
<1> DEFINE accepting == Accepting(c, q)
           rank(i) == Rank(c, q.host, c.rules[i])
           ranks == {rank(i) : i \in accepting}
<1>1. accepting \subseteq DOMAIN c.rules /\ accepting \subseteq Nat
  BY DEF Accepting, IsConfig, IsHost
<1>2. \A i \in accepting : rank(i) \in Nat
  BY <1>1, RankIsNatural
<1>3. PICK low \in ranks : \A n \in ranks : low <= n
  <2>1. ranks \in SUBSET Nat /\ ranks # {}
    BY <1>2
  <2> HIDE DEF ranks
  <2> QED BY <2>1, LeastNatural
<1> DEFINE lowest == {i \in accepting : rank(i) = low}
<1>4. PICK i \in lowest : \A j \in lowest : i <= j
  <2>1. lowest \in SUBSET Nat /\ lowest # {}
    BY <1>1, <1>3
  <2> HIDE DEF lowest
  <2> QED BY <2>1, LeastNatural
<1>5. ASSUME NEW j \in accepting PROVE ~TriedBefore(c, q.host, j, i)
  <2>1. rank(i) <= rank(j) /\ (rank(j) = rank(i) => i <= j)
    BY <1>3, <1>4
  <2>2. rank(i) \in Nat /\ rank(j) \in Nat /\ i \in Nat /\ j \in Nat
    BY <1>1, <1>2, <1>4
  <2> HIDE DEF rank
  <2>3. ~(rank(j) < rank(i) \/ (rank(j) = rank(i) /\ j < i))
    BY <2>1, <2>2
  <2> QED BY <2>3 DEF TriedBefore, rank
<1> QED BY <1>4, <1>5

(* Everything the trie hands out is accepted by the pattern of the rule: the*)
(* walk is sound whatever rules share its paths.                            *)
THEOREM TrieIsSound ==
    ASSUME NEW c, NEW host, NEW rule,
           IsHost(host), IsHost(rule.base), OnTrie(c, host, rule)
    PROVE  PatternMatches(rule, host)
<1>1. CASE rule.kind = "exact" /\ rule.base = host
  BY <1>1 DEF PatternMatches
<1>2. CASE rule.kind = "deep" /\ IsStrictPrefix(rule.base, host)
  BY <1>2 DEF PatternMatches, IsStrictPrefix
<1>3. CASE /\ rule.kind = "star" /\ Len(host) > 1
           /\ rule.base = SubSeq(host, 1, Len(host) - 1)
  <2>1. Len(rule.base) = Len(host) - 1
    BY <1>3
  <2>2. SubSeq(rule.base, 1, Len(rule.base)) = SubSeq(host, 1, Len(rule.base))
    BY <1>3, <2>1
  <2>3. IsPrefix(rule.base, host)
    BY <2>1, <2>2 DEF IsPrefix
  <2> QED BY <1>3, <2>1, <2>3 DEF PatternMatches
<1> QED BY <1>1, <1>2, <1>3 DEF OnTrie

(* match() names the rule that is tried first among those that accept, and  *)
(* no rule exactly if none accepts.                                         *)
THEOREM MatchedRuleIsFirst ==
    ASSUME NEW c, NEW q, IsConfig(c), IsHost(q.host)
    PROVE  \/ Accepting(c, q) = {} /\ MatchedRule(c, q) = NoRule
           \/ \E i \in Accepting(c, q) :
                  /\ MatchedRule(c, q) = c.rules[i].id
                  /\ \A j \in Accepting(c, q) : ~TriedBefore(c, q.host, j, i)
<1>1. CASE Accepting(c, q) = {}
  BY <1>1 DEF MatchedRule
<1>2. CASE Accepting(c, q) # {}
  <2> DEFINE first == CHOOSE i \in Accepting(c, q) :
                          \A j \in Accepting(c, q) : ~TriedBefore(c, q.host, j, i)
  <2>1. first \in Accepting(c, q) /\ \A j \in Accepting(c, q) : ~TriedBefore(c, q.host, j, first)
    BY <1>2, SomeRuleIsFirst
  <2>2. MatchedRule(c, q) = c.rules[first].id
    BY <1>2 DEF MatchedRule
  <2> QED BY <2>1, <2>2
<1> QED BY <1>1, <1>2

(* The trie with its fallback decides as the patterns do: a rule is found   *)
(* exactly if some enabled rule's pattern accepts the host and its details  *)
(* accept the request.                                                      *)
THEOREM TrieDecidesAlways ==
    ASSUME NEW c, NEW q, IsConfig(c), IsHost(q.host)
    PROVE  (MatchedRule(c, q) # NoRule)
           <=> \E i \in DOMAIN c.rules : /\ c.rules[i].enabled
                                         /\ PatternMatches(c.rules[i], q.host)
                                         /\ DetailsMatch(c.rules[i], q)
<1>1. (MatchedRule(c, q) # NoRule) <=> Accepting(c, q) # {}
  <2>1. \A i \in Accepting(c, q) : c.rules[i].id # NoRule
    BY DEF Accepting, IsConfig, IsHost
  <2> QED BY <2>1, MatchedRuleIsFirst
<1>2. \A i \in DOMAIN c.rules :
          HostMatches(c, q.host, c.rules[i]) <=> PatternMatches(c.rules[i], q.host)
  <2> TAKE i \in DOMAIN c.rules
  <2>1. IsHost(q.host) /\ IsHost(c.rules[i].base)
    BY DEF IsConfig, IsHost
  <2>2. OnTrie(c, q.host, c.rules[i]) => PatternMatches(c.rules[i], q.host)
    BY <2>1, TrieIsSound
  <2> QED BY <2>2 DEF HostMatches
<1> QED BY <1>1, <1>2 DEF Accepting
=============================================================================
