------------------------------ MODULE RulesApi ------------------------------
(***************************************************************************)
(* The rules API of the admin server (admin/rules-api.ts): it edits the     *)
(* allowlist in force, and rebuilds the trie and the rule limiters from it. *)
(*                                                                          *)
(* A handler awaits the request's body first; from reading the configuration*)
(* to applying the new one it does not await, so each operation is one step.*)
(* Requests that change nothing (reads, /validate, /reload, every error) are*)
(* stuttering steps. What persistRules does is not modelled.                *)
(***************************************************************************)
EXTENDS Allowlist

CONSTANTS
    Pool,       \* the valid rules that clients create
    Updates,    \* what a PUT may carry: records of some fields of a rule
    Batches,    \* sequences of [operation, ruleId, rule]
    MaxRules,
    NoLimit,
    Base,       \* the rest of the configuration: every field but rules
    Queries     \* what the matcher is asked

(* validateRule: what it lets into the configuration, and what it lets      *)
(* change there.                                                            *)
IsRule(x) == /\ {"id", "enabled", "kind", "base", "limit"} \subseteq DOMAIN x
             /\ IsHost(x.base) /\ x.kind \in {"exact", "star", "deep"} /\ x.id # NoRule
IsUpdate(updates) ==
    /\ "base" \in DOMAIN updates => IsHost(updates.base)
    /\ "kind" \in DOMAIN updates => updates.kind \in {"exact", "star", "deep"}

IsOperation(op) == \/ op.operation = "create" /\ IsRule(op.rule)
                   \/ op.operation = "update" /\ IsUpdate(op.rule)
                   \/ op.operation = "delete"

ASSUME RulesApiAssumption ==
    /\ MaxRules \in Nat /\ "rules" \notin DOMAIN Base
    /\ \A x \in Pool : IsRule(x)
    /\ \A updates \in Updates : IsUpdate(updates)
    /\ \A ops \in Batches : ops \in Seq(ToSet(ops)) /\ \A op \in ToSet(ops) : IsOperation(op)
    /\ \A q \in Queries : IsHost(q.host)

VARIABLES rules,    \* the configuration's rules: a sequence
          limiters  \* the ids the rate limiter has a limiter for

rulesVars == <<rules, limiters>>

ConfigOf(rs) == [field \in DOMAIN Base \union {"rules"} |->
                     IF field = "rules" THEN rs ELSE Base[field]]

HasId(rs, id) == \E x \in ToSet(rs) : x.id = id
Without(rs, id) ==
    LET kept[i \in 0..Len(rs)] == IF i = 0 THEN <<>>
                                  ELSE IF rs[i].id = id THEN kept[i - 1]
                                  ELSE Append(kept[i - 1], rs[i])
    IN  kept[Len(rs)]
LimitedIds(rs) == {x.id : x \in {y \in ToSet(rs) : y.limit # NoLimit}}

(* {...rule, ...updates, id}: an id among the updates has no effect.        *)
Merge(x, updates) == [field \in DOMAIN x |-> IF field \in DOMAIN updates \ {"id"}
                                             THEN updates[field] ELSE x[field]]
Updated(rs, id, updates) ==
    [i \in DOMAIN rs |-> IF rs[i].id = id THEN Merge(rs[i], updates) ELSE rs[i]]

-----------------------------------------------------------------------------
(* Variant of OperationFails: a batch does not look for duplicates.         *)
OperationFailsUnlessCreate(rs, op) == op.operation # "create" /\ ~HasId(rs, op.ruleId)

(* A batch works on its own copy of the rules; what fails is passed over.   *)
OperationFails(rs, op) == IF op.operation = "create" THEN HasId(rs, op.rule.id)
                                                     ELSE ~HasId(rs, op.ruleId)

ExecuteBatchOperation(rs, op) ==
    IF OperationFails(rs, op) THEN rs
    ELSE CASE op.operation = "create" -> Append(rs, op.rule)
           [] op.operation = "update" -> Updated(rs, op.ruleId, op.rule)
           [] op.operation = "delete" -> Without(rs, op.ruleId)

BatchResult(rs, ops) ==
    LET after[i \in 0..Len(ops)] == IF i = 0 THEN rs
                                    ELSE ExecuteBatchOperation(after[i - 1], ops[i])
    IN  after[Len(ops)]

(* Variant of ApplyConfig: the limiters are not cleared first.              *)
ApplyConfigUncleared(rs) == rules' = rs /\ limiters' = limiters \union LimitedIds(rs)

(* applyConfig: matcher.reload, limiter.clear, limiter.registerRules.       *)
ApplyConfig(rs) == rules' = rs /\ limiters' = LimitedIds(rs)

-----------------------------------------------------------------------------
RulesInit == rules = <<>> /\ limiters = {}

Create(x) ==
    /\ ~HasId(rules, x.id)
    /\ Len(rules) < MaxRules
    /\ ApplyConfig(Append(rules, x))

Update(id, updates) == HasId(rules, id) /\ ApplyConfig(Updated(rules, id, updates))

Delete(id) == HasId(rules, id) /\ ApplyConfig(Without(rules, id))

Batch(ops) == ApplyConfig(BatchResult(rules, ops))

RulesNext == \/ \E x \in Pool : Create(x)
             \/ \E id \in {x.id : x \in Pool} : \/ \E updates \in Updates : Update(id, updates)
                                                \/ Delete(id)
             \/ \E ops \in Batches : Batch(ops)

RulesSpec == RulesInit /\ [][RulesNext]_rulesVars

-----------------------------------------------------------------------------
(* Matchers and limiters are kept per id, so no sequence of operations, and *)
(* no operation within a batch, may make two rules of one; and after any    *)
(* edit the limiters are those of the rules in force: a deleted rule leaves *)
(* none behind, an updated one is limited from now on.                      *)
LimitersInStep ==
    /\ \A i, j \in DOMAIN rules : rules[i].id = rules[j].id => i = j
    /\ limiters = LimitedIds(rules)

(* The trie with its fallback finds a rule exactly where some enabled rule's*)
(* pattern accepts the host and its details accept the request - whatever   *)
(* other rules put nodes on the trie's paths.                               *)
TrieDecides ==
    \A q \in Queries :
        (MatchedRule(ConfigOf(rules), q) # NoRule)
        <=> \E x \in ToSet(rules) : x.enabled /\ PatternMatches(x, q.host) /\ DetailsMatch(x, q)
=============================================================================
