------------------------------ MODULE MCAdmin -------------------------------
(***************************************************************************)
(* Five rules over the hosts below ex.com: exact rules at two depths, single-*)
(* and multi-level wildcards whose nodes lie on each other's paths.         *)
(***************************************************************************)
EXTENDS Admin

ex == <<"com", "ex">>
api == <<"com", "ex", "api">>
MCLabels == {"com", "ex", "api", "v1", "v2", "www", "meta"} \union Addresses

Rule(id, kind, base, ops, limit) ==
    [id |-> id, enabled |-> TRUE, kind |-> kind, base |-> base,
     from |-> {"agent"}, ops |-> ops, limit |-> limit]

below == Rule("below", "exact", Append(api, "v1"), {"get"}, NoLimit)
star  == Rule("star", "star", ex, {"get"}, 1)

MCPool == {Rule("api", "exact", api, {"post"}, 2),
           Rule("deep", "deep", <<"com">>, {"post"}, NoLimit),
           Rule("near", "deep", api, {"get"}, NoLimit),
           below, star}

MCUpdates == {[enabled |-> FALSE], [id |-> "api", limit |-> 1, enabled |-> TRUE]}

(* Two creations of one id, an update of what the batch created, a          *)
(* replacement, and an operation that fails.                                *)
Operation(operation, id, x) == [operation |-> operation, ruleId |-> id, rule |-> x]
MCBatches == {<<Operation("create", "", star), Operation("create", "", star)>>,
              <<Operation("create", "", below),
                Operation("update", "below", [enabled |-> FALSE])>>,
              <<Operation("delete", "api", <<>>),
                Operation("create", "", Rule("api", "star", <<"com">>, {"get"}, NoLimit))>>}

MCBase == [blockHosts |-> {api \o <<"v2">>}, blockAddresses |-> {}, safe |-> TRUE,
           safeHosts |-> {<<"com", "ex", "meta">>}, safeAddresses |-> {"private"},
           defaultAllow |-> FALSE]

Query(host, op) ==
    [host |-> host, scheme |-> None, port |-> 443, client |-> "agent", op |-> op]
MCQueries == {Query(host, op) : host \in {<<"com">>, ex, api, Append(ex, "www"),
                                          Append(api, "v1"), Append(api, "v2"),
                                          Append(ex, "meta"), <<"private">>},
                                op \in {"get", "post", None}}
=============================================================================
