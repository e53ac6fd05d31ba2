--------------------------- MODULE MCRequestGate ---------------------------
(***************************************************************************)
(* A small proxy: one name, one literal address, one client, two            *)
(* configurations, and two requests of any of the six kinds below.          *)
(***************************************************************************)
EXTENDS RequestGate

api == <<"com", "ex", "api">>
MCLabels == {"com", "ex", "api"} \union Addresses

Request(kind, host, port, op) ==
    [kind |-> kind, host |-> host, port |-> port, client |-> "agent", op |-> op]

(* One of each handler to the name, an intercepted request no rule accepts, *)
(* and a tunnel to a literal address.                                       *)
MCAsks == {Request("connect", api, 443, "get"), Request("http", api, 80, "get"),
           Request("websocket", api, 80, "get"),
           Request("mitm", api, 443, "get"), Request("mitm", api, 443, "post"),
           Request("connect", <<"public">>, 443, "get")}

MCAnswers == {<<"public">>, <<"public", "private">>, <<"backup">>}

Rule(id, kind, base, ops, limit) ==
    [id |-> id, enabled |-> TRUE, kind |-> kind, base |-> base,
     from |-> {"agent"}, ops |-> ops, limit |-> limit]

Config(rules, blocked, safe, default) ==
    [rules |-> rules, blockHosts |-> {}, blockAddresses |-> blocked,
     safe |-> safe, safeHosts |-> {}, safeAddresses |-> {"private"},
     defaultAllow |-> default]

(* strict permits gets of the subdomains, once a minute, and blocks private *)
(* addresses; lax permits everything but the backup address.                *)
MCContent ==
    [strict |-> Config(<<Rule("tight", "star", <<"com", "ex">>, {"get"}, 1)>>, {}, TRUE, FALSE),
     lax    |-> Config(<<>>, {"backup"}, FALSE, TRUE)]

MCConfigs == DOMAIN MCContent
=============================================================================
