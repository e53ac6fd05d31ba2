# Verification of ts-agent-proxy

TLA+ models of ts-agent-proxy, an egress proxy that decides which hosts an agent may
reach: what is modelled, what TLC checks on small instances, and what TLAPS proves for
all of them. Paths below are relative to the repository's `src/`.

    tlc -workers 2 -config MCRequestGate.cfg MCRequestGate     one run
    tlapm RequestGate_proofs.tla                               one proof

## The system

A request comes in on one of four ways, is decided, and is dialled:

| Component | State it keeps | Operations |
| --- | --- | --- |
| `filter/allowlist-matcher.ts`, `domain-trie.ts`, `domain-matcher.ts` | the configuration, the trie and pattern matchers compiled from it, a DNS cache (30 s, 10000 entries) | `match`, `isDomainAllowed`, `resolveAndCheckHost`, `reload` |
| `filter/rate-limiter.ts` | a limiter per rule with a rateLimit and a default one; points per key and minute | `consume`, `registerRules`, `clear` |
| `proxy/connect-handler.ts` | per tunnel: two sockets, a connect timer, an idle timer, a promise | `handleConnect`, `createTunnel` |
| `proxy/websocket-handler.ts` | per upgrade: two sockets; `activeConnections` | `handleUpgrade`, `proxyWebSocket` |
| `proxy/forward-proxy.ts` | per request: timers, a promise; the connection pool | `handleRequest`, `forwardRequest`, `destroy` |
| `proxy/mitm/interceptor.ts`, `http-parser.ts` | per TLS session: parser, `isProcessing`, request timer; per request: upstream timers | `handleConnect`, the data/complete/error handlers, `forwardRequest` |
| `server.ts`, `index.ts` | `isRunning`, `isShuttingDown`, the set of client connections, the force timer | `start`, `stop`, `reloadAllowlist`, `main` |
| `admin/admin-server.ts` | its connections, audit streams among them; a ring buffer of entries | `start`, `stop`, `handleRequest`, `handleAuditStream` |
| `admin/rules-api.ts` | none: it edits the matcher's configuration | create, update, delete, batch |
| `cli/run.ts`, `pidfile.ts`, `tail.ts` | a process with a child, a grace timer and a shared pidfile | `runUnderProxy`, `orchestrateLifecycle`, `checkForLiveRun`, `resolveAdminUrl` |
| `cli/ca-cache.ts`, `proxy/mitm/cert-manager.ts` | two files and a lock file, shared by processes | `ensureCa`, `loadCa` |
| `logging/*`, `filter/secret-detector.ts` | audit subscribers, a file with its rotated ones, webhook batches, the logging level | `logRequest`, `subscribe`, `rotate`, `sendBatch`, `close`, `detectSecrets`, `redact` |
| `proxy/grpc-handler.ts`, `proxy/grpc-web-handler.ts` | upstream HTTP/2 sessions per target, timers, active streams | `handleStream`, `handleRequest`, `getUpstreamSession`, `closeAll` |
| `proxy/circuit-breaker.ts` | per key: state, failures, successes, slots of the half-open state | `canExecute`, `recordSuccess`, `recordFailure`, `forceState`, `reset` |
| `filter/connection-limiter.ts`, `proxy/multi-tenant.ts` | counts of connections per address and per tenant | `canAccept`, `track`, `addTenant`, `removeTenant`, `resolveTenant` |
| `utils/lru-cache.ts` | the certificates of intercepted hosts, in order of use | `get`, `set`, `prune` |
| `config/watcher.ts` | last modification time, debounce timer | `start`, `reload`, `stop` |
| `filter/ip-matcher.ts`, `admin/auth.ts` | ranges of addresses | `matches`, `matchesIpWithExclusion`, `isIpAllowed` |
| transformers, `proxy/grpc-parser.ts`, metrics, telemetry, WASM, profiles | little or none | codecs, counters, tables |

The gRPC handlers, the circuit breaker, the connection limiter, the tenants and
`admin/rules-api.ts` are library components that neither `server.ts` nor its admin server uses:
they are modelled as their interfaces let an embedder use them.

Handlers run on one event loop: between two awaits nothing else happens, and at an await
everything may - above all a reload. Processes of the CLI share files and interleave
between any two file operations. What is hard, and what the properties are aimed at:

* the allowlist is reloaded while handlers await DNS, the limiter or the request inside a
  TLS session: verdict, rule, address and limiter of one request come from different
  configurations;
* promises, timers and close events of two sockets settle each other in any order, and the
  client can leave before anybody listens;
* names that are dialled as names, so that what they stand for is decided after the checks;
* shutdown during the start, with requests in flight, new tunnels during it, clients of the
  admin server that never end;
* signals at any moment of a run's startup and shutdown, crashes, stale pidfiles and locks;
* two indexes (trie and patterns, rules and limiters) that must say the same;
* results that arrive in another state than the one they belong to: calls through a circuit
  that has changed, connections of a tenant that was removed, the close of a session that has
  been replaced;
* files that are renamed, written and watched at the same time;
* messages cut into pieces anywhere, offsets into a text that is being changed.

`PROJECT.json` lists each hazard at its line with the properties that cover it.

## Modules

| Module | Models | Extends |
| --- | --- | --- |
| `Allowlist` | the decision functions: trie, patterns, `Match`, the check of resolved addresses | |
| `EgressPolicy` | abstract: what the proxy promises of every request | |
| `RequestGate` | the four handlers up to the dial, the DNS cache, the limiters, reloads | `Allowlist`; instantiates `EgressPolicy` |
| `RulesApi` | edits of the rules in force, and the limiters they leave | `Allowlist` |
| `Tunnels` | CONNECT and WebSocket tunnels from the dial on, their audit records | |
| `ForwardRequest` | forwarded requests: socket pool, timers, limits, answer and audit records | |
| `GrpcHandler` | gRPC streams and the upstream sessions they share | |
| `GrpcWeb` | gRPC-Web requests, read to their end and then sent upstream | |
| `MitmSession` | one TLS session: timers, the request it serves, what the client reads | |
| `HttpParser` | the parser of such a session, unit by unit | |
| `AuditStream` | the ring buffer and the audit streams of the admin server | |
| `Webhook` | the webhook destination: batches, retries, close | |
| `AuditLog` | the audit logger that gives every entry to both | `AuditStream`, `Webhook` |
| `Admin` | what the admin server edits and what it is sent | `RulesApi`, `AuditLog` |
| `FileDestination` | the rotated log file and its streams | |
| `Scrubbing` | what of a request gets into an audit entry, and what is taken out of it | |
| `ProxyServer` | start, connections and graceful shutdown of proxy and admin server | |
| `RunCommand` | processes of `run` with child, signals, pidfile and clients of the admin server | |
| `CaCache` | processes that provision one CA cache | |
| `ConfigWatcher` | the allowlist file, those who write it, and the process that watches it | |
| `CircuitBreaker` | the circuit of one key, and the calls through it | |
| `ConnectionLimiter` | connections counted per address and in total | |
| `MultiTenant` | tenants, and the connections counted against them | |
| `CertCache` | the certificates of hosts over the LRU cache | |
| `IpRanges` | ranges of addresses, of rules and of the administration | |
| `MCRequestGate`, `MCAdmin` | values for TLC | `RequestGate`; `Admin` |
| `MCConnections`, `MCFiles`, `MCLimits`, `MCData` | independent components in one run | see below |
| `ProofLemmas` | what the proofs share: induction, division, recursive functions, sequences | TLAPS |
| `Allowlist_proofs` | theorems about the decision functions | `Allowlist`, `ProofLemmas` |
| `RequestGate_proofs` | theorems about `RequestGate` | `RequestGate`, `Allowlist_proofs` |
| `Server_proofs` | theorems about the server, `run`, and `Admin` with its components | `ProxyServer`, `RunCommand`, `Admin`, `Allowlist_proofs` |
| `Connections_proofs`, `Files_proofs`, `Limits_proofs` | theorems about the components of `MCConnections`, `MCFiles`, `MCLimits` | that module, `ProofLemmas` |
| `Data_proofs` | theorems about the components of `MCData` | `HttpParser`, `MitmSession`, `IpRanges`, `Scrubbing`, `ProofLemmas` |

`Admin` and the four `MC` modules of the second row put components side by side that share no
state: what the admin server does, the ways to an upstream, what works on files, what counts
against a limit, and what reads data. A variable `part`,
chosen at the start, says which of them a behaviour exercises, so that the state space is the
sum of theirs and not the product. The variables of such a component, its specification and its
type invariant carry its name (`TunnelInit`, `CaTypeOK`), as do those of `ProxyServer` and
`RunCommand`. The fairness of a component is repeated
under the condition that it is its part: elsewhere it stands still.

How state corresponds to code, where it is not one variable for one field:

* `Allowlist`: a host is its labels from the right, as the trie stores it; an address is a
  host of one label. A rule's `ops` and `from` are the path-and-method pairs and the clients
  it accepts, in place of globs, methods and address ranges. A node of the trie exists where
  an enabled rule was inserted at or below it, so the trie is a function of the
  configuration. Labels are letters, digits and hyphens: with other characters the patterns
  refuse what the trie may accept, and `HostMatches` would still be their union.
* `RequestGate`: one action from one await to the next. `pc` is the await a handler is at,
  `rule` and `address` are the locals it holds across it. `used` holds the points of the
  current windows as <<limiter, key, request>>; a count is a cardinality. `seen` is history:
  the configurations in force since the request came in, and so is `failed`, the requests whose
  lookup failed. A forward proxy request has an
  `http:` URL here; one with an absolute `https:` URL differs in the scheme only.
* `RulesApi`: from reading the configuration to applying the new one no operation awaits, so
  each is one step, and refused requests are stuttering.
* `MitmSession`: `parts` counts chunks of an unfinished request, `dripping` says that the
  client sends faster than the request timeout; `replies` is what reaches the client.
  Allowlist and limiter decide arbitrarily.
* `HttpParser`: a unit is a carriage return, a line feed, a byte of a body, or what tells one
  line from another; every unit has length 1. A message is what its sender means, `Text` what
  it writes; the parser sees only that. One action adds a piece of any length; then each round
  of `parse()`'s loop is an action, until `parsing` is over.
* `Tunnels`: `heard` holds the tunnels whose handler attached its listeners while the client
  was still there. The close events of sockets that a step destroys are part of the step.
* `ForwardRequest`: `answer` is what the client reads: "partial" is a head and some of the
  body, "ending" that all of it is in the limiting stream, "spoiled" a body with the JSON of
  an error behind it, "cut" one that nobody ends. `kept` holds the requests on a kept-alive
  socket. All requests go to one origin.
* `AuditStream`: entries are numbered; `wire` is everything written to a stream, `unread`
  what its socket still holds. A replay writes all it can in one step.
* `Webhook`: `finished` holds the batches whose promise has settled, either way.
* `GrpcHandler`: `via` is the session of a stream. A stream that was destroyed without an error
  may or may not emit `end`, which depends on whether it has been read to its end: both happen.
  `GrpcWeb` has such sessions too, of which it follows only whether they live; `down` is an
  exception nobody catches.
* `FileDestination`: position 0 is the file, position i the file `path.i`; a stream writes to a
  position, which moves with the file it opened. Entries have size 1.
* `ConfigWatcher`: a file's content is the number of the write that made it. The two halves of
  a reload (modification time, content) are two steps, since another process may write between
  them.
* `Scrubbing`: characters are what the patterns tell apart: two or more `s` are a key, `st` a
  secret of another pattern, `t` a secret behind a `b` within the context window.
* `CircuitBreaker`: `trial` is a call admitted in the present half-open period, `plain` any
  other; `due` says that `resetTimeout` has passed. Failures leave the window one by one.
* `MultiTenant`: `former` is a connection of a tenant removed since; `stray` counts those that
  ended on its successor.
* `CertCache`: the map's insertion order, which the code keeps as the order of use, is a
  sequence; time is counted in ticks.
* `ProxyServer`: `early` says that stop() found start() under way. `half` holds the sockets on
  which `socket.end()` was called, `cut` is history: requests whose answer the shutdown lost.
  `admin` has the connections of the admin server: "pending" is one that has sent nothing or a
  part of a request, "stream" an audit stream.
* `RunCommand`: `requested` is `shutdownRequested`, `forwarded` is `secondSignalSeen`. `held`
  holds the processes whose admin server has an unfinished connection, of `tail` or of any other
  client; a process that is signalled while it starts is "withdrawing" until `stop()` settles.
* `CaCache`: a file's content is the process that wrote it.

Modelled from their use, as external: Node's `http.Server` (its `close()` closes idle
connections and waits for the rest, tunnels included), Node's `http.Agent` (free sockets, the
queue), and the death of a process.

## Runs

| Run | Instance | Shows |
| --- | --- | --- |
| `gate` | 2 requests of 6 kinds, 2 configurations, 3 DNS answers, a cache of one entry, limits of 1 | `ImplementsPolicy`: a request is granted only if some configuration in force since it came in permits it, is sent only to an address some such configuration allows, and is refused only with a reason; only an upgrade and a request whose lookup failed are sent to a name. `ClientQuota`. `RequestSettles` |
| `gate_rebinding` | 1 request, the same configurations and answers | **violated**: `RebindingBlocked` |
| `admin` | up to 2 rules of a pool of 5, updates, 3 batches, 24 queries; 1 stream, 3 entries, pause at 2 unread items, end at 2 drops; webhook batches of 2, 1 retry | `LimitersInStep` (ids are unique, and the limiters are those of the rules), `TrieDecides` (trie and patterns agree whatever else is on the trie); `GapsAreMarked` (whoever adds up what a stream shows knows which entry is which), `CloseFlushes`, `SinksCatchUp` (posts come to an end, a paused stream is resumed) |
| `mitm_keep_alive` | one session, without pipelining | **violated**: `KeepAlive` |
| `server` | 3 connections of the proxy, 2 of the admin server, stop() at any time | `Drained` (nothing is left open, unless stop() came during the start), `StopSettles` (unless a connection of the admin server stays unfinished) |
| `server_in_flight` | 2 connections | **violated**: `InFlightCompletes` |
| `cli` | 3 processes | `PidfileNamesRun`, `NoChildLeft`, `SignalEndsRun` (unless a client of the admin server holds it) |
| `cli_grace` | 1 process | **violated**: `GraceGiven` |
| `files` | 3 processes, 2 attempts at the lock, any initial CA cache; 6 entries in files of 2, two of them kept; a file written 3 times | `OnePair`, `UsableStays`, `EnsureSettles`; `Retention` (the files hold the end of the log, in order); `WatcherCatchesUp` (what was written last is in use in the end) |
| `connections` | 2 tunnels of either kind; 2 requests, 1 socket, 1 free socket; 2 gRPC streams, 2 sessions; 2 gRPC-Web requests | `SocketsPaired`; `BooksTruthful` (no record contradicts what happened, none is written twice, the active WebSockets are connected); `SessionsTracked`; `QuietTunnelsEnd`, `ForwardedRequestsEnd`, `GrpcRequestsEnd` |
| `limits` | 3 calls, thresholds and slots of 2; 4 sockets of 2 addresses, limits of 2; 2 tenants, 3 connections; 3 domains in a cache of 2 | `SlotsBalance`, `RecoveryEarned`, `CountsBalance`, `LruContract` |
| `data` | a session of 3 requests; 337 messages of up to 30 units in pieces of any size; texts of up to 6 characters; addresses of 4 bits | `ServedRequestAnswered`; `ParsedAsWritten`; `EntryScrubbed`; `RangesExact` |

`TypeOK` of a run (`ServerTypeOK`, `RunTypeOK`) is the type invariant of its modules, or their
conjunction; it carries the constraints between variables that are nobody's property (when a
timer may run, which process may have a child). `SessionTypeOK` also says that a request in
service is never timed out. Each property is shown to be falsifiable: `PROJECT.json` names for
it a variant of a definition (the operators marked "Variant of") under which TLC finds it
violated.

### Bounds

Two requests are enough for `gate`: they interact through the limiter of one key and through
the cache, where one fills or empties what the other uses; a cache of one entry makes the cap
bite with the one name there is. A limit of 1 makes the second request the one over it. The
theorems lift the safety properties to any number. In `admin` the disagreements of trie
and patterns need a wildcard and one rule that puts a node on its path: two rules.
The CA cache and `cli` need a third process: one dies, two act on what it left. A third request
of a session can only be dropped like the second. Two tunnels show that one tunnel's counting
does not disturb the other's. One upstream socket makes the second request queue, take over a
kept-alive socket or get a new one. In `admin` streams do not interact, so one is enough; three
entries pause it, overflow it and follow a marker. `HistorySize` equals `MaxDrops`, as the
defaults (1000) do.

Two gRPC streams and two sessions are the least in which a session's close meets its successor's
entry; a third stream would repeat the second. In `files` six entries rotate three times, so that
the oldest file is removed while older streams still write; a third write of the watched file
falls between the halves of a reload caused by the second. `FileAssumption` asks for at least
two files, since with one the code keeps the full file for ever as `path.1` and overwrites it.
In `limits` three calls are two trials and a late one, two slots are enough for one to be lost
and one used; a third socket of an address is the one over its limit. Messages in `data` have
every pair of the headers the parser looks at, bodies that hold parts of a line end, and
limits below and above what they need. Two octets of two bits have every prefix length within an
octet, at its end and at both ends of the width; nothing in the code depends on 8 or on 32 but
the shift by the width, which is modelled modulo the width.

### Fairness

Weak fairness of steps that the event loop, a timer or the kernel takes by itself: awaited
lookups and limiter calls settle (`Progress`), timers expire (`RequestTimeout`, `TunnelTimers`,
`ConnectTimeout`, `ResponseTimeout`, `SocketTimeout`, `GraceEnds`, `ForceShutdown`), callbacks
of finished operations run (`Drain`, `AdminStops`, `Finalize`, `Exit`, `Withdraw`), the admin
server answers what it was sent (`AdminAnswers`) and closes a connection that idles (Node's
keep-alive timeout), a dial succeeds or fails, a process in `ensureCa` goes on, and what was
sent SIGKILL exits. Nothing is assumed of clients, those of the admin server included, of
operators, of upstreams that have been reached (except in `MitmSession`, where the upstream
request has an inactivity timeout in each of its stages), or of children that ignore signals. A
forwarded request's client that stays reads on (`Drains`), and in `admin` clients read and the
endpoint answers: a dead endpoint is waited for without a timeout. Of gRPC only the request
timers and the errors of destroyed streams are fair. The watcher's file system delivers the
events of the file it watches (`WatcherProgress`), and time passes (`Tick`). `limits` has no
liveness.

`CHECK_DEADLOCK FALSE` stands where the system ends: a session, a server, a run, a finished
provisioning, closed tunnels, a closed audit log, a message that was read. `gate` and `limits`
check for deadlock.

## What the runs found

Four documented promises do not hold; each has a run whose counterexample shows it:

* a name that resolves to a blocked address is dialled if the request is a WebSocket upgrade,
  which is never looked up (`websocket-handler.ts:202-217`), or if the lookup failed
  (`allowlist-matcher.ts:351-353`) and the dial's own succeeds; line 89 of the
  repository's `README.md` and `safe-defaults.ts:7-9` say that DNS rebinding is blocked;
* a second request on an intercepted keep-alive session is never answered, as `isProcessing`
  is not reset (`interceptor.ts:171-172`, `273-276`);
* `stop()` loses the answers of requests in flight instead of waiting for them
  (`server.ts:209`, `227`, `264-268`);
* the first Ctrl-C kills the child without its grace time, since it is forwarded twice
  (`run.ts:326`, `358-361`).

`PROJECT.json` lists further disagreements between text and code met on the way; of those of the
library components the heaviest are that a gRPC-Web request can end the process
(`grpc-web-handler.ts:308`), that gRPC statuses are not passed on (`grpc-handler.ts:395`,
`grpc-web-handler.ts:342`), and that secrets stay in what is logged with headers
(`audit-logger.ts:598`). The passing properties are worded so that they hold of the code as it
is; their exceptions (a WebSocket's separate quota, a name dialled unresolved, a stop during the
start, after which tunnels and upgrades are served for good (`server.ts:309-338`), an unfinished
connection of the admin server, a death in the middle of a CA renewal, a client that left before
the dial, a response found too long after its end, batches under way at `close()`, late results
of a circuit, a forced state, connections of a former tenant, a file rotated before it was
opened, a write during the start, a displaced session, a session that timed out, headers logged
with a path, secrets that overlap, a request line over its limit) are the places to look at.

## Proofs

`Allowlist_proofs` proves, for any labels, addresses and configuration that passed validation
(`IsConfig`): what the trie hands out, the pattern accepts (`TrieIsSound`); `TrieDecides`'s
equivalence for every query (`TrieDecidesAlways`); and that `MatchedRule` is a rule that
accepts and that no accepting rule is tried before (`MatchedRuleIsFirst`; the trie's ranks
are naturals, so that there is a first one).

`RequestGate_proofs` proves, from `GateAssumption`, for any requests, configurations,
answers and limits:

* `TypeCorrect`: `Spec => []TypeOK`;
* `QuotaHolds`: `Spec => []ClientQuota`;
* `Implementation`: `Spec => ImplementsPolicy`, by the mapping at the end of `RequestGate`. A
  grant to an address needs that a configuration in `seen` allows the address; a grant to the
  name needs that the request is an upgrade or that its lookup failed.

All three rest on `Invariant`, the induction on `TypeOK /\ Justified /\ Accounted`.
`Justified` is needed because the verdict of a request rests on checks made several awaits
ago: it says that what the handler holds was right under some configuration in `seen` - the
ask while it waits for DNS, the address while it waits for the limiter - and that the current
configuration is among them, so that the next check may be added. `Accounted` is needed
because `ClientQuota` counts requests while the limiter counts points: each point on the
books is that of a decided request under the key of its rule, and of each key no more were
let through than the limiter of the configuration in force has. A reload that changes a limit
empties the books of that limiter, which is why the bound survives it.

`Server_proofs`, from the assumptions of its components:

* `ServerTypes`, `ShutdownDrains`: `ServerInv` adds that before start() settles there is no
  traffic (`Unstarted`), and that a stop() that found the server running waits, and one that
  came too early does not (`Ordered`); without it a connection could be accepted behind it. Of
  a stop() that came too early `Drained` says nothing: tunnels are opened after it.
* `RunTypes`, `PidfileIsSound`, `ChildEndsFirst` (`RunAssumption`: no process has the name of
  nobody). The three are inductive together: it takes the type invariant to know that a process
  without a child has not started, and the pidfile's to know that a process that starts does so
  alone.
* `RulesAreSound`, `RulesDecide` (`RulesApiAssumption`): any sequence of single edits and batches
  keeps ids unique and the limiters those of the rules (`LimitersInStep`), and with
  `TrieDecidesAlways` the trie decides as the patterns do. What a batch folds to is followed
  operation by operation, with `InductionOnNat`: induction over the naturals, stated for a set in
  place of a predicate.
* `AuditIsSound` (`StreamAssumption`, `WebhookAssumption`): for any number of streams.
  `StreamInv` needs that the ring buffer holds consecutive entries, that a stream that is not
  paused has dropped nothing it has not told, and what the items on a wire add up to (`Covered`);
  `HookInv`, that what close() waits for is under way or settled.
* `AdminIsSound`, `TypeCorrect`: the five invariants of the run `admin`.

`Data_proofs`, from the assumptions of its four components:

* `MessagesAreParsed`: `ParsedAsWritten`, for any limits and any messages (`IsMessage`: any
  number of headers, of chunks and of trailers; a chunk has one to four units, as far as `Digits`
  goes), however they are cut. `ParserInv` ties what the parser has to the whole message: the
  buffer holds the text from some position to what was written (`Buffered`), that position is
  where the next header, chunk or trailer begins, or inside the content, and the headers and the
  body taken so far are those of the parts before it (`Located`, by `Seen`, `InHead`,
  `InContent`, `InChunk` and their kind); what is complete is as it was meant (`TakenAsMeant`),
  and an error has a reason (`Refused`). Positions are lengths of what is joined (`Joined`),
  since the text is a concatenation of parts of different lengths. Per round of `parse()` there
  is a lemma: a line that is found is the one that was written (`LineIs`: nothing that is meant
  to be on a line ends one), and what stands in the place of a chunk's CRLF is not taken for one
  if it is none (`EndFollows`), for which `IsMessage` asks that it does not begin with one. When
  `parse()` has returned, nothing in the buffer could have been parsed further (`Waits`); that is
  why nothing is awaited after a message's end. Two definitions were rewritten for the proof: the
  first `Content-Length` of any number of headers is chosen by its place instead of being
  filtered out, and what a header sets is no longer a `CASE` whose guards overlapped, which left
  the choice open.
* `SessionTypes`: `SessionInv` adds what may still be written. To a session that was ended
  nothing is, and one that was not has, until its one request is answered, no answer at all.
* `RangesAreExact`: the property speaks of the multiple of a range's size an address lies in,
  where the rules compare under a mask of bits and the administration octet by octet. `And` is
  a recursive function over the bits; a mask drops the last ones (`AndOfMask`), so that masked
  addresses are equal exactly if those multiples are (`MaskedSame`). Equal multiples have equal
  whole octets, and the other way round if the prefix ends with an octet (`OctetsCompared`).
* `EntryIsScrubbed`: replacing from the right, what was found at a position is still there when
  its turn comes (`TextRemains`): after each step the text is as it was up to that position -
  or, inside a range, up to the end of the range - and clean behind it. That takes disjoint
  ranges; with others `redact()` cuts into its own placeholders, as the property says.

`Files_proofs`, from the assumptions of the three components:

* `CaIsOnePair` and the action property `UsableCaStays`. While nobody has died the lock has one
  holder and nobody steals it (`OneHolder`), so what is on disk is a pair but for the moment
  between its two files (`PairFiles`), and so is what each process has loaded (`PairLoaded`).
* `LogEndIsKept`: `LogInv` says of the entries, wherever they are - in a file that has moved any
  number of times, in a stream's buffer - that each is there once (`Once`), in order (`InOrder`,
  `Placed`, `Pushed`) and that none but the oldest is missing (`Kept`). All but `Once` hold until
  a file is rotated before it was opened (`hasty`), the exception of `Retention` itself. It is
  the longest proof: a rotation renames every file while streams hold what is still to be
  written.
* `WatcherTypes`, and `FilesAreSound` and `TypeCorrect` of all three.

`Connections_proofs`, for finite sets of tunnels, streams and requests:

* `TunnelsAreSound`: `TunnelInv` ties the stage of a tunnel to its sockets and timer
  (`Staged`), its records to what its client was told (`Recorded`), and the count of active
  WebSockets to the tunnels it counts (`Countable`).
* `ForwardIsSound`: `PoolInv` says who holds, waits for or keeps a socket; `Told`, what has been
  answered and recorded in each state.
* `GrpcIsSound`, `WebTypes`: the counts are cardinalities; an open session is the one in the
  map unless a later one displaced it.
* `ConnectionsAreSound`, `TypeCorrect`: all of it together.

`Limits_proofs`, from the assumptions of the four components:

* `TrialsAreBounded`, `RecoveryIsEarned`, `BreakerTypes`: in `BreakerInv`, a threshold that is
  reached changes the state in the same step (`EntrySound`), there are no trials outside a
  half-open period (`PeriodSound`), and every trial holds a slot except one for each late
  result (`SlotsSound`).
* `LimiterCounts`: the count is that of the sockets that own a place, which is why a socket may
  end three times.
* `TenantsDriftByStrays`: `TenantInv` bounds strays and former connections together by the
  connections there are.
* `LruKeepsTheLast`: `CertInv` says that what is kept is in the order it was asked for, and what
  is not kept expired or has `MaxSize` later ones (`LruInv`). The operations on the map are
  recursive functions; lemmas say what each returns (`KeepingIs`, `DeleteIs`, `InsertIs`).
* `LimitsBalance`, `TypeCorrect`: the five invariants of the run `limits`.

The assumptions are those the modules state of their constants, as the code's defaults and
validation give them: bounds are naturals, sizes are not 0, and what is counted is finite.
`MaxSent`, `MaxEntries`, `MaxWrites` and the like bound runs; the theorems hold for every value.

Only model-checked: all liveness and `RequestSettles`, `StopSettles` and their kind, which rest
on fairness and `ENABLED`. Every invariant of every run has a theorem. The four expected
violations are TLC's.

## Not modelled

See the components in `PROJECT.json`. In short:

* the transformers of headers and bodies and the size limits (sequential transformations of one
  message; that a limit is exceeded is an event of `ForwardRequest`), the framing of gRPC, the
  matchers of gRPC methods and MCP calls (predicates; `GrpcHandler` and `GrpcWeb` reject
  arbitrarily), telemetry, metrics, the WASM bridge and the profiles: they keep little or no
  state, and nothing interleaves with them;
* the wording of configurations, of error answers and of records, and what is in a certificate;
* `AuditLogger.close()` as the sequence of its destinations, the console and callback
  destinations, PII patterns, and the cap of 64 KB on a scan for secrets;
* of `admin/auth.ts` the comparison of tokens, the patterns that are no IPv4 range, and with
  them the special case of the loopback address (`auth.ts:179-192`), and lists of more than one
  range;
* a generation of the CA that throws between its two files without a death
  (`ca-cache.ts:173-187`), write errors of the log, callbacks of the circuit breaker that throw,
  what the callback of `index.ts` does with a reloaded configuration, and the headers of
  responses in `Scrubbing`;
* statistics everywhere (`stats`, `resetStats`, totals and latencies), except the counts a
  decision rests on;
* the content of a chunked body in `MitmSession`, which may drip for ever: `HttpParser` has its
  limits.

## Plan

1. Done: all components with state of their own; a theorem for every safety property of every
   run.
2. Open: the framing of gRPC and the transformers, as functions on sequences of units like those
   of `HttpParser`.
3. Out of reach of the prover: liveness.
