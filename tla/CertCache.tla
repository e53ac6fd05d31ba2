----------------------------- MODULE CertCache -----------------------------
(***************************************************************************)
(* The certificates the proxy makes for intercepted hosts:                 *)
(* src/proxy/mitm/cert-manager.ts over src/utils/lru-cache.ts, a map in    *)
(* order of use with a size limit and a time to live that starts when an   *)
(* entry is made.                                                          *)
(***************************************************************************)
EXTENDS Integers, Sequences, SequencesExt

CONSTANTS Domains,
          MaxSize,  \* cacheConfig.maxSize; 0 would make set loop for ever
          Ttl,      \* cacheConfig.ttlMs in ticks, 0 for none
          Prewarm   \* prewarmDomains, in their order

ASSUME CacheAssumption == /\ MaxSize \in Nat \ {0}
                          /\ Ttl \in Nat
                          /\ Prewarm \in Seq(Domains)

VARIABLES
    cache,    \* the domains cached, least recently used first
    age,      \* the age of each certificate made, up to Ttl + 1
    recency,  \* all domains ever asked for, least recently first (history)
    served    \* the age of the certificate last handed out (history)

certVars == <<cache, age, recency, served>>

Cached == ToSet(cache)

Expired(d) == Ttl # 0 /\ age[d] > Ttl

\* The keys of a map that are in live, in the map's order.
Keeping(order, live) ==
    LET kept[i \in 0 .. Len(order)] == IF i = 0 THEN <<>>
                                       ELSE IF order[i] \in live THEN Append(kept[i - 1], order[i])
                                       ELSE kept[i - 1]
    IN  kept[Len(order)]

\* Map.delete.
Delete(order, d) == Keeping(order, ToSet(order) \ {d})

Touch(order, d) == Append(Delete(order, d), d)

\* Variant of MoveToEnd: the map keeps its insertion order.
MoveNot(order, d) == order

\* LruCache.get, on a hit.
MoveToEnd(order, d) == Touch(order, d)

\* LruCache.set: the key moves to the end, the first ones make room for it.
Insert(order, d) ==
    LET others == Delete(order, d)
        room == IF Len(others) < MaxSize THEN others
                ELSE SubSeq(others, Len(others) - MaxSize + 2, Len(others))
    IN  Append(room, d)

\* initialize() pre-warms the cache before any connection is accepted.
PreWarmed ==
    LET warm[i \in 0 .. Len(Prewarm)] ==
            IF i = 0 THEN [cache |-> <<>>, recency |-> <<>>]
            ELSE [cache |-> Insert(warm[i - 1].cache, Prewarm[i]),
                  recency |-> Touch(warm[i - 1].recency, Prewarm[i])]
    IN  warm[Len(Prewarm)]

CertInit == /\ cache = PreWarmed.cache
            /\ age = [d \in Domains |-> 0]
            /\ recency = PreWarmed.recency
            /\ served = 0

-----------------------------------------------------------------------------
\* generateCertForDomain: a certificate from the cache, or a new one.
Hit(d) == d \in Cached /\ ~Expired(d)

GenerateCert(d) ==
    /\ IF Hit(d) THEN /\ cache' = MoveToEnd(cache, d)
                      /\ UNCHANGED age
                 ELSE /\ cache' = Insert(Delete(cache, d), d)
                      /\ age' = [age EXCEPT ![d] = 0]
    /\ recency' = Touch(recency, d)
    /\ served' = age'[d]

PruneCache == /\ cache' = Keeping(cache, {d \in Domains : ~Expired(d)})
              /\ UNCHANGED <<age, recency, served>>

ClearCache == /\ cache' = <<>> /\ recency' = <<>>
              /\ UNCHANGED <<age, served>>

\* Ages beyond Ttl + 1 are all alike.
CertTick == /\ Ttl # 0
            /\ age' = [d \in Domains |-> IF age[d] <= Ttl THEN age[d] + 1 ELSE age[d]]
            /\ UNCHANGED <<cache, recency, served>>

CertNext == \/ \E d \in Domains : GenerateCert(d)
            \/ PruneCache \/ ClearCache \/ CertTick

CertSpec == CertInit /\ [][CertNext]_certVars

-----------------------------------------------------------------------------
CertTypeOK == /\ cache \in Seq(Domains) /\ recency \in Seq(Domains)
              /\ age \in [Domains -> 0 .. Ttl + 1]
              /\ served \in 0 .. Ttl + 1

\* The cache keeps what a least-recently-used cache of its size keeps, whatever
\* has expired, been pruned or been made again meanwhile: every live certificate
\* of the MaxSize domains last asked for.  It holds no more than MaxSize, and
\* hands out no certificate past its time to live.
LruContract ==
    LET last == Len(recency) - MaxSize
        recent == {recency[i] : i \in {j \in DOMAIN recency : j > last}}
    IN  /\ \A d \in recent : ~Expired(d) => d \in Cached
        /\ Len(cache) <= MaxSize
        /\ Ttl # 0 => served <= Ttl
=============================================================================
