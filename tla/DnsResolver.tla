----------------------------- MODULE DnsResolver -----------------------------
(***************************************************************************)
(* The DNS resolver TCP and UDP sockets share: a c-ares channel driven by  *)
(* the event thread, and a cache of answers.  The cache is changed by both *)
(* threads under cache_mutex_; cache_ttl_ is atomic and also read without  *)
(* the lock.                                                               *)
(*                                                                         *)
(* Time passes in Tick.  An entry keeps the seconds left until its         *)
(* expires_at instead of the time itself, and 0 once that has passed.      *)
(* c-ares is external: it answers a query, or fails it, when one of its    *)
(* sockets or the timer makes the loop call ares_process_fd.               *)
(***************************************************************************)
EXTENDS Integers, Sequences, FiniteSets, FiniteSetsExt, Functions

CONSTANTS
    Client,            \* sockets that look names up
    Host,              \* names that are no IP literals
    Literal,           \* any IP literal
    Ttls,              \* bound: the values of cache_ttl_
    DefaultTtl,        \* the initial value of cache_ttl_
    AnswerTtls,        \* bound: the TTLs of answers
    kMaxCacheEntries

ASSUME DnsAssumption ==
    /\ Literal \notin Host
    /\ Ttls \subseteq Nat /\ 0 \in Ttls /\ DefaultTtl \in Ttls
    /\ AnswerTtls \subseteq Nat
    /\ kMaxCacheEntries \in Nat \ {0}

VARIABLES
    cache,     \* cache_, a function on the cached names
    ttl,       \* cache_ttl_
    channel,   \* channel_ is not null
    queries,   \* ResolveRequests c-ares holds
    timer,     \* timer_ is running
    polling,   \* poll_handles_ is not empty: c-ares has its server socket open
    answer     \* what OnResolveComplete is about to cache: the query, and the
               \* TTL of the answer

dnsVars == <<cache, ttl, channel, queries, timer, polling, answer>>

Queries == [who : Client, for : {"bind", "send", "connect"}, host : Host]
NoAnswer == <<>>

\* age and cap belong to the specification only.  cap: the shorter of the TTLs of
\* the answer and, when it was stored, of the cache.  age: the seconds since the
\* answer came.  An expired entry has only zeros.
Entries == [left : Nat, age : Nat, cap : Nat]

Expired == [left |-> 0, age |-> 0, cap |-> 0]

DnsTypeOK ==
    /\ DOMAIN cache \subseteq Host
    /\ \A h \in DOMAIN cache : cache[h] \in Entries
    /\ ttl \in Ttls
    /\ channel \in BOOLEAN
    /\ queries \subseteq Queries
    /\ timer \in BOOLEAN /\ polling \in BOOLEAN
    /\ answer = NoAnswer \/ answer \in Queries \X AnswerTtls

DnsInit ==
    /\ cache = <<>> /\ ttl = DefaultTtl
    /\ channel = TRUE /\ queries = {} /\ timer = FALSE /\ polling = FALSE
    /\ answer = NoAnswer

-----------------------------------------------------------------------------
(* Event thread                                                            *)

Drop(h) == Restrict(cache, DOMAIN cache \ {h})

Hit(h) == ttl > 0 /\ h \in DOMAIN cache /\ cache[h].left > 0

\* Resolve calls back before it returns
Immediate(h) == h = Literal \/ Hit(h)

\* UpdateTimer: c-ares has a timeout while it has queries.  OnSockStateChange:
\* its socket to the server is open as long.
UpdateTimer == timer' = (queries' # {})
OnSockStateChange == polling' = (queries' # {})

\* Variant: the timer is not started.
ResolveMissNoTimer(q) ==
    /\ cache' = IF ttl > 0 /\ q.host \in DOMAIN cache THEN Drop(q.host) ELSE cache
    /\ queries' = IF channel THEN queries \cup {q} ELSE queries
    /\ OnSockStateChange
    /\ UNCHANGED <<ttl, channel, timer, answer>>

\* Resolve on a miss.  An expired entry is removed, unless the cache is off.
\* Without a channel ares_getaddrinfo returns and no callback will come.
ResolveMiss(q) ==
    /\ cache' = IF ttl > 0 /\ q.host \in DOMAIN cache THEN Drop(q.host) ELSE cache
    /\ queries' = IF channel THEN queries \cup {q} ELSE queries
    /\ UpdateTimer /\ OnSockStateChange
    /\ UNCHANGED <<ttl, channel, answer>>

\* OnPollActivity or OnTimer end query q, up to its callback
Completes(q) ==
    /\ q \in queries
    /\ queries' = queries \ {q}
    /\ UpdateTimer /\ OnSockStateChange
    /\ UNCHANGED <<ttl, channel>>

\* OnResolveComplete with an answer while the cache is on, up to the lock
CompleteToCache(q) ==
    /\ ttl > 0
    /\ Completes(q)
    /\ \E t \in AnswerTtls : answer' = <<q, t>>
    /\ UNCHANGED cache

\* OnResolveComplete with an answer while the cache is off, or without one
CompleteUncached(q, ok) ==
    /\ ok => ttl = 0
    /\ Completes(q)
    /\ UNCHANGED <<cache, answer>>

\* Variant: the clamp is left out.
ExpiresInUnclamped(t) == IF t > 0 THEN t ELSE ttl

\* Seconds until expires_at for an answer with TTL t
ExpiresIn(t) ==
    LET own == IF t > 0 THEN t ELSE ttl
    IN IF own > ttl THEN ttl ELSE own

Oldest(h) == \A k \in DOMAIN cache : cache[h].left <= cache[k].left

\* The first to expire goes, also when the name to be stored has an entry
Evicted ==
    IF Cardinality(DOMAIN cache) >= kMaxCacheEntries
    THEN {Drop(h) : h \in {k \in DOMAIN cache : Oldest(k)}}
    ELSE {cache}

\* The part of OnResolveComplete under the lock: cache_ttl_ is read again
StoreAnswer ==
    /\ answer # NoAnswer
    /\ LET h == answer[1].host
           t == answer[2]
           e == [left |-> ExpiresIn(t), age |-> 0,
                 cap |-> Min({ttl} \cup (IF t = 0 THEN {} ELSE {t}))]
       IN \E c \in Evicted : cache' = [k \in DOMAIN c \cup {h} |-> IF k = h THEN e ELSE c[k]]
    /\ answer' = NoAnswer
    /\ UNCHANGED <<ttl, channel, queries, timer, polling>>

\* Every query is cancelled; a channel may not come back.  The timer is left as
\* it is.
Reinit(ok) ==
    /\ channel' = ok
    /\ queries' = {}
    /\ OnSockStateChange
    /\ UNCHANGED <<cache, ttl, timer, answer>>

Shutdown ==
    /\ cache' = <<>> /\ queries' = {}
    /\ channel' = FALSE /\ timer' = FALSE /\ polling' = FALSE
    /\ UNCHANGED <<ttl, answer>>

-----------------------------------------------------------------------------
(* Game thread, and time                                                   *)

FlushCache ==
    /\ cache' = <<>>
    /\ UNCHANGED <<ttl, channel, queries, timer, polling, answer>>

SetCacheTtl(t) ==
    /\ ttl' = IF t >= 0 THEN t ELSE 0
    /\ UNCHANGED <<cache, channel, queries, timer, polling, answer>>

GetCacheStats == Cardinality(DOMAIN cache)

Tick ==
    /\ cache' = [h \in DOMAIN cache |->
                   IF cache[h].left > 1
                   THEN [cache[h] EXCEPT !.left = @ - 1, !.age = @ + 1]
                   ELSE Expired]
    /\ UNCHANGED <<ttl, channel, queries, timer, polling, answer>>

-----------------------------------------------------------------------------
(* Properties                                                              *)

\* The cache never holds more than kMaxCacheEntries names, whatever queries end
\* in whatever order (OnResolveComplete makes room before it stores).
CacheWithinLimit == GetCacheStats <= kMaxCacheEntries

\* An answer that Resolve would still give out is younger than its own TTL and
\* than the cache TTL was when it was stored, also when SetCacheTtl comes between
\* OnResolveComplete's check of cache_ttl_ and its lock.
CacheFresh == \A h \in DOMAIN cache : cache[h].left > 0 => cache[h].age < cache[h].cap

\* Whenever c-ares has a query, its socket has a poll handle and the one-shot
\* timer runs, so that the query ends even if no server ever answers.
Watched == queries # {} => timer /\ polling
=============================================================================
