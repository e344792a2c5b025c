------------------------------ MODULE UdpProofs ------------------------------
(***************************************************************************)
(* Proofs about UdpSocket and the DnsResolver it asks, for every set of    *)
(* sockets, names and TTLs, every limit of the cache and every bound.      *)
(***************************************************************************)
EXTENDS UdpSocket, FiniteSetTheorems, SequenceTheorems, TLAPS

HasOp(q, t, s) == \E i \in DOMAIN q : q[i].type = t /\ q[i].s = s

AtMostOne(q, t, s) ==
    \A i, j \in DOMAIN q :
        q[i].type = t /\ q[i].s = s /\ q[j].type = t /\ q[j].s = s => i = j

\* The resolver: the cache is finite and within its limit, and what is left of an
\* entry's time and its age add up to no more than it may live.
DnsInv ==
    /\ DnsTypeOK
    /\ IsFiniteSet(DOMAIN cache) /\ IsFiniteSet(queries)
    /\ CacheWithinLimit
    /\ \A h \in DOMAIN cache : cache[h].left > 0 => cache[h].age + cache[h].left <= cache[h].cap
    /\ Watched

\* Where the two threads are
ControlInv ==
    /\ gpc = "callback" <=> evt # None
    /\ gpc \in {"joining", "unloaded"} => closing = None /\ todo = {}
    /\ gpc = "unloaded" => epc = "exited" /\ ops = <<>> /\ events = <<>>
    /\ epc = "erase" => esock \in Sock /\ sock[esock].st = "CLOSED"

\* A socket is bound once.  Until its BIND op is handled it is neither registered
\* nor has it a uv_handle; what is not registered has none; only a socket whose
\* handle_closed is set is closed; and a closed one is registered only until
\* OnUdpClosed has erased it.
SocketInv(s) ==
    /\ sock[s].user = "new" \/ HasOp(ops, "bind", s) => ~sock[s].reg /\ sock[s].st = "CREATED"
    /\ sock[s].user = "new" => ~HasOp(ops, "bind", s)
    /\ AtMostOne(ops, "bind", s)
    /\ ~sock[s].reg => sock[s].uv = "none" /\ ~sock[s].closing
    /\ sock[s].closing => sock[s].st = "CLOSING"
    /\ sock[s].st \in {"CLOSING", "CLOSED"} \/ HasOp(ops, "close", s) \/ closing = s =>
           sock[s].hclosed
    /\ sock[s].st = "CLOSED" =>
           sock[s].uv = "none" /\ (sock[s].reg => epc = "erase" /\ esock = s)

\* UDP_CLOSED is sent for a closed socket only, and is in one place: the queue, the
\* dispatcher, or, dispatched, the freed object.
ClosedInv(s) ==
    /\ AtMostOne(events, "closed", s)
    /\ evt = s => ~HasOp(events, "closed", s)
    /\ sock[s].obj = "freed" => evt # s /\ ~HasOp(events, "closed", s)
    /\ gpc # "unloaded" /\ (sock[s].obj = "freed" \/ evt = s \/ HasOp(events, "closed", s)) =>
           sock[s].st = "CLOSED"

UdpInv ==
    /\ DnsInv
    /\ TypeOK
    /\ ControlInv
    /\ \A s \in Sock : SocketInv(s) /\ ClosedInv(s)

-----------------------------------------------------------------------------
(* The resolver                                                            *)

\* Removing a name leaves the rest of the cache as it is.
LEMMA DropFacts ==
    ASSUME DnsInv, NEW h \in DOMAIN cache
    PROVE  /\ DOMAIN Drop(h) = DOMAIN cache \ {h}
           /\ \A k \in DOMAIN cache \ {h} : Drop(h)[k] = cache[k]
           /\ IsFiniteSet(DOMAIN Drop(h))
           /\ Cardinality(DOMAIN Drop(h)) = Cardinality(DOMAIN cache) - 1
<1>1. /\ DOMAIN Drop(h) = DOMAIN cache \ {h}
      /\ \A k \in DOMAIN cache \ {h} : Drop(h)[k] = cache[k]
  BY DEF Drop, Restrict
<1> QED
  BY <1>1, FS_RemoveElement DEF DnsInv

LEMMA CardinalityFact == DnsInv => Cardinality(DOMAIN cache) \in Nat
  BY FS_CardinalityType DEF DnsInv

\* A lookup that asks a server starts the timer and drops an expired entry.
LEMMA ResolveMissKeepsDns ==
    ASSUME DnsInv, NEW q \in Queries, ResolveMiss(q) PROVE DnsInv'
<1>1. /\ queries' \subseteq Queries /\ IsFiniteSet(queries')
      /\ Watched' /\ timer' \in BOOLEAN /\ polling' \in BOOLEAN
      /\ UNCHANGED <<ttl, channel, answer>>
  BY FS_AddElement
  DEF DnsInv, DnsTypeOK, ResolveMiss, UpdateTimer, OnSockStateChange, Watched
<1>2. CASE cache' = cache
  BY <1>1, <1>2 DEF DnsInv, DnsTypeOK, CacheWithinLimit, GetCacheStats
<1>3. CASE q.host \in DOMAIN cache /\ cache' = Drop(q.host)
  <2>1. /\ DOMAIN cache' = DOMAIN cache \ {q.host}
        /\ \A k \in DOMAIN cache' : cache'[k] = cache[k]
        /\ IsFiniteSet(DOMAIN cache')
        /\ Cardinality(DOMAIN cache') = Cardinality(DOMAIN cache) - 1
    BY <1>3, DropFacts
  <2>2. CacheWithinLimit'
    BY <2>1, CardinalityFact, DnsAssumption
    DEF DnsAssumption, DnsInv, CacheWithinLimit, GetCacheStats
  <2>3. DnsTypeOK'
    BY <1>1, <2>1 DEF DnsInv, DnsTypeOK
  <2> QED
    BY <1>1, <2>1, <2>2, <2>3 DEF DnsInv
<1> QED
  BY <1>2, <1>3 DEF ResolveMiss

\* A query ends: what it leaves to be stored is an answer to it.
LEMMA CompletesKeepsDns ==
    ASSUME DnsInv, NEW q \in Queries, Completes(q), UNCHANGED cache,
           answer' = answer \/ answer' \in Queries \X AnswerTtls
    PROVE  DnsInv'
<1>1. /\ queries' \subseteq Queries /\ IsFiniteSet(queries')
      /\ Watched' /\ timer' \in BOOLEAN /\ polling' \in BOOLEAN
      /\ UNCHANGED <<ttl, channel>>
  BY FS_RemoveElement
  DEF DnsInv, DnsTypeOK, Completes, UpdateTimer, OnSockStateChange, Watched
<1> QED
  BY <1>1 DEF DnsInv, DnsTypeOK, CacheWithinLimit, GetCacheStats

\* An answer lives no longer than its own TTL and than the TTL of the cache at the
\* time it is stored.
LEMMA ExpiryFacts ==
    ASSUME DnsInv, NEW t \in AnswerTtls
    PROVE  LET c == Min({ttl} \cup (IF t = 0 THEN {} ELSE {t}))
           IN  ExpiresIn(t) \in Nat /\ c \in Nat /\ ExpiresIn(t) <= c
<1>1. ttl \in Nat /\ t \in Nat
  BY DnsAssumption DEF DnsAssumption, DnsInv, DnsTypeOK
<1> DEFINE S == {ttl} \cup (IF t = 0 THEN {} ELSE {t})
<1>2. \E x \in S : \A y \in S : x <= y
  BY <1>1
<1>3. Min(S) \in S /\ \A y \in S : Min(S) <= y
  BY <1>2 DEF Min
<1> QED
  BY <1>1, <1>3 DEF ExpiresIn

\* Room is made before the answer is stored, so that the limit holds after.
LEMMA StoreAnswerKeepsDns ==
    ASSUME DnsInv, StoreAnswer PROVE DnsInv'
<1>1. answer \in Queries \X AnswerTtls
  BY DEF DnsInv, DnsTypeOK, StoreAnswer
<1> DEFINE h == answer[1].host
           t == answer[2]
           e == [left |-> ExpiresIn(t), age |-> 0,
                 cap |-> Min({ttl} \cup (IF t = 0 THEN {} ELSE {t}))]
<1>2. h \in Host /\ t \in AnswerTtls
  BY <1>1 DEF Queries
<1>3. e \in Entries /\ e.age + e.left <= e.cap
  BY <1>2, ExpiryFacts DEF Entries
<1> HIDE DEF h, t, e
<1>4. PICK c \in Evicted : cache' = [k \in DOMAIN c \cup {h} |-> IF k = h THEN e ELSE c[k]]
  BY DEF StoreAnswer, h, t, e
<1>5. /\ IsFiniteSet(DOMAIN c) /\ DOMAIN c \subseteq DOMAIN cache
      /\ \A k \in DOMAIN c : c[k] = cache[k]
      /\ Cardinality(DOMAIN c) \in Nat /\ Cardinality(DOMAIN c) < kMaxCacheEntries
  <2>1. Cardinality(DOMAIN cache) <= kMaxCacheEntries
    BY DEF DnsInv, CacheWithinLimit, GetCacheStats
  <2>2. CASE Cardinality(DOMAIN cache) >= kMaxCacheEntries
    <3>1. PICK k \in DOMAIN cache : c = Drop(k)
      BY <2>2, <1>4 DEF Evicted
    <3>2. /\ IsFiniteSet(DOMAIN c) /\ DOMAIN c = DOMAIN cache \ {k}
          /\ \A x \in DOMAIN c : c[x] = cache[x]
          /\ Cardinality(DOMAIN c) = Cardinality(DOMAIN cache) - 1
      BY <3>1, DropFacts
    <3>3. Cardinality(DOMAIN c) < kMaxCacheEntries /\ Cardinality(DOMAIN c) \in Nat
      BY <2>1, <3>2, CardinalityFact, FS_CardinalityType, DnsAssumption DEF DnsAssumption
    <3> QED
      BY <3>2, <3>3
  <2>3. CASE ~(Cardinality(DOMAIN cache) >= kMaxCacheEntries)
    <3>1. c = cache
      BY <2>3, <1>4 DEF Evicted
    <3> QED
      BY <2>3, <3>1, CardinalityFact, DnsAssumption DEF DnsAssumption, DnsInv
  <2> QED
    BY <2>2, <2>3
<1>6. DOMAIN cache' = DOMAIN c \cup {h}
  BY <1>4
<1>7. IsFiniteSet(DOMAIN cache') /\ Cardinality(DOMAIN cache') <= kMaxCacheEntries
  <2>1. /\ IsFiniteSet(DOMAIN cache')
        /\ \/ Cardinality(DOMAIN cache') = Cardinality(DOMAIN c)
           \/ Cardinality(DOMAIN cache') = Cardinality(DOMAIN c) + 1
    BY <1>5, <1>6, FS_AddElement
  <2> QED
    BY <1>5, <2>1, DnsAssumption DEF DnsAssumption
<1>8. \A k \in DOMAIN cache' : \/ cache'[k] = e
                               \/ k \in DOMAIN cache /\ cache'[k] = cache[k]
  BY <1>4, <1>5
<1>9. \A k \in DOMAIN cache' :
          cache'[k] \in Entries
          /\ (cache'[k].left > 0 => cache'[k].age + cache'[k].left <= cache'[k].cap)
  BY <1>3, <1>8 DEF DnsInv, DnsTypeOK
<1>10. DOMAIN cache' \subseteq Host
  BY <1>2, <1>5, <1>6 DEF DnsInv, DnsTypeOK
<1>11. UNCHANGED <<ttl, channel, queries, timer, polling>> /\ answer' = NoAnswer
  BY DEF StoreAnswer
<1> QED
  BY <1>7, <1>9, <1>10, <1>11 DEF DnsInv, DnsTypeOK, Watched, CacheWithinLimit, GetCacheStats

\* Everything else that changes the resolver
LEMMA OtherDnsSteps ==
    ASSUME DnsInv,
           \/ UNCHANGED dnsVars \/ FlushCache \/ Shutdown \/ Tick
           \/ \E t \in Ttls \cup {-1} : SetCacheTtl(t)
           \/ \E ok \in BOOLEAN : Reinit(ok)
           \/ /\ queries = {} /\ UNCHANGED <<queries, cache, ttl, channel, polling, answer>>
              /\ UpdateTimer
    PROVE  DnsInv'
<1> USE DEF DnsInv, DnsTypeOK, CacheWithinLimit, GetCacheStats, Watched
<1>1. CASE UNCHANGED dnsVars
  BY <1>1 DEF dnsVars
<1>2. IsFiniteSet({}) /\ Cardinality({}) = 0 /\ 0 <= kMaxCacheEntries /\ DOMAIN <<>> = {}
  BY FS_EmptySet, DnsAssumption DEF DnsAssumption
<1>3. CASE FlushCache
  BY <1>2, <1>3 DEF FlushCache
<1>4. CASE Shutdown
  BY <1>2, <1>4 DEF Shutdown
<1>5. CASE Tick
  <2>1. DOMAIN cache' = DOMAIN cache /\ UNCHANGED <<ttl, channel, queries, timer, polling, answer>>
    BY <1>5 DEF Tick
  <2>2. ASSUME NEW h \in DOMAIN cache
        PROVE  /\ cache'[h] \in Entries
               /\ cache'[h].left > 0 => cache'[h].age + cache'[h].left <= cache'[h].cap
    <3>1. cache[h] \in Entries
      OBVIOUS
    <3>2. CASE cache[h].left > 1
      <4>1. cache'[h] = [cache[h] EXCEPT !.left = @ - 1, !.age = @ + 1]
        BY <1>5, <3>2 DEF Tick
      <4>2. /\ cache'[h].left = cache[h].left - 1 /\ cache'[h].age = cache[h].age + 1
            /\ cache'[h].cap = cache[h].cap
        BY <3>1, <4>1 DEF Entries
      <4>3. cache'[h] \in Entries
        <5>1. cache[h].left - 1 \in Nat /\ cache[h].age + 1 \in Nat
          BY <3>1, <3>2 DEF Entries
        <5> QED
          BY <3>1, <4>1, <5>1 DEF Entries
      <4> QED
        BY <3>1, <3>2, <4>2, <4>3 DEF Entries
    <3>3. CASE ~(cache[h].left > 1)
      <4>1. cache'[h] = Expired
        BY <1>5, <3>3 DEF Tick
      <4> QED
        BY <4>1 DEF Expired, Entries
    <3> QED
      BY <3>2, <3>3
  <2> QED
    BY <2>1, <2>2
<1>6. ASSUME NEW t \in Ttls \cup {-1}, SetCacheTtl(t) PROVE DnsInv'
  <2>1. ttl' \in Ttls
    BY <1>6, DnsAssumption DEF DnsAssumption, SetCacheTtl
  <2> QED
    BY <1>6, <2>1 DEF SetCacheTtl
<1>7. ASSUME NEW ok \in BOOLEAN, Reinit(ok) PROVE DnsInv'
  BY <1>2, <1>7 DEF Reinit, OnSockStateChange
<1>8. CASE /\ queries = {} /\ UNCHANGED <<queries, cache, ttl, channel, polling, answer>>
           /\ UpdateTimer
  BY <1>8 DEF UpdateTimer
<1> QED
  BY <1>1, <1>3, <1>4, <1>5, <1>6, <1>7, <1>8

-----------------------------------------------------------------------------
(* Queues                                                                  *)

LEMMA AppendFacts ==
    ASSUME NEW T, NEW q \in Seq(T), NEW x \in T, NEW t, NEW s
    PROVE  /\ Append(q, x) \in Seq(T)
           /\ HasOp(Append(q, x), t, s) <=> HasOp(q, t, s) \/ (x.type = t /\ x.s = s)
           /\ AtMostOne(q, t, s) /\ (~(x.type = t /\ x.s = s) \/ ~HasOp(q, t, s)) =>
                  AtMostOne(Append(q, x), t, s)
<1>1. /\ Append(q, x) \in Seq(T)
      /\ DOMAIN Append(q, x) = DOMAIN q \cup {Len(q) + 1}
      /\ Len(q) + 1 \notin DOMAIN q
      /\ \A i \in DOMAIN q : Append(q, x)[i] = q[i]
      /\ Append(q, x)[Len(q) + 1] = x
  OBVIOUS
<1> QED
  BY <1>1, Zenon DEF HasOp, AtMostOne

LEMMA TailFacts ==
    ASSUME NEW T, NEW q \in Seq(T), q # <<>>, NEW t, NEW s
    PROVE  /\ Tail(q) \in Seq(T) /\ Head(q) \in T
           /\ HasOp(q, t, s) <=> (Head(q).type = t /\ Head(q).s = s) \/ HasOp(Tail(q), t, s)
           /\ AtMostOne(q, t, s) =>
                  /\ AtMostOne(Tail(q), t, s)
                  /\ ~(Head(q).type = t /\ Head(q).s = s /\ HasOp(Tail(q), t, s))
<1>1. /\ Tail(q) \in Seq(T) /\ Head(q) \in T
      /\ Head(q) = q[1] /\ 1 \in DOMAIN q
      /\ \A i \in DOMAIN Tail(q) : i + 1 \in DOMAIN q /\ Tail(q)[i] = q[i + 1] /\ i \in Nat \ {0}
      /\ \A i \in DOMAIN q : i # 1 => i - 1 \in DOMAIN Tail(q) /\ Tail(q)[i - 1] = q[i]
  OBVIOUS
<1>2. HasOp(q, t, s) <=> (Head(q).type = t /\ Head(q).s = s) \/ HasOp(Tail(q), t, s)
  BY <1>1, ZenonT(30) DEF HasOp
<1>3. ASSUME AtMostOne(q, t, s), NEW i \in DOMAIN Tail(q), NEW j \in DOMAIN Tail(q),
             Tail(q)[i].type = t, Tail(q)[i].s = s, Tail(q)[j].type = t, Tail(q)[j].s = s
      PROVE  i = j
  <2>1. i + 1 = j + 1
    BY <1>1, <1>3 DEF AtMostOne
  <2> QED
    BY <1>1, <2>1
<1>4. ASSUME AtMostOne(q, t, s), NEW i \in DOMAIN Tail(q), Tail(q)[i].type = t,
             Tail(q)[i].s = s, Head(q).type = t, Head(q).s = s
      PROVE  FALSE
  <2>1. i + 1 = 1
    BY <1>1, <1>4 DEF AtMostOne
  <2> QED
    BY <1>1, <2>1
<1>5. AtMostOne(q, t, s) => AtMostOne(Tail(q), t, s)
  BY <1>3 DEF AtMostOne
<1>6. AtMostOne(q, t, s) => ~(Head(q).type = t /\ Head(q).s = s /\ HasOp(Tail(q), t, s))
  BY <1>4 DEF HasOp
<1> QED
  BY <1>1, <1>2, <1>5, <1>6

\* The step sends no UDP_CLOSED
QuietEvents ==
    /\ events' \in Seq(Events)
    /\ \A x \in Sock :
          /\ HasOp(events', "closed", x) <=> HasOp(events, "closed", x)
          /\ AtMostOne(events, "closed", x) => AtMostOne(events', "closed", x)

LEMMA QuietUnchanged == ASSUME TypeOK, events' = events PROVE QuietEvents
  BY DEF TypeOK, QuietEvents

\* Errors, as many as there are, are not closes.
LEMMA QuietErrors ==
    ASSUME TypeOK, NEW es \in Seq(Events), \A i \in DOMAIN es : es[i].type # "closed",
           events' = events \o es
    PROVE  QuietEvents
<1>1. /\ events \in Seq(Events) /\ events' \in Seq(Events)
      /\ Len(events') = Len(events) + Len(es)
      /\ \A i \in 1 .. Len(events) + Len(es) :
             events'[i] = IF i <= Len(events) THEN events[i] ELSE es[i - Len(events)]
  BY ConcatProperties DEF TypeOK
<1>2. /\ DOMAIN events = 1 .. Len(events) /\ DOMAIN events' = 1 .. Len(events')
      /\ DOMAIN es = 1 .. Len(es) /\ Len(events) \in Nat /\ Len(es) \in Nat
  BY <1>1
<1>3. \A i \in DOMAIN events : i \in DOMAIN events' /\ events'[i] = events[i]
  BY <1>1, <1>2
<1>4. \A i \in DOMAIN events' : events'[i].type = "closed" =>
          i \in DOMAIN events /\ events'[i] = events[i]
  <2> SUFFICES ASSUME NEW i \in DOMAIN events', events'[i].type = "closed"
               PROVE  i \in DOMAIN events /\ events'[i] = events[i]
    OBVIOUS
  <2>1. CASE i <= Len(events)
    BY <1>1, <1>2, <2>1
  <2>2. CASE ~(i <= Len(events))
    <3>1. i - Len(events) \in DOMAIN es /\ events'[i] = es[i - Len(events)]
      BY <1>1, <1>2, <2>2
    <3> QED
      BY <3>1
  <2> QED
    BY <2>1, <2>2
<1>5. ASSUME NEW x \in Sock
      PROVE  HasOp(events', "closed", x) <=> HasOp(events, "closed", x)
  BY <1>3, <1>4 DEF HasOp
<1>6. ASSUME NEW x \in Sock, AtMostOne(events, "closed", x)
      PROVE  AtMostOne(events', "closed", x)
  BY <1>4, <1>6 DEF AtMostOne
<1> QED
  BY <1>1, <1>5, <1>6 DEF QuietEvents

\* What a callback of the event thread reports about a socket
LEMMA ApplyFacts ==
    ASSUME TypeOK, NEW s \in Sock, NEW r \in Sockets, NEW es, Apply(s, Out(r, es)),
           es = <<>> \/ \E t \in {"data", "error", "closed"} : es = <<t>>
    PROVE  /\ sock' = [sock EXCEPT ![s] = r]
           /\ es = <<"closed">> => events' = Append(events, Event("closed", s))
           /\ es # <<"closed">> => QuietEvents
<1>1. /\ sock' = [sock EXCEPT ![s] = r]
      /\ events' = events \o [i \in DOMAIN es |-> Event(es[i], s)]
      /\ events \in Seq(Events)
  BY DEF Apply, Out, TypeOK
<1>2. CASE es = <<>>
  <2>1. [i \in DOMAIN es |-> Event(es[i], s)] = <<>>
    BY <1>2
  <2>2. events' = events
    BY <1>1, <2>1, ConcatEmptySeq
  <2> QED
    BY <1>1, <1>2, <2>2, QuietUnchanged
<1>3. ASSUME NEW t \in {"data", "error", "closed"}, es = <<t>>
      PROVE  /\ es = <<"closed">> => events' = Append(events, Event("closed", s))
             /\ es # <<"closed">> => QuietEvents
  <2>1. Event(t, s) \in Events /\ Event(t, s).type = t
    BY DEF Event, Events
  <2> DEFINE f == [i \in DOMAIN es |-> Event(es[i], s)]
             g == <<Event(t, s)>>
  <2>2. DOMAIN f = 1 .. 1 /\ f[1] = Event(t, s)
    BY <1>3
  <2>3. f = [i \in 1 .. 1 |-> Event(t, s)]
    BY <1>3, <2>2
  <2>4. f \in Seq(Events) /\ Len(f) = 1
    BY <2>1, <2>3
  <2>5. g \in Seq(Events) /\ Len(g) = 1 /\ g[1] = Event(t, s)
    BY <2>1
  <2> HIDE DEF f, g
  <2>6. f = g
    <3>1. \A i \in 1 .. Len(f) : f[i] = g[i]
      BY <2>2, <2>4, <2>5
    <3> QED
      BY <2>4, <2>5, <3>1, SeqEqual, Zenon
  <2>7. events' = events \o g
    BY <1>1, <2>6 DEF f
  <2>8. events' = Append(events, Event(t, s))
    BY <1>1, <2>1, <2>7, AppendIsConcat DEF g
  <2>9. ASSUME t # "closed" PROVE QuietEvents
    <3>1. events' \in Seq(Events)
      BY <1>1, <2>1, <2>8
    <3>2. ASSUME NEW y \in Sock
          PROVE  /\ HasOp(events', "closed", y) <=> HasOp(events, "closed", y)
                 /\ AtMostOne(events, "closed", y) => AtMostOne(events', "closed", y)
      <4> DEFINE e == Event(t, s)
      <4>1. e \in Events /\ e.type # "closed"
        BY <2>1, <2>9
      <4> HIDE DEF e
      <4>2. /\ HasOp(Append(events, e), "closed", y) <=> HasOp(events, "closed", y)
            /\ AtMostOne(events, "closed", y) => AtMostOne(Append(events, e), "closed", y)
        BY <1>1, <4>1, AppendFacts
      <4>3. events' = Append(events, e)
        BY <2>8 DEF e
      <4> QED
        BY <4>2, <4>3
    <3> QED
      BY <3>1, <3>2 DEF QuietEvents
  <2> QED
    BY <1>3, <2>8, <2>9
<1> QED
  BY <1>1, <1>2, <1>3

LEMMA ApplyQuiet ==
    ASSUME TypeOK, NEW s \in Sock, NEW r \in Sockets, NEW es \in {<<>>, <<"data">>, <<"error">>},
           Apply(s, Out(r, es))
    PROVE  sock' = [sock EXCEPT ![s] = r] /\ QuietEvents
<1>1. <<>> # <<"closed">> /\ <<"error">> # <<"closed">> /\ <<"data">> # <<"closed">>
  OBVIOUS
<1>2. es # <<"closed">> /\ (es = <<>> \/ \E t \in {"data", "error", "closed"} : es = <<t>>)
  BY <1>1, Zenon
<1> QED
  BY <1>2, ApplyFacts, Zenon

LEMMA ApplyClosed ==
    ASSUME TypeOK, NEW s \in Sock, NEW r \in Sockets, Apply(s, Out(r, <<"closed">>))
    PROVE  sock' = [sock EXCEPT ![s] = r] /\ events' = Append(events, Event("closed", s))
  BY ApplyFacts, Zenon

-----------------------------------------------------------------------------
(* The sockets: steps of the event thread                                  *)

OpTaken == \/ ops' = ops
           \/ ops # <<>> /\ ops' = Tail(ops)

LEMMA OpTakenFacts ==
    ASSUME TypeOK, OpTaken
    PROVE  /\ ops' \in Seq(Ops)
           /\ \A t, x : HasOp(ops', t, x) => HasOp(ops, t, x)
           /\ \A t, x : AtMostOne(ops, t, x) => AtMostOne(ops', t, x)
<1>1. ops \in Seq(Ops)
  BY DEF TypeOK
<1>2. CASE ops' = ops
  BY <1>1, <1>2
<1>3. CASE ops # <<>> /\ ops' = Tail(ops)
  BY <1>1, <1>3, TailFacts
<1> QED
  BY <1>2, <1>3 DEF OpTaken

\* A socket the step does not touch
LEMMA SameSocket ==
    ASSUME UdpInv, OpTaken, NEW x \in Sock, sock'[x] = sock[x], closing' = closing,
           epc = "erase" => UNCHANGED <<epc, esock>>
    PROVE  SocketInv(x)'
<1>1. SocketInv(x) /\ TypeOK
  BY DEF UdpInv
<1> QED
  BY <1>1, OpTakenFacts DEF SocketInv

\* A step that sends no UDP_CLOSED and keeps to SocketInv.  Nothing but a handle
\* that is freed, or a close, is beyond its reach.
LEMMA QuietKeepsInv ==
    ASSUME UdpInv, DnsInv', OpTaken, QuietEvents, epc \notin {"exited", "erase"},
           epc' \in {"poll", "draining", "store", "exited"}, esock' = esock,
           flags' \subseteq {"stop", "udp", "dns", "stopping"}, UNCHANGED gameVars,
           sock' \in [Sock -> Sockets],
           \A x \in Sock : /\ SocketInv(x)'
                           /\ sock'[x].obj = sock[x].obj
                           /\ sock[x].st = "CLOSED" => sock'[x].st = "CLOSED"
    PROVE  UdpInv'
<1> USE DEF gameVars
<1>1. gpc # "unloaded" /\ TypeOK
  BY DEF UdpInv, ControlInv
<1>2. TypeOK'
  BY <1>1, OpTakenFacts DEF TypeOK, DnsInv, QuietEvents
<1>3. ControlInv'
  BY <1>1 DEF UdpInv, ControlInv
<1>4. ASSUME NEW x \in Sock PROVE ClosedInv(x)'
  <2>1. ClosedInv(x)
    BY DEF UdpInv
  <2> QED
    BY <1>1, <2>1 DEF ClosedInv, QuietEvents
<1> QED
  BY <1>2, <1>3, <1>4 DEF UdpInv

\* The event thread closes socket s for good
LEMMA PushKeepsInv ==
    ASSUME UdpInv, DnsInv', OpTaken, epc \notin {"exited", "erase"},
           NEW s \in Sock, NEW r \in Sockets, sock' = [sock EXCEPT ![s] = r],
           sock[s].reg, sock[s].st # "CLOSED", sock[s].hclosed,
           r.obj = sock[s].obj, r.user = sock[s].user, r.st = "CLOSED", r.uv = "none",
           ~r.closing, r.hclosed,
           events' = Append(events, Event("closed", s)),
           \/ ~r.reg /\ epc' \in {"poll", "draining"} /\ esock' = esock
           \/ epc' = "erase" /\ esock' = s,
           UNCHANGED <<flags, gameVars>>
    PROVE  UdpInv'
<1> USE DEF gameVars
<1>1. gpc # "unloaded" /\ TypeOK /\ events \in Seq(Events)
  BY DEF UdpInv, ControlInv, TypeOK
<1> DEFINE e == Event("closed", s)
<1>2. e \in Events /\ e.type = "closed" /\ e.s = s
  BY DEF Event, Events
<1>3. events' = Append(events, e)
  OBVIOUS
<1> HIDE DEF e
<1>4. SocketInv(s) /\ ClosedInv(s)
  BY DEF UdpInv
<1>5. ~HasOp(ops, "bind", s) /\ ~HasOp(events, "closed", s) /\ evt # s /\ sock[s].obj # "freed"
      /\ sock[s].user # "new"
  BY <1>1, <1>4 DEF SocketInv, ClosedInv
<1>6. events' \in Seq(Events)
  BY <1>1, <1>2, <1>3, AppendFacts
<1>7. /\ sock' \in [Sock -> Sockets] /\ sock'[s] = r
      /\ \A x \in Sock : x # s => sock'[x] = sock[x]
  BY <1>1 DEF TypeOK
<1>8. TypeOK'
  BY <1>1, <1>6, <1>7, OpTakenFacts DEF TypeOK, DnsInv
<1>9. ControlInv'
  BY <1>1, <1>7 DEF UdpInv, ControlInv
<1>10. SocketInv(s)'
  BY <1>1, <1>4, <1>5, <1>7, OpTakenFacts DEF SocketInv
<1>11. ClosedInv(s)'
  <2>1. AtMostOne(events', "closed", s)
    BY <1>1, <1>2, <1>3, <1>4, <1>5, AppendFacts DEF ClosedInv
  <2> QED
    BY <1>5, <1>7, <2>1 DEF ClosedInv
<1>12. ASSUME NEW x \in Sock, x # s PROVE SocketInv(x)' /\ ClosedInv(x)'
  <2>1. SocketInv(x)'
    BY <1>7, <1>12, SameSocket
  <2>2. /\ HasOp(events', "closed", x) <=> HasOp(events, "closed", x)
        /\ AtMostOne(events, "closed", x) => AtMostOne(events', "closed", x)
    BY <1>1, <1>2, <1>3, <1>12, AppendFacts
  <2>3. ClosedInv(x)
    BY DEF UdpInv
  <2> QED
    BY <1>7, <1>12, <2>1, <2>2, <2>3 DEF ClosedInv
<1> QED
  BY <1>8, <1>9, <1>10, <1>11, <1>12 DEF UdpInv

\* The callback of a lookup touches a registered socket that is not closed.
LEMMA BindOutcome ==
    ASSUME NEW r \in Sockets, NEW ok \in BOOLEAN, NEW o \in BindResolved(r, ok)
    PROVE  /\ o = Out(o.r, o.es) /\ o.r \in Sockets /\ o.es \in {<<>>, <<"error">>}
           /\ o.r.obj = r.obj /\ o.r.hclosed = r.hclosed /\ o.r.user = r.user
           /\ o.r.closing = r.closing /\ o.r.reg = r.reg
           /\ \/ o.r = r
              \/ r.reg /\ ~r.hclosed /\ o.r.st \in {r.st, "BOUND"}
<1> DEFINE idle == [r EXCEPT !.uv = "idle"]
           bound == [r EXCEPT !.uv = "receiving", !.st = "BOUND"]
<1>1. /\ idle \in Sockets /\ bound \in Sockets
      /\ idle.obj = r.obj /\ idle.hclosed = r.hclosed /\ idle.user = r.user
      /\ idle.closing = r.closing /\ idle.reg = r.reg /\ idle.st = r.st
      /\ bound.obj = r.obj /\ bound.hclosed = r.hclosed /\ bound.user = r.user
      /\ bound.closing = r.closing /\ bound.reg = r.reg /\ bound.st = "BOUND"
  BY DEF Sockets
<1>2. \/ o \in {Out(r, <<>>), Out(r, <<"error">>)}
      \/ r.reg /\ ~r.hclosed /\ o \in {Out(idle, <<"error">>), Out(bound, <<>>)}
  BY DEF BindResolved
<1> HIDE DEF idle, bound
<1>3. o.r \in {r, idle, bound} /\ o.es \in {<<>>, <<"error">>} /\ o = Out(o.r, o.es)
  BY <1>2 DEF Out
<1>4. o.r = r \/ (r.reg /\ ~r.hclosed /\ o.r \in {idle, bound})
  BY <1>2 DEF Out
<1> QED
  BY <1>1, <1>3, <1>4

LEMMA CallBackFacts ==
    ASSUME UdpInv, NEW q \in Queries, NEW ok \in BOOLEAN, CallBack(q, ok),
           epc \notin {"exited", "erase"}, UNCHANGED <<ops, closing>>
    PROVE  /\ QuietEvents
           /\ sock' \in [Sock -> Sockets]
           /\ \A x \in Sock : /\ SocketInv(x)'
                              /\ sock'[x].obj = sock[x].obj
                              /\ sock[x].st = "CLOSED" => sock'[x].st = "CLOSED"
<1>1. TypeOK /\ OpTaken /\ sock \in [Sock -> Sockets]
  BY DEF UdpInv, TypeOK, OpTaken
<1>2. CASE UNCHANGED <<sock, events>>
  BY <1>1, <1>2, SameSocket, QuietUnchanged
<1>3. ASSUME q.who \in Sock, NEW o \in Resolved(q, sock[q.who], ok), Apply(q.who, o)
      PROVE  /\ QuietEvents
             /\ sock' \in [Sock -> Sockets]
             /\ \A x \in Sock : /\ SocketInv(x)'
                                /\ sock'[x].obj = sock[x].obj
                                /\ sock[x].st = "CLOSED" => sock'[x].st = "CLOSED"
  <2> DEFINE s == q.who
             r == sock[s]
  <2>1. s \in Sock /\ r \in Sockets
    BY <1>1, <1>3
  <2>2. /\ o = Out(o.r, o.es) /\ o.r \in Sockets /\ o.es \in {<<>>, <<"error">>}
        /\ o.r.obj = r.obj /\ o.r.hclosed = r.hclosed /\ o.r.user = r.user
        /\ o.r.closing = r.closing /\ o.r.reg = r.reg
        /\ \/ o.r = r
           \/ r.reg /\ ~r.hclosed /\ o.r.st \in {r.st, "BOUND"}
    <3>1. CASE q.for = "bind"
      <4>1. o \in BindResolved(r, ok)
        BY <1>3, <3>1 DEF Resolved
      <4> HIDE DEF r
      <4> QED
        BY <2>1, <4>1, BindOutcome
    <3>2. CASE q.for # "bind"
      <4>1. o \in SendResolved(r, ok)
        BY <1>3, <3>2 DEF Resolved
      <4> HIDE DEF r
      <4> QED
        BY <2>1, <4>1 DEF SendResolved, Out
    <3> QED
      BY <3>1, <3>2
  <2>3. Apply(s, Out(o.r, o.es))
    BY <1>3, <2>2
  <2> HIDE DEF s
  <2>4. sock' = [sock EXCEPT ![s] = o.r] /\ QuietEvents
    <3>1. o.r \in Sockets /\ o.es \in {<<>>, <<"data">>, <<"error">>}
      BY <2>2
    <3> QED
      BY <1>1, <2>1, <2>3, <3>1, ApplyQuiet, Zenon
  <2>5. /\ sock' \in [Sock -> Sockets] /\ sock'[s] = o.r
        /\ \A x \in Sock : x # s => sock'[x] = sock[x]
    BY <1>1, <2>1, <2>2, <2>4
  <2>6. SocketInv(s)
    BY <2>1 DEF UdpInv
  <2>7. SocketInv(s)' /\ (r.st = "CLOSED" => o.r.st = "CLOSED")
    BY <2>1, <2>2, <2>5, <2>6 DEF SocketInv
  <2>8. \A x \in Sock : x # s => SocketInv(x)'
    BY <1>1, <2>5, SameSocket
  <2> QED
    BY <2>1, <2>2, <2>4, <2>5, <2>7, <2>8
<1> QED
  BY <1>2, <1>3 DEF CallBack

LEMMA ProcessOpKeepsInv ==
    ASSUME UdpInv, NEW s \in Sock,
           ProcessUdpBind(s) \/ ProcessUdpSend(s) \/ ProcessUdpSetOption(s) \/ ProcessUdpClose(s)
    PROVE  UdpInv'
<1> DEFINE r == sock[s]
           h == Head(ops).host
<1>1. /\ epc = "draining" /\ OpTaken /\ ops # <<>> /\ ops' = Tail(ops)
      /\ UNCHANGED <<flags, gameVars, loopVars>> /\ Head(ops).s = s
  BY DEF ProcessUdpBind, ProcessUdpSend, ProcessUdpSetOption, ProcessUdpClose, TakeOp, OpTaken
<1>2. /\ TypeOK /\ sock \in [Sock -> Sockets] /\ r \in Sockets /\ SocketInv(s) /\ DnsInv
      /\ flags \subseteq {"stop", "udp", "dns", "stopping"} /\ closing' = closing
      /\ ops \in Seq(Ops) /\ UNCHANGED <<epc, esock>>
  BY <1>1 DEF UdpInv, TypeOK, gameVars, loopVars
<1>3. h \in Host \cup {Literal} /\ Sock \subseteq Client
  <2>1. Head(ops) \in Ops
    BY <1>1, <1>2, TailFacts
  <2> QED
    BY <2>1, UdpAssumption DEF UdpAssumption, Ops
<1>4. \A x \in Sock : sock'[x] = sock[x] => SocketInv(x)'
  BY <1>1, <1>2, SameSocket
<1>5. ASSUME DnsInv', QuietEvents, NEW d \in Sockets, sock' = [sock EXCEPT ![s] = d],
             d.obj = r.obj, r.st = "CLOSED" => d.st = "CLOSED", SocketInv(s)'
      PROVE  UdpInv'
  <2>1. /\ sock' \in [Sock -> Sockets] /\ sock'[s] = d
        /\ \A x \in Sock : x # s => sock'[x] = sock[x]
    BY <1>2, <1>5
  <2>2. \A x \in Sock : /\ SocketInv(x)' /\ sock'[x].obj = sock[x].obj
                        /\ sock[x].st = "CLOSED" => sock'[x].st = "CLOSED"
    BY <1>4, <1>5, <2>1
  <2> HIDE DEF r
  <2> QED
    BY <1>1, <1>2, <1>5, <2>1, <2>2, QuietKeepsInv
<1>6. ASSUME DnsInv', UNCHANGED <<sock, events>> PROVE UdpInv'
  BY <1>1, <1>2, <1>4, <1>6, QuietUnchanged, QuietKeepsInv
<1>7. CASE ProcessUdpBind(s)
  <2> DEFINE c == [r EXCEPT !.reg = TRUE]
  <2>1. HasOp(ops, "bind", s) /\ ~HasOp(ops', "bind", s)
    BY <1>1, <1>2, <1>7, TailFacts DEF ProcessUdpBind, TakeOp, SocketInv
  <2>2. ~r.reg /\ r.st = "CREATED" /\ r.user # "new" /\ r.uv = "none" /\ ~r.closing
    BY <1>2, <2>1 DEF SocketInv
  <2>3. /\ c \in Sockets /\ c.reg /\ c.st = "CREATED" /\ c.obj = r.obj /\ c.user = r.user
        /\ c.hclosed = r.hclosed /\ c.uv = r.uv /\ c.closing = r.closing
    BY <1>2, <2>2 DEF Sockets
  <2>4. ASSUME NEW d \in Sockets, sock' = [sock EXCEPT ![s] = d], d.reg, d.obj = r.obj,
               d.user = r.user, d.hclosed = r.hclosed, ~d.closing,
               d.st \in {"CREATED", "BOUND"}
        PROVE  SocketInv(s)'
    <3>1. sock'[s] = d
      BY <1>2, <2>4
    <3>2. (HasOp(ops', "close", s) => HasOp(ops, "close", s)) /\ AtMostOne(ops', "bind", s)
      BY <1>1, <1>2, OpTakenFacts DEF SocketInv
    <3> QED
      BY <1>2, <2>1, <2>2, <2>4, <3>1, <3>2 DEF SocketInv
  <2>5. CASE Apply(s, Out(c, <<>>)) /\ DnsInv'
    <3> HIDE DEF c
    <3>1. QuietEvents /\ sock' = [sock EXCEPT ![s] = c]
      <4>1. c \in Sockets /\ <<>> \in {<<>>, <<"data">>, <<"error">>}
        BY <2>3
      <4> QED
        BY <1>2, <2>5, <4>1, ApplyQuiet, Zenon
    <3> QED
      BY <1>5, <2>2, <2>3, <2>4, <2>5, <3>1
  <2>6. ASSUME NEW o \in BindResolved(c, TRUE), Apply(s, o), UNCHANGED dnsVars PROVE UdpInv'
    <3>1. DnsInv'
      BY <1>2, <2>6, OtherDnsSteps
    <3> HIDE DEF c
    <3>2. /\ o = Out(o.r, o.es) /\ o.r \in Sockets /\ o.es \in {<<>>, <<"error">>}
          /\ o.r.obj = c.obj /\ o.r.hclosed = c.hclosed /\ o.r.user = c.user
          /\ o.r.closing = c.closing /\ o.r.reg = c.reg /\ o.r.st \in {"CREATED", "BOUND"}
      BY <2>3, <2>6, BindOutcome, ZenonT(30)
    <3>3. Apply(s, Out(o.r, o.es))
      BY <2>6, <3>2
    <3>4. QuietEvents /\ sock' = [sock EXCEPT ![s] = o.r]
      <4>1. o.r \in Sockets /\ o.es \in {<<>>, <<"data">>, <<"error">>}
        BY <3>2
      <4> QED
        BY <1>2, <3>3, <4>1, ApplyQuiet, Zenon
    <3> QED
      BY <1>5, <2>2, <2>3, <2>4, <3>1, <3>2, <3>4
  <2>7. ASSUME ~Immediate(h), ResolveMiss([who |-> s, for |-> "bind", host |-> h]) PROVE DnsInv'
    <3>1. [who |-> s, for |-> "bind", host |-> h] \in Queries
      BY <1>3, <2>7 DEF Immediate, Queries
    <3> QED
      BY <1>2, <2>7, <3>1, ResolveMissKeepsDns
  <2>8. UNCHANGED dnsVars => DnsInv'
    BY <1>2, OtherDnsSteps
  <2> QED
    BY <1>7, <2>5, <2>6, <2>7, <2>8 DEF ProcessUdpBind
<1>8. CASE ProcessUdpSend(s)
  <2>1. UNCHANGED <<sock, events>>
    BY <1>8 DEF ProcessUdpSend
  <2>2. CASE UNCHANGED dnsVars
    BY <1>2, <1>6, <2>1, <2>2, OtherDnsSteps
  <2>3. CASE ~Immediate(h) /\ ResolveMiss([who |-> s, for |-> "send", host |-> h])
    <3>1. [who |-> s, for |-> "send", host |-> h] \in Queries
      BY <1>3, <2>3 DEF Immediate, Queries
    <3> QED
      BY <1>2, <1>6, <2>1, <2>3, <3>1, ResolveMissKeepsDns
  <2> QED
    BY <1>8, <2>2, <2>3 DEF ProcessUdpSend
<1>9. CASE ProcessUdpSetOption(s)
  BY <1>2, <1>6, <1>9, OtherDnsSteps DEF ProcessUdpSetOption
<1>10. CASE ProcessUdpClose(s)
  <2>1. DnsInv'
    BY <1>2, <1>10, OtherDnsSteps DEF ProcessUdpClose
  <2>2. CASE ~r.reg \/ r.st \in {"CLOSING", "CLOSED"}
    BY <1>6, <1>10, <2>1, <2>2 DEF ProcessUdpClose
  <2>3. CASE r.reg /\ r.st \notin {"CLOSING", "CLOSED"}
    <3>1. HasOp(ops, "close", s) /\ r.hclosed
      <4>1. HasOp(ops, "close", s)
        BY <1>1, <1>2, <1>10, TailFacts DEF ProcessUdpClose, TakeOp
      <4> QED
        BY <1>2, <4>1 DEF SocketInv
    <3>2. CASE r.uv # "none"
      <4> DEFINE d == [r EXCEPT !.st = "CLOSING", !.closing = TRUE, !.uv = "idle"]
      <4>1. Apply(s, Out(d, <<>>))
        BY <1>10, <2>3, <3>2 DEF ProcessUdpClose
      <4>2. /\ d \in Sockets /\ d.reg /\ d.st = "CLOSING" /\ d.obj = r.obj /\ d.user = r.user
            /\ d.hclosed /\ d.uv = "idle" /\ d.closing
        BY <1>2, <2>3, <3>1 DEF Sockets
      <4> HIDE DEF d
      <4>3. QuietEvents /\ sock' = [sock EXCEPT ![s] = d]
        <5>1. d \in Sockets /\ <<>> \in {<<>>, <<"data">>, <<"error">>}
          BY <4>2
        <5> QED
          BY <1>2, <4>1, <5>1, ApplyQuiet, Zenon
      <4>4. sock'[s] = d
        BY <1>2, <4>3
      <4>5. SocketInv(s)'
        BY <1>1, <1>2, <2>3, <4>2, <4>4, OpTakenFacts DEF SocketInv
      <4> QED
        BY <1>5, <2>1, <2>3, <4>2, <4>3, <4>5
    <3>3. CASE r.uv = "none"
      <4> DEFINE d == [r EXCEPT !.st = "CLOSED", !.reg = FALSE]
      <4>1. Apply(s, Out(d, <<"closed">>))
        BY <1>10, <2>3, <3>3 DEF ProcessUdpClose
      <4>2. ~r.closing
        BY <1>2, <2>3 DEF SocketInv
      <4>3. /\ d \in Sockets /\ ~d.reg /\ d.st = "CLOSED" /\ d.obj = r.obj /\ d.user = r.user
            /\ d.hclosed /\ d.uv = "none" /\ ~d.closing
        BY <1>2, <2>3, <3>1, <3>3, <4>2 DEF Sockets
      <4> HIDE DEF d
      <4>4. sock' = [sock EXCEPT ![s] = d] /\ events' = Append(events, Event("closed", s))
        BY <1>2, <4>1, <4>3, ApplyClosed
      <4> QED
        BY <1>1, <1>2, <2>1, <2>3, <3>1, <4>3, <4>4, PushKeepsInv
    <3> QED
      BY <3>2, <3>3
  <2> QED
    BY <2>2, <2>3
<1> QED
  BY <1>7, <1>8, <1>9, <1>10

LEMMA SetToSeqFacts ==
    ASSUME NEW S, IsFiniteSet(S)
    PROVE  Cardinality(S) \in Nat /\ SetToSeq(S) \in [1 .. Cardinality(S) -> S]
<1>1. Cardinality(S) \in Nat /\ \E f \in [1 .. Cardinality(S) -> S] : IsInjective(f)
  BY FS_CardinalityType DEF ExistsBijection, Bijection, Injection
<1> QED
  BY <1>1 DEF SetToSeq

\* Cancelling every query, of however many sockets, reports errors only.
LEMMA DnsOpKeepsInv == ASSUME UdpInv, OnAsyncDnsOp PROVE UdpInv'
<1>1. /\ epc = "poll" /\ flags' = flags \ {"dns"}
      /\ UNCHANGED <<sock, ops, gameVars, loopVars>>
  BY DEF OnAsyncDnsOp
<1>2. TypeOK /\ DnsInv /\ OpTaken
  BY <1>1 DEF UdpInv, OpTaken
<1>3. DnsInv'
  BY <1>2, OtherDnsSteps DEF OnAsyncDnsOp
<1>4. QuietEvents
  <2> DEFINE told == {q \in queries : q.who \in Sock
                        /\ \E o \in Resolved(q, sock[q.who], FALSE) : o.es # <<>>}
             asked == SetToSeq(told)
             n == Cardinality(told)
             es == [i \in DOMAIN asked |-> Event("error", asked[i].who)]
  <2>1. events' = events \o es
    BY DEF OnAsyncDnsOp
  <2>2. told \in SUBSET queries /\ IsFiniteSet(queries) /\ \A q \in told : q.who \in Sock
    BY <1>2 DEF DnsInv
  <2>3. IsFiniteSet(told)
    BY <2>2, FS_Subset
  <2> HIDE DEF told
  <2>4. n \in Nat /\ asked \in [1 .. n -> told]
    BY <2>3, SetToSeqFacts
  <2> HIDE DEF n, asked
  <2>5. es \in [1 .. n -> Events] /\ \A i \in 1 .. n : es[i].type = "error"
    BY <2>2, <2>4 DEF Event, Events
  <2> HIDE DEF es
  <2>6. es \in Seq(Events) /\ DOMAIN es = 1 .. n
    BY <2>4, <2>5
  <2> QED
    BY <1>2, <2>1, <2>5, <2>6, QuietErrors
<1>5. \A x \in Sock : SocketInv(x)'
  BY <1>1, <1>2, SameSocket DEF gameVars
<1>6. sock \in [Sock -> Sockets] /\ flags' \subseteq {"stop", "udp", "dns", "stopping"}
  BY <1>1, <1>2 DEF TypeOK
<1> QED
  BY <1>1, <1>2, <1>3, <1>4, <1>5, <1>6, QuietKeepsInv DEF loopVars

\* The callbacks of libuv and c-ares, the other async handles and the clock
LEMMA LoopKeepsInv ==
    ASSUME UdpInv,
           \/ OnAsyncStop \/ EventExit \/ OnAsyncUdpOpEnter \/ OnAsyncUdpOpExit
           \/ \E s \in Sock : OnUdpClosedPushes(s) \/ Peer(s)
           \/ OnUdpClosedErases
           \/ \E c \in Client \ Sock, h \in Host : TcpResolve(c, h)
           \/ \E q \in Queries : OnPollActivity(q) \/ OnTimer(q)
           \/ OnTimerIdle \/ ResolveStored
    PROVE  UdpInv'
<1>1. TypeOK /\ DnsInv /\ sock \in [Sock -> Sockets]
      /\ flags \subseteq {"stop", "udp", "dns", "stopping"}
  BY DEF UdpInv, TypeOK
<1>2. ASSUME DnsInv', ops' = ops, UNCHANGED <<gameVars, esock, sock, events>>,
             epc \notin {"exited", "erase"}, epc' \in {"poll", "draining", "store", "exited"},
             flags' \subseteq {"stop", "udp", "dns", "stopping"}
      PROVE  UdpInv'
  <2>1. OpTaken /\ QuietEvents
    BY <1>1, <1>2, QuietUnchanged DEF OpTaken
  <2>2. \A x \in Sock : SocketInv(x)'
    BY <1>2, <2>1, SameSocket DEF gameVars
  <2> QED
    BY <1>1, <1>2, <2>1, <2>2, QuietKeepsInv
<1>3. CASE OnAsyncStop \/ EventExit \/ OnAsyncUdpOpEnter \/ OnAsyncUdpOpExit
  <2>1. /\ UNCHANGED <<dnsVars, sock, ops, events, gameVars, esock>>
        /\ epc \in {"poll", "draining"} /\ epc' \in {"poll", "draining", "exited"}
    BY <1>3 DEF OnAsyncStop, EventExit, OnAsyncUdpOpEnter, OnAsyncUdpOpExit, loopVars
  <2>2. flags' \subseteq {"stop", "udp", "dns", "stopping"}
    BY <1>1, <1>3 DEF OnAsyncStop, EventExit, OnAsyncUdpOpEnter, OnAsyncUdpOpExit
  <2> QED
    BY <1>1, <1>2, <2>1, <2>2, OtherDnsSteps
<1>4. ASSUME NEW s \in Sock, OnUdpClosedPushes(s) PROVE UdpInv'
  <2> DEFINE r == sock[s]
             d == [r EXCEPT !.st = "CLOSED", !.uv = "none", !.closing = FALSE]
  <2>1. /\ epc = "poll" /\ r.closing /\ Apply(s, Out(d, <<"closed">>))
        /\ epc' = "erase" /\ esock' = s /\ UNCHANGED <<dnsVars, ops, flags, gameVars>>
    BY <1>4 DEF OnUdpClosedPushes
  <2>2. SocketInv(s) /\ r \in Sockets
    BY <1>1 DEF UdpInv
  <2>3. r.reg /\ r.st = "CLOSING" /\ r.hclosed
    BY <2>1, <2>2 DEF SocketInv
  <2>4. /\ d \in Sockets /\ d.reg = r.reg /\ d.st = "CLOSED" /\ d.obj = r.obj
        /\ d.user = r.user /\ d.hclosed /\ d.uv = "none" /\ ~d.closing
    BY <2>2, <2>3 DEF Sockets
  <2> HIDE DEF d
  <2>5. sock' = [sock EXCEPT ![s] = d] /\ events' = Append(events, Event("closed", s))
    BY <1>1, <2>1, <2>4, ApplyClosed
  <2>6. DnsInv' /\ OpTaken
    BY <1>1, <2>1, OtherDnsSteps DEF OpTaken
  <2> QED
    BY <2>1, <2>3, <2>4, <2>5, <2>6, PushKeepsInv
\* The entry is erased after the push, with the object still there or not.
<1>5. CASE OnUdpClosedErases
  <2>1. /\ epc = "erase" /\ epc' \in {"undefined", "poll"} /\ esock' = None
        /\ sock' = [sock EXCEPT ![esock].reg = FALSE]
        /\ UNCHANGED <<dnsVars, ops, events, flags, gameVars>>
    BY <1>5 DEF OnUdpClosedErases
  <2>2. esock \in Sock /\ sock[esock].st = "CLOSED" /\ gpc # "unloaded"
    BY <2>1 DEF UdpInv, ControlInv
  <2> DEFINE d == [sock[esock] EXCEPT !.reg = FALSE]
  <2>3. /\ d \in Sockets /\ ~d.reg /\ d.st = "CLOSED" /\ d.obj = sock[esock].obj
        /\ d.user = sock[esock].user /\ d.hclosed = sock[esock].hclosed
        /\ d.uv = sock[esock].uv /\ d.closing = sock[esock].closing
    BY <1>1, <2>2 DEF Sockets
  <2>4. sock' \in [Sock -> Sockets] /\ sock'[esock] = d
        /\ \A x \in Sock : x # esock => sock'[x] = sock[x]
    <3>1. sock' = [sock EXCEPT ![esock] = d]
      BY <2>1
    <3> HIDE DEF d
    <3> QED
      BY <1>1, <2>2, <2>3, <3>1
  <2> HIDE DEF d
  <2>5. DnsInv'
    BY <1>1, <2>1, OtherDnsSteps
  <2>6. TypeOK'
    BY <1>1, <2>1, <2>4, <2>5 DEF TypeOK, DnsInv, gameVars
  <2>7. ControlInv'
    BY <2>1, <2>2 DEF UdpInv, ControlInv, gameVars
  <2>8. ASSUME NEW x \in Sock PROVE SocketInv(x)' /\ ClosedInv(x)'
    <3>1. SocketInv(x) /\ ClosedInv(x)
      BY DEF UdpInv
    <3>2. CASE x = esock
      BY <2>1, <2>2, <2>3, <2>4, <3>1, <3>2 DEF SocketInv, ClosedInv, gameVars
    <3>3. CASE x # esock
      BY <2>1, <2>4, <3>1, <3>3 DEF SocketInv, ClosedInv, gameVars
    <3> QED
      BY <3>2, <3>3
  <2> QED
    BY <2>5, <2>6, <2>7, <2>8 DEF UdpInv
<1>6. ASSUME NEW s \in Sock, Peer(s) PROVE UdpInv'
  <2>1. PICK es \in {<<>>, <<"data">>, <<"error">>} : Apply(s, Out(sock[s], es))
    BY <1>6 DEF Peer, UdpReadData, UdpReadError
  <2>2. /\ epc = "poll" /\ UNCHANGED <<dnsVars, ops, flags, gameVars, epc, esock>>
    BY <1>6 DEF Peer, UdpReadData, UdpReadError, InLoop
  <2>3. QuietEvents /\ sock' = [sock EXCEPT ![s] = sock[s]]
    BY <1>1, <2>1, ApplyQuiet
  <2>4. sock' = sock
    BY <1>1, <2>3
  <2>5. OpTaken /\ DnsInv'
    BY <1>1, <2>2, OtherDnsSteps DEF OpTaken
  <2>6. \A x \in Sock : SocketInv(x)'
    BY <2>2, <2>4, <2>5, SameSocket DEF gameVars
  <2> QED
    BY <1>1, <2>2, <2>3, <2>4, <2>5, <2>6, QuietKeepsInv
<1>7. ASSUME NEW c \in Client \ Sock, NEW h \in Host, TcpResolve(c, h) PROVE UdpInv'
  <2> DEFINE q == [who |-> c, for |-> "connect", host |-> h]
  <2>1. /\ epc = "poll" /\ UNCHANGED <<ops, flags, gameVars, epc, esock, sock, events>>
        /\ ResolveMiss(q)
    BY <1>7 DEF TcpResolve, InLoop
  <2>2. q \in Queries
    BY DEF Queries
  <2>3. DnsInv'
    BY <1>1, <2>1, <2>2, ResolveMissKeepsDns
  <2> QED
    BY <1>1, <1>2, <2>1, <2>3
\* A query that ends without a detour over the cache calls back at once.
<1>8. ASSUME NEW q \in Queries, NEW ok \in BOOLEAN, DnsInv', CallBack(q, ok),
             epc \in {"poll", "store"}, epc' = "poll", UNCHANGED <<ops, flags, gameVars, esock>>
      PROVE  UdpInv'
  <2>1. OpTaken
    BY <1>8 DEF OpTaken
  <2>2. /\ QuietEvents /\ sock' \in [Sock -> Sockets]
        /\ \A x \in Sock : /\ SocketInv(x)'
                           /\ sock'[x].obj = sock[x].obj
                           /\ sock[x].st = "CLOSED" => sock'[x].st = "CLOSED"
    BY <1>8, CallBackFacts DEF gameVars
  <2> QED
    BY <1>1, <1>8, <2>1, <2>2, QuietKeepsInv
<1>9. ASSUME NEW q \in Queries, OnPollActivity(q) \/ OnTimer(q) PROVE UdpInv'
  <2>1. epc = "poll" /\ UNCHANGED <<ops, flags, gameVars, esock>>
    BY <1>9 DEF OnPollActivity, OnTimer, InLoop
  <2>2. CASE CompleteToCache(q) /\ epc' = "store" /\ UNCHANGED <<sock, events>>
    <3>1. Completes(q) /\ UNCHANGED cache /\ answer' \in Queries \X AnswerTtls
      BY <2>2 DEF CompleteToCache
    <3>2. DnsInv'
      BY <1>1, <3>1, CompletesKeepsDns
    <3> QED
      BY <1>1, <1>2, <2>1, <2>2, <3>2
  <2>3. ASSUME NEW ok \in BOOLEAN, CompleteUncached(q, ok), CallBack(q, ok), epc' = epc
        PROVE  UdpInv'
    <3>1. DnsInv'
      BY <1>1, <2>3, CompletesKeepsDns DEF CompleteUncached
    <3> QED
      BY <1>8, <2>1, <2>3, <3>1
  <2> QED
    BY <1>9, <2>2, <2>3 DEF OnPollActivity, OnTimer
<1>10. CASE OnTimerIdle
  <2>1. /\ epc = "poll" /\ UNCHANGED <<ops, flags, gameVars, epc, esock, sock, events>>
    BY <1>10 DEF OnTimerIdle, InLoop
  <2>2. DnsInv'
    BY <1>1, <1>10, OtherDnsSteps DEF OnTimerIdle
  <2> QED
    BY <1>1, <1>2, <2>1, <2>2
<1>11. CASE ResolveStored
  <2>1. /\ epc = "store" /\ StoreAnswer /\ CallBack(answer[1], TRUE) /\ epc' = "poll"
        /\ UNCHANGED <<ops, flags, gameVars, esock>>
    BY <1>11 DEF ResolveStored
  <2>2. answer[1] \in Queries
    BY <1>1, <2>1 DEF DnsInv, DnsTypeOK, StoreAnswer
  <2>3. DnsInv'
    BY <1>1, <2>1, StoreAnswerKeepsDns
  <2> QED
    BY <1>8, <2>1, <2>2, <2>3
<1> QED
  BY <1>3, <1>4, <1>5, <1>6, <1>7, <1>9, <1>10, <1>11

-----------------------------------------------------------------------------
(* The sockets: steps of the game thread, and the clock                    *)

\* A step that leaves the queue of events and the dispatcher alone.  Its CLOSE ops
\* are for sockets whose handle_closed is set, and a BIND op comes once.
LEMMA NativeKeepsInv ==
    ASSUME UdpInv, DnsInv', UNCHANGED <<events, loopVars, gpc, evt>>,
           gpc \notin {"joining", "unloaded"} \/ UNCHANGED <<ops, closing, todo>>,
           ops' \in Seq(Ops), loaded' \in BOOLEAN, closing' \in Sock \cup {None},
           todo' \subseteq Sock, flags' \subseteq {"stop", "udp", "dns", "stopping"},
           sock' \in [Sock -> Sockets],
           \A x \in Sock :
               /\ SocketInv(x)'
               /\ sock'[x].st = sock[x].st
               /\ sock'[x].obj = "freed" => sock[x].obj = "freed"
    PROVE  UdpInv'
<1>1. TypeOK'
  BY DEF UdpInv, TypeOK, DnsInv, loopVars
<1>2. ControlInv'
  BY DEF UdpInv, ControlInv, loopVars
<1>3. ASSUME NEW x \in Sock PROVE ClosedInv(x)'
  <2>1. ClosedInv(x)
    BY DEF UdpInv
  <2> QED
    BY <2>1 DEF ClosedInv
<1> QED
  BY <1>1, <1>2, <1>3 DEF UdpInv

\* Bind, Send and SetOption
LEMMA EnqueuesKeepsInv ==
    ASSUME UdpInv, NEW s \in Sock, NEW op \in Ops, op.s = s, op.type # "close",
           op.type = "bind" => sock[s].user = "new", Enqueues(op)
    PROVE  UdpInv'
<1>1. TypeOK /\ DnsInv /\ ops \in Seq(Ops) /\ sock \in [Sock -> Sockets] /\ SocketInv(s)
  BY DEF UdpInv, TypeOK
<1>2. /\ ops' = Append(ops, op) /\ flags' = flags \cup {"udp"}
      /\ sock' = [sock EXCEPT ![s].user = "bound"]
      /\ gpc \in {"idle", "callback"} /\ ~sock[s].hclosed
      /\ UNCHANGED <<dnsVars, events, gameVars, loopVars>>
  BY DEF Enqueues, EnqueueUdpOp, Running
<1> DEFINE d == [sock[s] EXCEPT !.user = "bound"]
<1>3. /\ d \in Sockets /\ d.user = "bound" /\ d.obj = sock[s].obj /\ d.hclosed = sock[s].hclosed
      /\ d.st = sock[s].st /\ d.uv = sock[s].uv /\ d.closing = sock[s].closing
      /\ d.reg = sock[s].reg
  BY <1>1 DEF Sockets
<1>4. sock' = [sock EXCEPT ![s] = d]
  BY <1>2
<1> HIDE DEF d
<1>5. /\ sock' \in [Sock -> Sockets] /\ sock'[s] = d
      /\ \A x \in Sock : x # s => sock'[x] = sock[x]
  BY <1>1, <1>3, <1>4
<1>6. /\ ops' \in Seq(Ops)
      /\ \A t, x : HasOp(ops', t, x) <=> HasOp(ops, t, x) \/ (op.type = t /\ s = x)
      /\ \A t, x : AtMostOne(ops, t, x) /\ (~(op.type = t /\ s = x) \/ ~HasOp(ops, t, x)) =>
                       AtMostOne(ops', t, x)
  BY <1>1, <1>2, AppendFacts
<1>7. SocketInv(s)'
  <2>1. CASE op.type = "bind"
    <3>1. ~HasOp(ops, "bind", s) /\ ~sock[s].reg /\ sock[s].st = "CREATED"
      BY <1>1, <2>1 DEF SocketInv
    <3> QED
      BY <1>1, <1>2, <1>3, <1>5, <1>6, <2>1, <3>1 DEF SocketInv, gameVars, loopVars
  <2>2. CASE op.type # "bind"
    BY <1>1, <1>2, <1>3, <1>5, <1>6, <2>2 DEF SocketInv, gameVars, loopVars
  <2> QED
    BY <2>1, <2>2
<1>8. ASSUME NEW x \in Sock, x # s PROVE SocketInv(x)'
  <2>1. SocketInv(x)
    BY DEF UdpInv
  <2> QED
    BY <1>2, <1>5, <1>6, <1>8, <2>1 DEF SocketInv, gameVars, loopVars
<1>9. /\ loaded' \in BOOLEAN /\ closing' \in Sock \cup {None} /\ todo' \subseteq Sock
      /\ flags' \subseteq {"stop", "udp", "dns", "stopping"}
  BY <1>1, <1>2 DEF TypeOK, gameVars
<1>10. DnsInv'
  BY <1>1, <1>2, OtherDnsSteps
<1> QED
  BY <1>2, <1>3, <1>5, <1>6, <1>7, <1>8, <1>9, <1>10, NativeKeepsInv DEF gameVars

LEMMA GameKeepsInv ==
    ASSUME UdpInv,
           \/ \E s \in Sock : GameNative(s) \/ CloseNext(s)
           \/ Native_DnsSetTimeout \/ Native_DnsCache \/ EnqueueClose \/ OnPluginUnloaded
           \/ Time
    PROVE  UdpInv'
<1>1. /\ TypeOK /\ DnsInv /\ ops \in Seq(Ops) /\ sock \in [Sock -> Sockets]
      /\ loaded \in BOOLEAN /\ closing \in Sock \cup {None} /\ todo \subseteq Sock
      /\ flags \subseteq {"stop", "udp", "dns", "stopping"}
      /\ \A x \in Sock : SocketInv(x)
  BY DEF UdpInv, TypeOK
<1>2. UNCHANGED dnsVars => DnsInv'
  BY <1>1, OtherDnsSteps
\* The resolver, the flags or the unload list change, the sockets do not
<1>3. ASSUME DnsInv', UNCHANGED <<sock, ops, events, gpc, evt, closing, loopVars>>,
             gpc \notin {"joining", "unloaded"} \/ todo' = todo,
             loaded' \in BOOLEAN, todo' \subseteq Sock,
             flags' \subseteq {"stop", "udp", "dns", "stopping"}
      PROVE  UdpInv'
  <2>1. \A x \in Sock : SocketInv(x)'
    BY <1>1, <1>3 DEF SocketInv, loopVars
  <2> QED
    BY <1>1, <1>3, <2>1, NativeKeepsInv
\* One socket is created or has handle_closed set
<1>4. ASSUME NEW s \in Sock, NEW d \in Sockets, sock' = [sock EXCEPT ![s] = d],
             d.st = sock[s].st, d.obj = "freed" => sock[s].obj = "freed",
             d.uv = sock[s].uv, d.closing = sock[s].closing, d.reg = sock[s].reg,
             d.user = sock[s].user, d.hclosed = sock[s].hclosed \/ d.hclosed,
             closing' = closing \/ (closing' = s /\ d.hclosed),
             UNCHANGED <<dnsVars, ops, events, flags, loaded, gpc, evt, loopVars>>,
             gpc \notin {"joining", "unloaded"}, todo' \subseteq Sock
      PROVE  UdpInv'
  <2>1. /\ sock' \in [Sock -> Sockets] /\ sock'[s] = d
        /\ \A x \in Sock : x # s => sock'[x] = sock[x]
    BY <1>1, <1>4
  <2>2. SocketInv(s)'
    BY <1>1, <1>4, <2>1 DEF SocketInv, loopVars
  <2>3. ASSUME NEW x \in Sock, x # s PROVE SocketInv(x)'
    <3>1. closing' = x => closing = x
      BY <1>4, <2>3
    <3> QED
      BY <1>1, <1>4, <2>1, <2>3, <3>1 DEF SocketInv, loopVars
  <2>4. closing' \in Sock \cup {None}
    BY <1>1, <1>4
  <2> QED
    BY <1>1, <1>2, <1>4, <2>1, <2>2, <2>3, <2>4, NativeKeepsInv
<1>5. ASSUME NEW s \in Sock, GameNative(s) PROVE UdpInv'
  <2>1. CASE Native_UdpNew(s)
    <3> DEFINE d == [sock[s] EXCEPT !.obj = "live"]
    <3>1. /\ d \in Sockets /\ d.obj = "live" /\ d.st = sock[s].st /\ d.uv = sock[s].uv
          /\ d.closing = sock[s].closing /\ d.reg = sock[s].reg /\ d.user = sock[s].user
          /\ d.hclosed = sock[s].hclosed
      BY <1>1 DEF Sockets
    <3>2. /\ sock' = [sock EXCEPT ![s] = d] /\ gpc \in {"idle", "callback"}
          /\ UNCHANGED <<dnsVars, ops, events, flags, gameVars, loopVars>>
      BY <2>1 DEF Native_UdpNew, Running
    <3> HIDE DEF d
    <3> QED
      BY <1>1, <1>4, <3>1, <3>2 DEF gameVars
  <2>2. CASE Native_UdpClose(s)
    <3> DEFINE d == [sock[s] EXCEPT !.hclosed = TRUE]
    <3>1. /\ d \in Sockets /\ d.obj = sock[s].obj /\ d.st = sock[s].st /\ d.uv = sock[s].uv
          /\ d.closing = sock[s].closing /\ d.reg = sock[s].reg /\ d.user = sock[s].user
          /\ d.hclosed
      BY <1>1 DEF Sockets
    <3>2. /\ sock' = [sock EXCEPT ![s] = d] /\ gpc \in {"idle", "callback"} /\ closing' = s
          /\ UNCHANGED <<dnsVars, ops, events, flags, loaded, gpc, evt, todo, loopVars>>
      BY <2>2 DEF Native_UdpClose, Running
    <3> HIDE DEF d
    <3> QED
      BY <1>1, <1>4, <3>1, <3>2
  <2>3. ASSUME NEW op \in Ops, op.s = s, op.type # "close",
               op.type = "bind" => sock[s].user = "new", Enqueues(op)
        PROVE  UdpInv'
    BY <2>3, EnqueuesKeepsInv
  <2>4. \A t \in {"bind", "send", "option"}, h \in Names \cup {Literal} :
            /\ Op(t, s, h) \in Ops /\ Op(t, s, h).s = s /\ Op(t, s, h).type = t
    BY UdpAssumption DEF UdpAssumption, Op, Ops
  <2>5. CASE Native_UdpSetOption(s)
    BY <2>3, <2>4, <2>5 DEF Native_UdpSetOption
  <2>6. ASSUME NEW h \in Names, Native_UdpBind(s, h) PROVE UdpInv'
    BY <2>3, <2>4, <2>6 DEF Native_UdpBind
  <2>7. ASSUME NEW h \in Names, Native_UdpSend(s, h) PROVE UdpInv'
    BY <2>3, <2>4, <2>7 DEF Native_UdpSend
  <2> QED
    BY <1>5, <2>1, <2>2, <2>5, <2>6, <2>7 DEF GameNative
<1>6. ASSUME NEW s \in Sock, CloseNext(s) PROVE UdpInv'
  <2> DEFINE d == [sock[s] EXCEPT !.hclosed = TRUE]
  <2>1. /\ d \in Sockets /\ d.obj = sock[s].obj /\ d.st = sock[s].st /\ d.uv = sock[s].uv
        /\ d.closing = sock[s].closing /\ d.reg = sock[s].reg /\ d.user = sock[s].user
        /\ d.hclosed
    BY <1>1 DEF Sockets
  <2>2. /\ sock' = [sock EXCEPT ![s] = d] /\ closing' = s /\ s \in todo /\ todo' = todo \ {s}
        /\ UNCHANGED <<dnsVars, ops, events, flags, loaded, gpc, evt, loopVars>>
    BY <1>6 DEF CloseNext
  <2>3. gpc \notin {"joining", "unloaded"}
    BY <2>2 DEF UdpInv, ControlInv
  <2> HIDE DEF d
  <2> QED
    BY <1>1, <1>4, <2>1, <2>2, <2>3
<1>7. CASE Native_DnsSetTimeout
  BY <1>1, <1>2, <1>3, <1>7 DEF Native_DnsSetTimeout, gameVars
<1>8. CASE Native_DnsCache
  <2>1. DnsInv'
    BY <1>1, <1>8, OtherDnsSteps DEF Native_DnsCache
  <2> QED
    BY <1>1, <1>3, <1>8, <2>1 DEF Native_DnsCache, gameVars
<1>9. CASE Time
  <2>1. DnsInv'
    BY <1>1, <1>9, OtherDnsSteps DEF Time
  <2> QED
    BY <1>1, <1>3, <1>9, <2>1 DEF Time, gameVars
<1>10. CASE OnPluginUnloaded
  BY <1>1, <1>2, <1>3, <1>10 DEF OnPluginUnloaded
<1>11. CASE EnqueueClose
  <2> DEFINE op == Op("close", closing, Literal)
  <2>1. /\ closing \in Sock /\ ops' = Append(ops, op) /\ flags' = flags \cup {"udp"}
        /\ closing' = None
        /\ UNCHANGED <<dnsVars, sock, events, loaded, gpc, evt, todo, loopVars>>
    BY <1>1, <1>11 DEF EnqueueClose, EnqueueUdpOp
  <2>2. op \in Ops /\ op.type = "close" /\ op.s = closing
    BY <2>1 DEF Op, Ops
  <2> HIDE DEF op
  <2>3. /\ ops' \in Seq(Ops)
        /\ \A t, x : HasOp(ops', t, x) <=> HasOp(ops, t, x) \/ (t = "close" /\ x = closing)
        /\ \A x : AtMostOne(ops, "bind", x) => AtMostOne(ops', "bind", x)
    BY <1>1, <2>1, <2>2, AppendFacts
  <2>4. ASSUME NEW x \in Sock PROVE SocketInv(x)'
    <3>1. closing' # x
      BY <2>1, UdpAssumption DEF UdpAssumption
    <3> QED
      BY <1>1, <2>1, <2>3, <3>1 DEF SocketInv, loopVars
  <2>5. gpc \notin {"joining", "unloaded"}
    BY <2>1, UdpAssumption DEF UdpAssumption, UdpInv, ControlInv
  <2> QED
    BY <1>1, <1>2, <2>1, <2>3, <2>4, <2>5, NativeKeepsInv
<1> QED
  BY <1>5, <1>6, <1>7, <1>8, <1>9, <1>10, <1>11

\* UDP_CLOSED is dispatched and the object deleted; the extension unloads
LEMMA DispatchKeepsInv ==
    ASSUME UdpInv, DispatchSocketEvent \/ DispatchReturn \/ SDK_OnUnload \/ StopJoined
    PROVE  UdpInv'
<1>1. /\ TypeOK /\ DnsInv /\ ops \in Seq(Ops) /\ sock \in [Sock -> Sockets]
      /\ events \in Seq(Events) /\ ControlInv /\ None \notin Sock
      /\ \A x \in Sock : SocketInv(x) /\ ClosedInv(x)
  BY UdpAssumption DEF UdpAssumption, UdpInv, TypeOK
<1>2. UNCHANGED dnsVars => DnsInv'
  BY <1>1, OtherDnsSteps
<1>3. CASE DispatchSocketEvent
  <2> DEFINE e == Head(events)
  <2>1. /\ gpc = "idle" /\ closing = None /\ todo = {} /\ events # <<>>
        /\ events' = Tail(events)
        /\ \/ e.type = "closed" /\ gpc' = "callback" /\ evt' = e.s
           \/ e.type # "closed" /\ UNCHANGED <<gpc, evt>>
        /\ UNCHANGED <<dnsVars, sock, ops, flags, loaded, closing, todo, loopVars>>
    BY <1>3 DEF DispatchSocketEvent
  <2>2. /\ events' \in Seq(Events) /\ e \in Events
        /\ \A x : /\ HasOp(events, "closed", x) <=>
                         (e.type = "closed" /\ e.s = x) \/ HasOp(events', "closed", x)
                  /\ AtMostOne(events, "closed", x) =>
                         /\ AtMostOne(events', "closed", x)
                         /\ ~(e.type = "closed" /\ e.s = x /\ HasOp(events', "closed", x))
    BY <1>1, <2>1, TailFacts
  <2> HIDE DEF e
  <2>3. evt = None /\ e.s \in Sock
    BY <1>1, <2>1, <2>2 DEF ControlInv, Events
  <2>4. TypeOK'
    <3>1. evt' \in Sock \cup {None} /\ gpc' \in {"idle", "callback"}
      BY <2>1, <2>3
    <3> QED
      BY <1>1, <1>2, <2>1, <2>2, <3>1 DEF TypeOK, DnsInv, loopVars
  <2>5. ControlInv'
    BY <1>1, <2>1, <2>3 DEF ControlInv, loopVars
  <2>6. ASSUME NEW x \in Sock PROVE SocketInv(x)' /\ ClosedInv(x)'
    <3>1. SocketInv(x)'
      BY <1>1, <2>1 DEF SocketInv, loopVars
    <3>2. ClosedInv(x)'
      BY <1>1, <2>1, <2>2, <2>3 DEF ClosedInv
    <3> QED
      BY <3>1, <3>2
  <2> QED
    BY <1>2, <2>1, <2>4, <2>5, <2>6 DEF UdpInv
<1>4. CASE DispatchReturn
  <2> DEFINE d == [sock[evt] EXCEPT !.obj = "freed"]
  <2>1. /\ gpc = "callback" /\ closing = None /\ gpc' = "idle" /\ evt' = None
        /\ sock' = [sock EXCEPT ![evt] = d]
        /\ UNCHANGED <<dnsVars, ops, events, flags, loaded, closing, todo, loopVars>>
    BY <1>4 DEF DispatchReturn
  <2>2. evt \in Sock
    BY <1>1, <2>1 DEF ControlInv, TypeOK
  <2>3. /\ d \in Sockets /\ d.obj = "freed" /\ d.st = sock[evt].st /\ d.uv = sock[evt].uv
        /\ d.closing = sock[evt].closing /\ d.reg = sock[evt].reg
        /\ d.user = sock[evt].user /\ d.hclosed = sock[evt].hclosed
    BY <1>1, <2>2 DEF Sockets
  <2> HIDE DEF d
  <2>4. /\ sock' \in [Sock -> Sockets] /\ sock'[evt] = d
        /\ \A x \in Sock : x # evt => sock'[x] = sock[x]
    BY <1>1, <2>1, <2>2, <2>3
  <2>5. TypeOK'
    BY <1>1, <1>2, <2>1, <2>4 DEF TypeOK, DnsInv, loopVars
  <2>6. ControlInv'
    BY <1>1, <2>1, <2>3, <2>4 DEF ControlInv, loopVars
  <2>7. ASSUME NEW x \in Sock PROVE SocketInv(x)' /\ ClosedInv(x)'
    <3>1. CASE x = evt
      BY <1>1, <2>1, <2>2, <2>3, <2>4, <3>1 DEF SocketInv, ClosedInv, loopVars
    <3>2. CASE x # evt
      BY <1>1, <2>1, <2>4, <3>2 DEF SocketInv, ClosedInv, loopVars
    <3> QED
      BY <3>1, <3>2
  <2> QED
    BY <1>2, <2>1, <2>5, <2>6, <2>7 DEF UdpInv
<1>5. CASE SDK_OnUnload
  <2>1. /\ gpc = "idle" /\ closing = None /\ todo = {} /\ gpc' = "joining"
        /\ flags' = flags \cup {"stop"}
        /\ UNCHANGED <<dnsVars, sock, ops, events, loaded, evt, closing, todo, loopVars>>
    BY <1>5 DEF SDK_OnUnload
  <2>2. TypeOK'
    BY <1>1, <1>2, <2>1 DEF TypeOK, DnsInv, loopVars
  <2>3. ControlInv'
    BY <1>1, <2>1 DEF ControlInv, loopVars
  <2>4. ASSUME NEW x \in Sock PROVE SocketInv(x)' /\ ClosedInv(x)'
    BY <1>1, <2>1 DEF SocketInv, ClosedInv, loopVars
  <2> QED
    BY <1>2, <2>1, <2>2, <2>3, <2>4 DEF UdpInv
<1>6. CASE StopJoined
  <2>1. /\ gpc = "joining" /\ epc = "exited" /\ gpc' = "unloaded" /\ Shutdown
        /\ ops' = <<>> /\ events' = <<>>
        /\ UNCHANGED <<flags, loaded, evt, closing, todo, loopVars>>
    BY <1>6 DEF StopJoined
  <2>2. ASSUME NEW x \in Sock
        PROVE  /\ sock'[x] \in Sockets
               /\ sock'[x].st = sock[x].st /\ sock'[x].hclosed = sock[x].hclosed
               /\ sock'[x].closing = sock[x].closing /\ sock'[x].reg = sock[x].reg
               /\ sock'[x].user = sock[x].user
               /\ sock'[x].uv = "none" \/ sock'[x].uv = sock[x].uv
    <3> DEFINE r == sock[x]
               u == IF r.reg THEN "none" ELSE r.uv
               o == IF r.obj = "live" THEN "freed" ELSE r.obj
    <3>1. sock'[x] = [r EXCEPT !.uv = u, !.obj = o]
      BY <1>6 DEF StopJoined
    <3>2. r \in Sockets
      BY <1>1
    <3>3. u \in {"none", "idle", "receiving"} /\ o \in {"none", "live", "freed"}
          /\ (u = "none" \/ u = r.uv)
      BY <3>2 DEF Sockets
    <3> HIDE DEF r, u, o
    <3>4. /\ sock'[x] \in Sockets /\ sock'[x].st = r.st /\ sock'[x].hclosed = r.hclosed
          /\ sock'[x].closing = r.closing /\ sock'[x].reg = r.reg
          /\ sock'[x].user = r.user /\ sock'[x].uv = u
      BY <3>1, <3>2, <3>3 DEF Sockets
    <3> QED
      BY <3>3, <3>4 DEF r
  <2>3. sock' \in [Sock -> Sockets]
    <3>1. sock' = [s \in Sock |-> sock'[s]]
      BY <1>6 DEF StopJoined
    <3> QED
      BY <2>2, <3>1
  <2>4. DnsInv'
    BY <1>1, <2>1, OtherDnsSteps
  <2>5. TypeOK'
    <3>1. ops' \in Seq(Ops) /\ events' \in Seq(Events)
      BY <2>1
    <3> QED
      BY <1>1, <2>1, <2>3, <2>4, <3>1 DEF TypeOK, DnsInv, loopVars
  <2>6. ControlInv'
    BY <1>1, <2>1 DEF ControlInv, loopVars
  <2>7. ASSUME NEW x \in Sock PROVE SocketInv(x)' /\ ClosedInv(x)'
    <3>1. /\ ~HasOp(ops', "bind", x) /\ ~HasOp(ops', "close", x) /\ AtMostOne(ops', "bind", x)
          /\ ~HasOp(events', "closed", x) /\ AtMostOne(events', "closed", x)
      BY <2>1 DEF HasOp, AtMostOne
    <3>2. evt' # x
      BY <1>1, <2>1 DEF ControlInv
    <3>3. SocketInv(x)'
      BY <1>1, <2>1, <2>2, <3>1 DEF SocketInv, loopVars
    <3> QED
      BY <2>1, <3>1, <3>2, <3>3 DEF ClosedInv
  <2> QED
    BY <2>4, <2>5, <2>6, <2>7 DEF UdpInv
<1> QED
  BY <1>3, <1>4, <1>5, <1>6

-----------------------------------------------------------------------------
LEMMA UdpInvInit == Init => UdpInv
<1> SUFFICES ASSUME Init PROVE UdpInv
  OBVIOUS
<1>1. DnsInv
  <2>1. IsFiniteSet({}) /\ Cardinality({}) = 0 /\ DOMAIN <<>> = {}
    BY FS_EmptySet
  <2>2. DOMAIN cache = {} /\ queries = {} /\ ttl \in Ttls /\ answer = NoAnswer
    BY <2>1, DnsAssumption DEF Init, DnsInit, DnsAssumption
  <2>3. channel \in BOOLEAN /\ timer \in BOOLEAN /\ polling \in BOOLEAN
    BY DEF Init, DnsInit
  <2>4. DnsTypeOK
    BY <2>2, <2>3 DEF DnsTypeOK
  <2>5. CacheWithinLimit
    <3>1. Cardinality(DOMAIN cache) = 0
      BY <2>1, <2>2
    <3> QED
      BY <3>1, DnsAssumption DEF DnsAssumption, CacheWithinLimit, GetCacheStats
  <2> QED
    BY <2>1, <2>2, <2>4, <2>5 DEF DnsInv, Watched
<1>2. Unused \in Sockets
  BY DEF Unused, Sockets
<1>3. TypeOK
  BY <1>1, <1>2 DEF Init, DnsInv, TypeOK
<1>4. ControlInv
  BY UdpAssumption DEF UdpAssumption, Init, ControlInv
<1>5. ASSUME NEW s \in Sock PROVE SocketInv(s) /\ ClosedInv(s)
  <2>1. sock[s] = Unused /\ ops = <<>> /\ events = <<>> /\ evt # s /\ closing # s
    BY UdpAssumption DEF UdpAssumption, Init
  <2> QED
    BY <2>1 DEF SocketInv, ClosedInv, HasOp, AtMostOne, Unused
<1> QED
  BY <1>1, <1>3, <1>4, <1>5 DEF UdpInv

LEMMA UdpInvStep == UdpInv /\ [Next]_vars => UdpInv'
<1> SUFFICES ASSUME UdpInv, [Next]_vars PROVE UdpInv'
  OBVIOUS
<1>1. CASE UNCHANGED vars
  <2>1. DnsInv'
    BY <1>1, OtherDnsSteps DEF vars, UdpInv
  <2>2. UNCHANGED <<sock, ops, events, flags, loaded, gpc, evt, closing, todo, epc, esock>>
    BY <1>1 DEF vars, gameVars, loopVars
  <2>3. TypeOK' /\ ControlInv'
    BY <2>1, <2>2 DEF UdpInv, DnsInv, TypeOK, ControlInv
  <2>4. ASSUME NEW s \in Sock PROVE SocketInv(s)' /\ ClosedInv(s)'
    BY <2>2 DEF UdpInv, SocketInv, ClosedInv
  <2> QED
    BY <2>1, <2>3, <2>4 DEF UdpInv
<1>2. CASE \/ \E s \in Sock : GameNative(s) \/ CloseNext(s)
           \/ Native_DnsSetTimeout \/ Native_DnsCache \/ EnqueueClose \/ OnPluginUnloaded
           \/ Time
  BY <1>2, GameKeepsInv
<1>3. CASE DispatchSocketEvent \/ DispatchReturn \/ SDK_OnUnload \/ StopJoined
  BY <1>3, DispatchKeepsInv
<1>4. CASE \E s \in Sock : \/ ProcessUdpBind(s) \/ ProcessUdpSend(s)
                           \/ ProcessUdpSetOption(s) \/ ProcessUdpClose(s)
  BY <1>4, ProcessOpKeepsInv
<1>5. CASE \/ OnAsyncStop \/ EventExit \/ OnAsyncUdpOpEnter \/ OnAsyncUdpOpExit
           \/ \E s \in Sock : OnUdpClosedPushes(s) \/ Peer(s)
           \/ OnUdpClosedErases
           \/ \E c \in Client \ Sock, h \in Host : TcpResolve(c, h)
           \/ \E q \in Queries : OnPollActivity(q) \/ OnTimer(q)
           \/ OnTimerIdle \/ ResolveStored
  BY <1>5, LoopKeepsInv
<1>6. CASE OnAsyncDnsOp
  BY <1>6, DnsOpKeepsInv
<1> QED
  BY <1>1, <1>2, <1>3, <1>4, <1>5, <1>6 DEF Next, GameStep, EventWalk, Ended

\* The inductive invariant holds in every reachable state, for any number of sockets,
\* lookups and events.
THEOREM UdpInvariant == Spec => []UdpInv
<1> QED
  BY UdpInvInit, UdpInvStep, PTL DEF Spec

\* The cache of the resolver holds no more than kMaxCacheEntries names and gives out
\* no answer older than its TTL and the TTL of the cache when it was stored,
\* whatever lookups end in whatever order and whenever the game thread flushes it or
\* changes the TTL (Resolve, OnResolveComplete, FlushCache, SetCacheTtl).
THEOREM CacheBoundedAndFresh == Spec => []CacheInv
<1>1. UdpInv => CacheInv
  <2> SUFFICES ASSUME UdpInv PROVE CacheInv
    OBVIOUS
  <2>1. TypeOK /\ CacheWithinLimit
    BY DEF UdpInv, DnsInv
  <2>2. ASSUME NEW h \in DOMAIN cache, cache[h].left > 0 PROVE cache[h].age < cache[h].cap
    <3>1. cache[h] \in Entries /\ cache[h].age + cache[h].left <= cache[h].cap
      BY <2>2 DEF UdpInv, DnsInv, DnsTypeOK
    <3> QED
      BY <2>2, <3>1 DEF Entries
  <2> QED
    BY <2>1, <2>2 DEF CacheInv, CacheFresh
<1> QED
  BY <1>1, UdpInvariant, PTL

\* While c-ares has a query, the one-shot timer runs and its socket is polled,
\* whatever lookups start and end and however often the channel is made anew
\* (UpdateTimer, OnSockStateChange, Reinit).
THEOREM QueriesWatched == Spec => []Watched
<1>1. UdpInv => Watched
  BY DEF UdpInv, DnsInv
<1> QED
  BY <1>1, UdpInvariant, PTL

\* The closes on their way to the game thread are counted by the inductive
\* invariant's two places.
LEMMA ClosedEventsFacts ==
    ASSUME UdpInv, NEW s \in Sock
    PROVE  /\ ClosedEvents(s) \in {0, 1}
           /\ ClosedEvents(s) = 1 <=> evt = s \/ HasOp(events, "closed", s)
<1> DEFINE I == {i \in DOMAIN events : events[i].type = "closed" /\ events[i].s = s}
<1>1. ClosedInv(s)
  BY DEF UdpInv
<1>2. CASE HasOp(events, "closed", s)
  <2>1. PICK i \in I : TRUE
    BY <1>2 DEF HasOp
  <2>2. I = {i}
    BY <1>1, <2>1 DEF ClosedInv, AtMostOne
  <2>3. Cardinality(I) = 1
    BY <2>2, FS_Singleton
  <2> QED
    BY <1>1, <1>2, <2>3 DEF ClosedEvents, ClosedInv
<1>3. CASE ~HasOp(events, "closed", s)
  <2>1. I = {}
    BY <1>3 DEF HasOp
  <2>2. Cardinality(I) = 0
    BY <2>1, FS_EmptySet
  <2> QED
    BY <1>3, <2>2 DEF ClosedEvents
<1> QED
  BY <1>2, <1>3

\* From the time UDP_CLOSED is on its way no uv_handle, no BIND op and, but for the
\* window of OnUdpClosed between its push and its erase, no entry of udp_sockets_
\* leads to the object (ProcessUdpClose, OnUdpClosed, DispatchSocketEvent).
THEOREM SocketLetGo == Spec => []LetGo
<1>1. UdpInv => LetGo
  <2> SUFFICES ASSUME UdpInv, NEW s \in Sock
               PROVE  /\ gpc # "unloaded" /\ (ClosedEvents(s) > 0 \/ sock[s].obj = "freed") =>
                            /\ sock[s].uv = "none" /\ ~sock[s].closing
                            /\ \A i \in DOMAIN ops : ops[i].s = s => ops[i].type # "bind"
                            /\ sock[s].reg => epc = "erase" /\ esock = s
                      /\ sock[s].uv # "none" => sock[s].reg
    BY DEF LetGo
  <2>1. SocketInv(s) /\ ClosedInv(s)
    BY DEF UdpInv
  <2>2. ASSUME gpc # "unloaded", ClosedEvents(s) > 0 \/ sock[s].obj = "freed"
        PROVE  /\ sock[s].uv = "none" /\ ~sock[s].closing
               /\ \A i \in DOMAIN ops : ops[i].s = s => ops[i].type # "bind"
               /\ sock[s].reg => epc = "erase" /\ esock = s
    <3>1. ClosedEvents(s) > 0 => evt = s \/ HasOp(events, "closed", s)
      BY ClosedEventsFacts
    <3>2. sock[s].st = "CLOSED"
      BY <2>1, <2>2, <3>1 DEF ClosedInv
    <3>3. ~HasOp(ops, "bind", s)
      BY <2>1, <3>2 DEF SocketInv
    <3> QED
      BY <2>1, <3>2, <3>3 DEF SocketInv, HasOp
  <2>3. sock[s].uv # "none" => sock[s].reg
    BY <2>1 DEF SocketInv
  <2> QED
    BY <2>2, <2>3
<1> QED
  BY <1>1, UdpInvariant, PTL

\* However Close, the unloading of the plugin and the lookups interleave, UDP_CLOSED
\* is sent at most once and dispatched at most once (ProcessUdpClose, OnUdpClosed).
THEOREM UdpClosedSentOnce == Spec => []ClosedOnce
<1>1. UdpInv => ClosedOnce
  <2> SUFFICES ASSUME UdpInv, NEW s \in Sock
               PROVE  ClosedEvents(s) + (IF sock[s].obj = "freed" THEN 1 ELSE 0) <= 1
    BY DEF ClosedOnce
  <2>1. ClosedInv(s)
    BY DEF UdpInv
  <2>2. sock[s].obj = "freed" => ClosedEvents(s) = 0
    BY <2>1, ClosedEventsFacts DEF ClosedInv
  <2> QED
    BY <2>2, ClosedEventsFacts
<1> QED
  BY <1>1, UdpInvariant, PTL
=============================================================================
