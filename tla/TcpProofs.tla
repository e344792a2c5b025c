------------------------------ MODULE TcpProofs ------------------------------
(***************************************************************************)
(* Proofs about TcpSocket, for every set of sockets and every bound.       *)
(***************************************************************************)
EXTENDS TcpSocket, FiniteSetTheorems, SequenceTheorems, TLAPS

RegTypes == {"connect", "bind", "listen", "accept"}

HasOp(q, t, s) == \E i \in DOMAIN q : q[i].type = t /\ q[i].s = s

\* The ops in the queue for s are of types T
OpsAre(q, T, s) == \A t \in OpTypes \ T : ~HasOp(q, t, s)

\* An op that registers s is the first for s, but for a BIND before a CONNECT
Ordered(q, s) ==
    \A i, j \in DOMAIN q :
        i < j /\ q[i].s = s /\ q[j].s = s /\ q[j].type \in RegTypes =>
            q[i].type = "bind" /\ q[j].type = "connect"

\* An event of E is in the queue; at most one is; one is, with none of F before it
Has(q, E) == \E i \in DOMAIN q : q[i] \in E
AtMostOne(q, E) == \A i, j \in DOMAIN q : q[i] \in E /\ q[j] \in E => i = j
Before(q, E, F) ==
    \E j \in DOMAIN q : q[j] \in E /\ \A i \in DOMAIN q : i < j => q[i] \notin F

\* Errors and connects of s that will be dispatched to the plugin, the events of s
\* but accepts, its closes, and the accepts of c
Errors(s) == {e \in Events : e.type = "error" /\ e.s = s /\ ~e.hclosed}
Connects(s) == {e \in Events : e.type = "connected" /\ e.s = s /\ ~e.hclosed}
About(s) == {e \in Events : e.type # "accepted" /\ e.s = s}
Closes(s) == {e \in Events : e.type = "closed" /\ e.s = s}
Accepts(c) == {e \in Events : e.type = "accepted" /\ e.client = c}

\* How the fields of one object go together
Shape(r) ==
    /\ r.closing <=> r.st = "CLOSING"
    /\ r.st \in {"CREATED", "RESOLVING", "CONNECTING"} => r.uv \in {"none", "idle"}
    /\ r.st = "CONNECTED" => r.uv = "open"
    /\ r.st = "CLOSING" => r.uv # "none" /\ r.reg
    /\ r.st = "CLOSED" => r.uv = "none"
    /\ r.uv = "listening" => r.st \in {"LISTENING", "CLOSING"}
    /\ r.creq => /\ r.st \in {"CONNECTING", "CLOSING"} /\ r.uv # "none" /\ r.res = {} /\ r.reg
                 /\ r.st = "CLOSING" => r.hclosed
    /\ r.wreq => r.st \in {"CONNECTED", "CLOSING"}
    /\ r.reading => r.st = "CONNECTED" /\ r.id /\ r.reg
    /\ r.res \in {{}, {"connect"}, {"listen"}}
    /\ r.res # {} => \/ r.st \in {"CREATED", "RESOLVING"} /\ r.reg
                     \/ r.st \in {"CLOSING", "CLOSED"} /\ r.hclosed
    /\ r.hclosed => r.id
    /\ r.id => r.obj # "none"

\* A connection may be attempted
CanConnect(r) == r.st \in {"CREATED", "RESOLVING", "CONNECTING"} /\ ~r.creq /\ r.res = {}

\* Nothing was done to it
Fresh(r) == r.st = "CREATED" /\ ~r.creq /\ r.res = {} /\ r.uv = "none" /\ ~r.reg

\* A socket without a handle id is unused, or was accepted and waits for its id
Nameless(r) ==
    /\ r.user = "new" /\ ~r.reg /\ ~r.wreq /\ r.res = {}
    /\ r.obj = "none" => r.st = "CREATED"
    /\ r.obj # "none" => r.st = "CONNECTED"

\* A connect is under way
Pending(s) == HasOp(ops, "connect", s) \/ "connect" \in sock[s].res \/ sock[s].creq

OpInv(s) ==
    /\ Ordered(ops, s)
    /\ HasOp(ops, "bind", s) => Fresh(sock[s]) /\ sock[s].user \in {"bound", "boundwait", "open"}
    /\ HasOp(ops, "listen", s) => Fresh(sock[s]) /\ sock[s].user \in {"server", "open"}
    /\ HasOp(ops, "connect", s) => CanConnect(sock[s])
    /\ HasOp(ops, "accept", s) => sock[s].st = "CONNECTED" /\ ~sock[s].reg
    /\ HasOp(ops, "close", s) \/ closing = s => sock[s].hclosed
    /\ s \in todo \/ ~OpsAre(ops, {}, s) => sock[s].id

\* What the plugin may do next is what the socket is ready for
UserInv(s) ==
    LET r == sock[s]
    IN /\ ~r.id => Nameless(r) /\ (r.obj # "none" => s \notin Created)
       /\ s \notin Created /\ r.id => r.user = "open"
       /\ s \in Created /\ r.user = "new" =>
             /\ Fresh(r) /\ OpsAre(ops, {"close"}, s)
             /\ ~Has(events, Errors(s)) /\ ~Has(events, Connects(s))
             /\ r.hclosed => ~loaded
       /\ r.user = "bound" /\ ~r.hclosed => CanConnect(r) /\ OpsAre(ops, {"bind"}, s)
       /\ r.user = "failed" /\ ~r.hclosed =>
             /\ CanConnect(r) /\ OpsAre(ops, {}, s)
             /\ ~Has(events, Errors(s)) /\ ~Has(events, Connects(s))
       /\ r.user = "waiting" /\ ~r.hclosed =>
             /\ OpsAre(ops, {"connect"}, s) /\ "listen" \notin r.res
             /\ \/ ~Has(events, Errors(s)) /\ ~Has(events, Connects(s))
                \/ CanConnect(r) /\ ~Pending(s) /\ AtMostOne(events, Errors(s)) /\ ~Has(events, Connects(s))
                \/ ~Pending(s) /\ Has(events, Connects(s)) /\ ~Before(events, Errors(s), Connects(s))
             /\ Pending(s) \/ CanConnect(r) \/ Has(events, Connects(s))

ClosedInv(s) ==
    /\ Has(events, About(s)) => sock[s].id
    /\ AtMostOne(events, Closes(s))
    /\ evt \in Closes(s) => ~Has(events, Closes(s)) /\ sock[s].id
    /\ sock[s].obj = "freed" => ~Has(events, Closes(s)) /\ evt \notin Closes(s)
    /\ Has(events, Closes(s)) \/ evt \in Closes(s)
       \/ (sock[s].obj = "freed" /\ sock[s].id) => sock[s].st = "CLOSED"
    /\ sock[s].st = "CLOSED" /\ sock[s].reg => epc = "erase" /\ esock = s
    /\ AtMostOne(events, Accepts(s))
    /\ Has(events, Accepts(s)) => ~sock[s].id /\ sock[s].obj = "live"

ControlInv ==
    /\ gpc = "callback" <=> evt # NoEvent
    /\ gpc \in {"joining", "unloaded"} => closing = None /\ todo = {}
    /\ gpc = "unloaded" => epc = "exited" /\ events = <<>>
    /\ todo # {} => ~loaded
    /\ epc = "erase" => esock \in Sock /\ sock[esock].st = "CLOSED"
    /\ ~Has(events, Accepts(None))

SocketOK(s) == Shape(sock[s]) /\ OpInv(s) /\ UserInv(s) /\ ClosedInv(s)

TcpInv ==
    /\ TypeOK
    /\ ControlInv
    /\ gpc # "unloaded" =>
          \A s \in Sock : SocketOK(s)
-----------------------------------------------------------------------------
(* The queues, as far as the invariant looks at them                       *)

\* What a new op for one socket changes
LEMMA OpsAppend ==
    ASSUME NEW q \in Seq(Ops), NEW o \in Ops
    PROVE  /\ Append(q, o) \in Seq(Ops)
           /\ \A t, x : HasOp(Append(q, o), t, x) <=> HasOp(q, t, x) \/ (o.type = t /\ o.s = x)
           /\ \A x : /\ Ordered(q, x)
                     /\ \/ o.s # x \/ o.type \notin RegTypes
                        \/ \A t \in OpTypes : HasOp(q, t, x) => t = "bind" /\ o.type = "connect"
                     => Ordered(Append(q, o), x)
<1> DEFINE p == Append(q, o)
           n == Len(q)
<1>1. /\ p \in Seq(Ops) /\ n \in Nat /\ DOMAIN q = 1..n /\ DOMAIN p = 1..(n + 1)
      /\ p[n + 1] = o /\ \A i \in 1..n : p[i] = q[i] /\ q[i] \in Ops
  OBVIOUS
<1> HIDE DEF p, n
<1>2. \A t, x : HasOp(p, t, x) <=> HasOp(q, t, x) \/ (o.type = t /\ o.s = x)
  <2> SUFFICES ASSUME NEW t, NEW x
               PROVE  HasOp(p, t, x) <=> HasOp(q, t, x) \/ (o.type = t /\ o.s = x)
    OBVIOUS
  <2>1. \A i \in 1..(n + 1) : i \in 1..n \/ i = n + 1
    BY <1>1
  <2>2. n + 1 \in 1..(n + 1) /\ \A i \in 1..n : i \in 1..(n + 1)
    BY <1>1
  <2> QED
    BY <1>1, <2>1, <2>2 DEF HasOp
<1>3. ASSUME NEW x, Ordered(q, x),
             \/ o.s # x \/ o.type \notin RegTypes
             \/ \A t \in OpTypes : HasOp(q, t, x) => t = "bind" /\ o.type = "connect"
      PROVE  Ordered(p, x)
  <2> SUFFICES ASSUME NEW i \in 1..(n + 1), NEW j \in 1..(n + 1), i < j,
                      p[i].s = x, p[j].s = x, p[j].type \in RegTypes
               PROVE  p[i].type = "bind" /\ p[j].type = "connect"
    BY <1>1 DEF Ordered
  <2>1. i \in 1..n /\ (j \in 1..n \/ j = n + 1)
    BY <1>1
  <2>2. CASE j \in 1..n
    BY <1>1, <1>3, <2>1, <2>2 DEF Ordered
  <2>3. CASE j = n + 1
    <3>1. q[i].type \in OpTypes /\ q[i].s = x /\ HasOp(q, q[i].type, x)
      BY <1>1, <2>1 DEF HasOp, Ops
    <3> QED
      BY <1>1, <1>3, <2>1, <2>3, <3>1
  <2> QED
    BY <2>1, <2>2, <2>3
<1> QED
  BY <1>1, <1>2, <1>3 DEF p

\* The op at the head is taken: behind one that registers its socket, and behind any
\* other but a BIND, there is none that registers it.
LEMMA OpsTail ==
    ASSUME NEW q \in Seq(Ops), q # <<>>
    PROVE  /\ Tail(q) \in Seq(Ops) /\ Head(q) \in Ops
           /\ \A t, x : HasOp(q, t, x) <=> HasOp(Tail(q), t, x)
                                            \/ (Head(q).type = t /\ Head(q).s = x)
           /\ \A x : Ordered(q, x) =>
                  /\ Ordered(Tail(q), x)
                  /\ Head(q).s = x => \A t \in RegTypes :
                         HasOp(Tail(q), t, x) => Head(q).type = "bind" /\ t = "connect"
<1> DEFINE p == Tail(q)
           n == Len(q)
           h == Head(q)
<1>1. /\ p \in Seq(Ops) /\ n \in Nat \ {0} /\ DOMAIN q = 1..n /\ DOMAIN p = 1..(n - 1)
      /\ h = q[1] /\ h \in Ops /\ \A i \in 1..(n - 1) : p[i] = q[i + 1]
  OBVIOUS
<1> HIDE DEF p, n, h
<1>2. \A i \in 1..n : i = 1 \/ \E j \in 1..(n - 1) : i = j + 1
  <2> SUFFICES ASSUME NEW i \in 1..n, i # 1 PROVE i - 1 \in 1..(n - 1) /\ i = (i - 1) + 1
    OBVIOUS
  <2> QED
    BY <1>1
<1>3. 1 \in 1..n /\ \A j \in 1..(n - 1) : j + 1 \in 1..n /\ 1 < j + 1
  BY <1>1
<1>4. \A t, x : HasOp(q, t, x) <=> HasOp(p, t, x) \/ (h.type = t /\ h.s = x)
  <2> SUFFICES ASSUME NEW t, NEW x
               PROVE  HasOp(q, t, x) <=> HasOp(p, t, x) \/ (h.type = t /\ h.s = x)
    OBVIOUS
  <2>1. ASSUME HasOp(q, t, x) PROVE HasOp(p, t, x) \/ (h.type = t /\ h.s = x)
    <3>1. PICK i \in 1..n : q[i].type = t /\ q[i].s = x
      BY <1>1, <2>1 DEF HasOp
    <3>2. CASE i = 1
      BY <1>1, <3>1, <3>2
    <3>3. CASE i # 1
      <4>1. PICK j \in 1..(n - 1) : i = j + 1
        BY <1>2, <3>3
      <4>2. p[j].type = t /\ p[j].s = x
        BY <1>1, <3>1, <4>1
      <4> QED
        BY <1>1, <4>2 DEF HasOp
    <3> QED
      BY <3>2, <3>3
  <2>2. HasOp(p, t, x) => HasOp(q, t, x)
    BY <1>1, <1>3 DEF HasOp
  <2>3. h.type = t /\ h.s = x => HasOp(q, t, x)
    BY <1>1, <1>3 DEF HasOp
  <2> QED
    BY <2>1, <2>2, <2>3
<1>5. ASSUME NEW x, Ordered(q, x)
      PROVE  /\ Ordered(p, x)
             /\ h.s = x => \A t \in RegTypes : HasOp(p, t, x) => h.type = "bind" /\ t = "connect"
  <2>1. Ordered(p, x)
    <3> SUFFICES ASSUME NEW i \in 1..(n - 1), NEW j \in 1..(n - 1), i < j,
                        p[i].s = x, p[j].s = x, p[j].type \in RegTypes
                 PROVE  p[i].type = "bind" /\ p[j].type = "connect"
      BY <1>1 DEF Ordered
    <3>1. i + 1 \in 1..n /\ j + 1 \in 1..n /\ i + 1 < j + 1
      BY <1>1
    <3>2. p[i] = q[i + 1] /\ p[j] = q[j + 1]
      BY <1>1
    <3> QED
      BY <1>1, <1>5, <3>1, <3>2 DEF Ordered
  <2>2. ASSUME h.s = x, NEW t \in RegTypes, HasOp(p, t, x)
        PROVE  h.type = "bind" /\ t = "connect"
    <3>1. PICK j \in 1..(n - 1) : p[j].type = t /\ p[j].s = x
      BY <1>1, <2>2 DEF HasOp
    <3>2. q[j + 1].type = t /\ q[j + 1].s = x
      BY <1>1, <3>1
    <3> QED
      BY <1>1, <1>3, <1>5, <2>2, <3>1, <3>2 DEF Ordered
  <2> QED
    BY <2>1, <2>2
<1> QED
  BY <1>1, <1>4, <1>5 DEF p, h

\* What a new event changes
LEMMA EventsAppend ==
    ASSUME NEW q \in Seq(Events), NEW e \in Events
    PROVE  /\ Append(q, e) \in Seq(Events)
           /\ \A E : Has(Append(q, e), E) <=> Has(q, E) \/ e \in E
           /\ \A E : AtMostOne(q, E) /\ ~(Has(q, E) /\ e \in E) => AtMostOne(Append(q, e), E)
           /\ \A E, F : Before(Append(q, e), E, F) => Before(q, E, F) \/ (e \in E /\ ~Has(q, F))
<1> DEFINE p == Append(q, e)
           n == Len(q)
<1>1. /\ p \in Seq(Events) /\ n \in Nat /\ DOMAIN q = 1..n /\ DOMAIN p = 1..(n + 1)
      /\ p[n + 1] = e /\ \A i \in 1..n : p[i] = q[i]
  OBVIOUS
<1> HIDE DEF p, n
<1>2. /\ \A i \in 1..(n + 1) : i \in 1..n \/ i = n + 1
      /\ n + 1 \in 1..(n + 1) /\ \A i \in 1..n : i \in 1..(n + 1) /\ i < n + 1
  BY <1>1
<1>3. ASSUME NEW E PROVE Has(p, E) <=> Has(q, E) \/ e \in E
  BY <1>1, <1>2 DEF Has
<1>4. ASSUME NEW E, AtMostOne(q, E), ~(Has(q, E) /\ e \in E) PROVE AtMostOne(p, E)
  BY <1>1, <1>2, <1>4 DEF Has, AtMostOne
<1>5. ASSUME NEW E, NEW F, Before(p, E, F) PROVE Before(q, E, F) \/ (e \in E /\ ~Has(q, F))
  <2>1. PICK j \in 1..(n + 1) : p[j] \in E /\ \A i \in 1..(n + 1) : i < j => p[i] \notin F
    BY <1>1, <1>5 DEF Before
  <2>2. CASE j \in 1..n
    BY <1>1, <1>2, <2>1, <2>2 DEF Before
  <2>3. CASE j = n + 1
    BY <1>1, <1>2, <2>1, <2>3 DEF Has
  <2> QED
    BY <1>2, <2>2, <2>3
<1> QED
  BY <1>1, <1>3, <1>4, <1>5 DEF p

\* What is left when the first event is taken
LEMMA EventsTail ==
    ASSUME NEW q \in Seq(Events), q # <<>>
    PROVE  /\ Tail(q) \in Seq(Events) /\ Head(q) \in Events
           /\ \A E : Has(q, E) <=> Has(Tail(q), E) \/ Head(q) \in E
           /\ \A E : AtMostOne(q, E) =>
                  AtMostOne(Tail(q), E) /\ ~(Has(Tail(q), E) /\ Head(q) \in E)
           /\ \A E, F : Before(Tail(q), E, F) /\ Head(q) \notin F => Before(q, E, F)
           /\ \A E, F : Head(q) \in E => Before(q, E, F)
<1> DEFINE p == Tail(q)
           n == Len(q)
           h == Head(q)
<1>1. /\ p \in Seq(Events) /\ n \in Nat \ {0} /\ DOMAIN q = 1..n /\ DOMAIN p = 1..(n - 1)
      /\ h = q[1] /\ h \in Events /\ \A i \in 1..(n - 1) : p[i] = q[i + 1]
  OBVIOUS
<1> HIDE DEF p, n, h
<1>2. \A i \in 1..n : i = 1 \/ \E j \in 1..(n - 1) : i = j + 1
  <2> SUFFICES ASSUME NEW i \in 1..n, i # 1 PROVE i - 1 \in 1..(n - 1) /\ i = (i - 1) + 1
    OBVIOUS
  <2> QED
    BY <1>1
<1>3. 1 \in 1..n /\ \A j \in 1..(n - 1) : j + 1 \in 1..n /\ j + 1 # 1 /\ p[j] = q[j + 1]
  BY <1>1
<1>4. ASSUME NEW E PROVE Has(q, E) <=> Has(p, E) \/ h \in E
  <2>1. Has(q, E) => Has(p, E) \/ h \in E
    BY <1>1, <1>2, <1>3 DEF Has
  <2>2. Has(p, E) => Has(q, E)
    BY <1>1, <1>3 DEF Has
  <2>3. h \in E => Has(q, E)
    BY <1>1, <1>3 DEF Has
  <2> QED
    BY <2>1, <2>2, <2>3
<1>5. ASSUME NEW E, AtMostOne(q, E) PROVE AtMostOne(p, E) /\ ~(Has(p, E) /\ h \in E)
  <2>1. AtMostOne(p, E)
    <3> SUFFICES ASSUME NEW i \in 1..(n - 1), NEW j \in 1..(n - 1), p[i] \in E, p[j] \in E
                 PROVE  i = j
      BY <1>1 DEF AtMostOne
    <3>1. i + 1 = j + 1
      BY <1>1, <1>3, <1>5 DEF AtMostOne
    <3> QED
      BY <3>1
  <2>2. ~(Has(p, E) /\ h \in E)
    BY <1>1, <1>3, <1>5 DEF AtMostOne, Has
  <2> QED
    BY <2>1, <2>2
<1>6. ASSUME NEW E, NEW F, Before(p, E, F), h \notin F PROVE Before(q, E, F)
  <2>1. PICK j \in 1..(n - 1) : p[j] \in E /\ \A i \in 1..(n - 1) : i < j => p[i] \notin F
    BY <1>1, <1>6 DEF Before
  <2>2. ASSUME NEW i \in 1..n, i < j + 1 PROVE q[i] \notin F
    <3>1. CASE i = 1
      BY <1>1, <1>6, <3>1
    <3>2. CASE i # 1
      <4>1. PICK k \in 1..(n - 1) : i = k + 1
        BY <1>2, <3>2
      <4>2. k < j
        BY <2>2, <4>1
      <4> QED
        BY <1>3, <2>1, <4>1, <4>2
    <3> QED
      BY <3>1, <3>2
  <2>3. j + 1 \in 1..n /\ q[j + 1] \in E
    BY <1>3, <2>1
  <2> QED
    BY <1>1, <2>2, <2>3 DEF Before
<1>7. ASSUME NEW E, NEW F, h \in E PROVE Before(q, E, F)
  <2>1. \A i \in 1..n : ~(i < 1)
    OBVIOUS
  <2> QED
    BY <1>1, <1>3, <1>7, <2>1 DEF Before
<1> QED
  BY <1>1, <1>4, <1>5, <1>6, <1>7 DEF p, h

-----------------------------------------------------------------------------
(* One socket at a time                                                    *)

\* A step that says nothing new about socket x
SameUse(x) ==
    /\ sock'[x] = sock[x]
    /\ \A t : HasOp(ops', t, x) <=> HasOp(ops, t, x)
    /\ Ordered(ops, x) => Ordered(ops', x)
    /\ \A E \in {Errors(x), Connects(x), About(x), Closes(x), Accepts(x)} :
          /\ Has(events', E) => Has(events, E)
          /\ AtMostOne(events, E) => AtMostOne(events', E)
    /\ Has(events, Connects(x)) => Has(events', Connects(x))
    /\ Before(events', Errors(x), Connects(x)) => Before(events, Errors(x), Connects(x))
    /\ loaded' => loaded
    /\ closing' = x => closing = x
    /\ x \in todo' => sock[x].id

Same(x) ==
    /\ SameUse(x)
    /\ evt' \in Closes(x) => evt \in Closes(x)
    /\ epc = "erase" /\ esock = x => epc' = "erase" /\ esock' = x

LEMMA SameUseKeepsSocket ==
    ASSUME NEW x \in Sock, SocketOK(x), SameUse(x) PROVE Shape(sock[x])' /\ OpInv(x)' /\ UserInv(x)'
<1>1. /\ Has(events', Errors(x)) => Has(events, Errors(x))
      /\ Has(events', Connects(x)) <=> Has(events, Connects(x))
      /\ AtMostOne(events, Errors(x)) => AtMostOne(events', Errors(x))
  BY DEF SameUse
<1>2. /\ sock'[x] = sock[x] /\ \A t : HasOp(ops', t, x) <=> HasOp(ops, t, x)
      /\ \A T : OpsAre(ops', T, x) <=> OpsAre(ops, T, x)
  BY DEF SameUse, OpsAre
<1>3. Shape(sock[x])'
  BY <1>2 DEF SocketOK
<1>4. OpInv(x)'
  BY <1>2 DEF SocketOK, OpInv, SameUse
<1>5. UserInv(x)'
  BY <1>1, <1>2 DEF SocketOK, UserInv, SameUse, Pending
<1> QED
  BY <1>3, <1>4, <1>5

LEMMA SameKeepsSocket ==
    ASSUME NEW x \in Sock, SocketOK(x), Same(x) PROVE SocketOK(x)'
<1>1. /\ Has(events', About(x)) => Has(events, About(x))
      /\ Has(events', Closes(x)) => Has(events, Closes(x))
      /\ Has(events', Accepts(x)) => Has(events, Accepts(x))
      /\ AtMostOne(events, Closes(x)) => AtMostOne(events', Closes(x))
      /\ AtMostOne(events, Accepts(x)) => AtMostOne(events', Accepts(x))
      /\ sock'[x] = sock[x]
  BY DEF Same, SameUse
<1>2. ClosedInv(x)'
  BY <1>1 DEF SocketOK, ClosedInv, Same
<1> QED
  BY <1>2, SameUseKeepsSocket DEF SocketOK, Same

\* What a step does to the queues when it is about socket s
OpsChange(s) ==
    \/ ops' = ops
    \/ ops # <<>> /\ Head(ops).s = s /\ ops' = Tail(ops)
    \/ \E o \in Ops : o.s = s /\ ops' = Append(ops, o)

EventsChange(s) ==
    \/ events' = events
    \/ \E t \in EventTypes \ {"accepted"}, b \in BOOLEAN : events' = Append(events, Event(t, s, b))

LEMMA EventSets ==
    ASSUME NEW s \in Sock, NEW t \in EventTypes \ {"accepted"}, NEW b \in BOOLEAN
    PROVE  /\ Event(t, s, b) \in Events
           /\ \A x : /\ Event(t, s, b) \in Errors(x) <=> x = s /\ t = "error" /\ ~b
                     /\ Event(t, s, b) \in Connects(x) <=> x = s /\ t = "connected" /\ ~b
                     /\ Event(t, s, b) \in About(x) <=> x = s
                     /\ Event(t, s, b) \in Closes(x) <=> x = s /\ t = "closed"
                     /\ Event(t, s, b) \notin Accepts(x)
<1> DEFINE e == Event(t, s, b)
<1>1. e \in Events /\ e.type = t /\ e.s = s /\ (e.hclosed <=> b)
  BY DEF Event, Events
<1> HIDE DEF e
<1>2. t # "accepted"
  OBVIOUS
<1> QED
  BY <1>1, <1>2 DEF e, Errors, Connects, About, Closes, Accepts

LEMMA OtherOps ==
    ASSUME ops \in Seq(Ops), NEW s \in Sock, OpsChange(s)
    PROVE  /\ ops' \in Seq(Ops)
           /\ \A x \in Sock \ {s} : /\ \A t : HasOp(ops', t, x) <=> HasOp(ops, t, x)
                                    /\ Ordered(ops, x) => Ordered(ops', x)
<1>1. CASE ops' = ops
  BY <1>1
<1>2. CASE ops # <<>> /\ Head(ops).s = s /\ ops' = Tail(ops)
  BY <1>2, OpsTail
<1>3. CASE \E o \in Ops : o.s = s /\ ops' = Append(ops, o)
  <2>1. PICK o \in Ops : o.s = s /\ ops' = Append(ops, o)
    BY <1>3
  <2> QED
    BY <2>1, OpsAppend
<1> QED
  BY <1>1, <1>2, <1>3 DEF OpsChange

LEMMA OtherEvents ==
    ASSUME events \in Seq(Events), NEW s \in Sock, EventsChange(s)
    PROVE  /\ events' \in Seq(Events)
           /\ \A x : Has(events', Accepts(x)) <=> Has(events, Accepts(x))
           /\ \A x \in Sock \ {s} :
                 /\ \A E \in {Errors(x), Connects(x), About(x), Closes(x), Accepts(x)} :
                       /\ Has(events', E) <=> Has(events, E)
                       /\ AtMostOne(events, E) => AtMostOne(events', E)
                 /\ Before(events', Errors(x), Connects(x)) =>
                       Before(events, Errors(x), Connects(x))
<1>1. CASE events' = events
  BY <1>1
<1>2. CASE \E t \in EventTypes \ {"accepted"}, b \in BOOLEAN :
               events' = Append(events, Event(t, s, b))
  <2>1. PICK t \in EventTypes \ {"accepted"}, b \in BOOLEAN :
            events' = Append(events, Event(t, s, b))
    BY <1>2
  <2> DEFINE e == Event(t, s, b)
  <2>2. /\ e \in Events /\ \A x : e \notin Accepts(x)
        /\ \A x \in Sock \ {s} :
              e \notin Errors(x) /\ e \notin Connects(x) /\ e \notin About(x) /\ e \notin Closes(x)
    BY EventSets
  <2> HIDE DEF e
  <2>3. /\ events' \in Seq(Events)
        /\ \A E : Has(events', E) <=> Has(events, E) \/ e \in E
        /\ \A E : AtMostOne(events, E) /\ ~(Has(events, E) /\ e \in E) => AtMostOne(events', E)
        /\ \A E, F : Before(events', E, F) => Before(events, E, F) \/ (e \in E /\ ~Has(events, F))
    BY <2>1, <2>2, EventsAppend DEF e
  <2>4. \A x : Has(events', Accepts(x)) <=> Has(events, Accepts(x))
    BY <2>2, <2>3
  <2>5. ASSUME NEW x \in Sock \ {s}
        PROVE  /\ \A E \in {Errors(x), Connects(x), About(x), Closes(x), Accepts(x)} :
                     /\ Has(events', E) <=> Has(events, E)
                     /\ AtMostOne(events, E) => AtMostOne(events', E)
               /\ Before(events', Errors(x), Connects(x)) =>
                     Before(events, Errors(x), Connects(x))
    BY <2>2, <2>3
  <2> QED
    BY <2>3, <2>4, <2>5
<1> QED
  BY <1>1, <1>2 DEF EventsChange

\* A step about socket s keeps the invariant if it keeps what is said about s.
LEMMA StepKeepsInv ==
    ASSUME TcpInv, gpc # "unloaded", NEW s \in Sock, NEW r \in Sockets,
           sock' = [sock EXCEPT ![s] = r],
           OpsChange(s), EventsChange(s), flags' \subseteq {"stop", "tcp", "stopping"},
           UNCHANGED <<loaded, gpc, evt>>,
           closing' \in {closing, s, None}, gpc = "joining" => closing' = None,
           todo' \subseteq todo,
           \/ UNCHANGED <<epc, esock>> /\ (epc = "erase" => r.st = sock[s].st)
           \/ epc = "poll" /\ epc' = "erase" /\ esock' = s /\ r.st = "CLOSED",
           SocketOK(s)'
    PROVE  TcpInv'
<1>1. /\ sock \in [Sock -> Sockets] /\ ops \in Seq(Ops) /\ events \in Seq(Events)
      /\ TypeOK /\ ControlInv /\ \A x \in Sock : SocketOK(x)
  BY DEF TcpInv, TypeOK, SocketOK
<1>2. /\ sock' \in [Sock -> Sockets] /\ sock'[s] = r /\ \A x \in Sock \ {s} : sock'[x] = sock[x]
  BY <1>1
<1>3. TypeOK'
  BY <1>1, <1>2, OtherOps, OtherEvents DEF TypeOK
<1>4. ControlInv'
  <2>1. ~Has(events', Accepts(None))
    BY <1>1, OtherEvents DEF ControlInv
  <2>2. epc' = "erase" => esock' \in Sock /\ sock'[esock'].st = "CLOSED"
    BY <1>1, <1>2 DEF ControlInv
  <2>3. /\ gpc' = "callback" <=> evt' # NoEvent
        /\ gpc' \in {"joining", "unloaded"} => closing' = None /\ todo' = {}
        /\ todo' # {} => ~loaded'
    BY <1>1 DEF ControlInv
  <2> QED
    BY <2>1, <2>2, <2>3 DEF ControlInv
<1>5. ASSUME NEW x \in Sock PROVE SocketOK(x)'
  <2>1. CASE x = s
    BY <2>1
  <2>2. CASE x # s
    <3>1. closing' = x => closing = x
      BY <2>2, TcpAssumption DEF TcpAssumption
    <3>2. x \in todo' => sock[x].id
      BY <1>1 DEF SocketOK, OpInv
    <3>3. SameUse(x)
      BY <1>1, <1>2, <2>2, <3>1, <3>2, OtherOps, OtherEvents DEF SameUse
    <3>4. Same(x)
      BY <2>2, <3>3 DEF Same
    <3> QED
      BY <1>1, <3>4, SameKeepsSocket
  <2> QED
    BY <2>1, <2>2
<1> QED
  BY <1>3, <1>4, <1>5 DEF TcpInv, SocketOK

\* The event a step reports of s; "none" stands for no event
Emits(s, t) ==
    IF t = "none" THEN events' = events ELSE events' = Append(events, Event(t, s, sock'[s].hclosed))

Reports == {"none", "connected", "data", "error", "closed"}

LEMMA EmitsFacts ==
    ASSUME events \in Seq(Events), NEW s \in Sock, sock'[s].hclosed \in BOOLEAN,
           NEW t \in Reports, Emits(s, t)
    PROVE  /\ EventsChange(s)
           /\ Has(events', Errors(s)) <=>
                 Has(events, Errors(s)) \/ (t = "error" /\ ~sock'[s].hclosed)
           /\ Has(events', Connects(s)) <=>
                 Has(events, Connects(s)) \/ (t = "connected" /\ ~sock'[s].hclosed)
           /\ Has(events', Closes(s)) <=> Has(events, Closes(s)) \/ t = "closed"
           /\ Has(events', About(s)) <=> Has(events, About(s)) \/ t # "none"
           /\ Has(events', Accepts(s)) <=> Has(events, Accepts(s))
           /\ AtMostOne(events, Accepts(s)) => AtMostOne(events', Accepts(s))
           /\ AtMostOne(events, Closes(s)) /\ (t # "closed" \/ ~Has(events, Closes(s))) =>
                 AtMostOne(events', Closes(s))
           /\ AtMostOne(events, Errors(s)) /\ (t # "error" \/ ~Has(events, Errors(s))) =>
                 AtMostOne(events', Errors(s))
           /\ Before(events', Errors(s), Connects(s)) =>
                 \/ Before(events, Errors(s), Connects(s))
                 \/ t = "error" /\ ~Has(events, Connects(s))
<1>1. CASE t = "none"
  BY <1>1 DEF Emits, EventsChange
<1>2. CASE t # "none"
  <2> DEFINE b == sock'[s].hclosed
             e == Event(t, s, b)
  <2>1. t \in EventTypes \ {"accepted"} /\ b \in BOOLEAN
    BY <1>2 DEF Reports, EventTypes
  <2>2. events' = Append(events, e)
    BY <1>2 DEF Emits
  <2>3. EventsChange(s)
    BY <2>1, <2>2 DEF EventsChange
  <2>4. /\ e \in Events /\ e \notin Accepts(s) /\ e \in About(s)
        /\ e \in Errors(s) <=> t = "error" /\ ~b
        /\ e \in Connects(s) <=> t = "connected" /\ ~b
        /\ e \in Closes(s) <=> t = "closed"
    BY <2>1, EventSets
  <2> HIDE DEF e
  <2>5. /\ \A E : Has(events', E) <=> Has(events, E) \/ e \in E
        /\ \A E : AtMostOne(events, E) /\ ~(Has(events, E) /\ e \in E) => AtMostOne(events', E)
        /\ \A E, F : Before(events', E, F) => Before(events, E, F) \/ (e \in E /\ ~Has(events, F))
    BY <2>2, <2>4, EventsAppend
  <2> QED
    BY <1>2, <2>3, <2>4, <2>5
<1> QED
  BY <1>1, <1>2

LEMMA NoneIsAtMostOne == ASSUME NEW q, NEW E, ~Has(q, E) PROVE AtMostOne(q, E)
  BY DEF Has, AtMostOne

\* Apply, for the outcomes there are: none or one event
LEMMA ApplyFacts ==
    ASSUME TypeOK, NEW s \in Sock, NEW r \in Sockets
    PROVE  /\ Apply(s, Out(r, <<>>)) => sock' = [sock EXCEPT ![s] = r] /\ Emits(s, "none")
           /\ \A t \in Reports \ {"none"} :
                 Apply(s, Out(r, <<t>>)) => sock' = [sock EXCEPT ![s] = r] /\ Emits(s, t)
<1>1. sock \in [Sock -> Sockets] /\ events \in Seq(Events) /\ r.hclosed \in BOOLEAN
  BY DEF TypeOK, Sockets
<1>2. ASSUME Apply(s, Out(r, <<>>))
      PROVE  sock' = [sock EXCEPT ![s] = r] /\ Emits(s, "none")
  <2>1. /\ sock' = [sock EXCEPT ![s] = r]
        /\ events' = events \o [i \in DOMAIN <<>> |-> Event(<<>>[i], s, r.hclosed)]
    BY <1>2 DEF Apply, Out
  <2>2. [i \in DOMAIN <<>> |-> Event(<<>>[i], s, r.hclosed)] = <<>>
    OBVIOUS
  <2>3. events' = events
    BY <1>1, <2>1, <2>2, ConcatEmptySeq
  <2> QED
    BY <2>1, <2>3 DEF Emits
<1>3. ASSUME NEW t \in Reports \ {"none"}, Apply(s, Out(r, <<t>>))
      PROVE  sock' = [sock EXCEPT ![s] = r] /\ Emits(s, t)
  <2> DEFINE e == Event(t, s, r.hclosed)
             f == [i \in DOMAIN <<t>> |-> Event(<<t>>[i], s, r.hclosed)]
             g == <<e>>
  <2>1. sock' = [sock EXCEPT ![s] = r] /\ events' = events \o f
    BY <1>3 DEF Apply, Out
  <2>2. sock'[s] = r
    BY <1>1, <2>1
  <2>3. e \in Events
    BY <1>1 DEF Event, Events, Reports, EventTypes
  <2>4. DOMAIN <<t>> = 1 .. 1 /\ \A i \in 1 .. 1 : f[i] = e
    OBVIOUS
  <2>5. f = [i \in 1 .. 1 |-> e]
    BY <2>4
  <2> HIDE DEF e
  <2>6. f \in Seq(Events) /\ Len(f) = 1
    BY <2>3, <2>5
  <2>7. g \in Seq(Events) /\ Len(g) = 1 /\ g[1] = e
    BY <2>3
  <2> HIDE DEF f, g
  <2>8. f = g
    <3>1. \A i \in 1 .. Len(f) : f[i] = g[i]
      BY <2>4, <2>6, <2>7
    <3> QED
      BY <2>6, <2>7, <3>1, SeqEqual, Zenon
  <2>9. events' = Append(events, e)
    BY <1>1, <2>1, <2>3, <2>8, AppendIsConcat DEF g
  <2> QED
    BY <2>1, <2>2, <2>9 DEF Emits, e
<1> QED
  BY <1>2, <1>3

\* What a step that reports t must do for the plugin's side of s: an attempt that goes
\* on stays the only one, one that fails leaves the socket ready for the next, and
\* nothing is heard of a failure that came after a success.
Serves(s, t) ==
    /\ ~(s \in Created /\ sock[s].user = "new")
    /\ sock[s].user = "bound" /\ ~sock[s].hclosed => CanConnect(sock'[s])
    /\ ~(sock[s].user = "failed" /\ ~sock[s].hclosed)
    /\ sock[s].user = "waiting" /\ ~sock[s].hclosed =>
          /\ "listen" \notin sock'[s].res
          /\ \/ Pending(s) /\ Pending(s)' /\ t = "none"
             \/ Pending(s) /\ ~Pending(s)' /\ t = "error" /\ CanConnect(sock'[s])
             \/ Pending(s) /\ ~Pending(s)' /\ t = "connected"
             \/ ~Pending(s) /\ ~Pending(s)' /\ ~CanConnect(sock[s]) /\ t # "connected"

LEMMA UserKept ==
    ASSUME TcpInv, NEW s \in Sock, UserInv(s), sock[s].id, UNCHANGED loaded,
           sock'[s].id, sock'[s].hclosed = sock[s].hclosed, sock'[s].user = sock[s].user,
           sock'[s].hclosed \in BOOLEAN,
           \A t : HasOp(ops', t, s) => HasOp(ops, t, s),
           NEW t \in Reports, Emits(s, t), Serves(s, t)
    PROVE  UserInv(s)'
<1>1. /\ Has(events', Errors(s)) <=>
            Has(events, Errors(s)) \/ (t = "error" /\ ~sock'[s].hclosed)
      /\ Has(events', Connects(s)) <=>
            Has(events, Connects(s)) \/ (t = "connected" /\ ~sock'[s].hclosed)
      /\ AtMostOne(events, Errors(s)) /\ (t # "error" \/ ~Has(events, Errors(s))) =>
            AtMostOne(events', Errors(s))
      /\ Before(events', Errors(s), Connects(s)) =>
            \/ Before(events, Errors(s), Connects(s))
            \/ t = "error" /\ ~Has(events, Connects(s))
      /\ ~Has(events, Errors(s)) => AtMostOne(events, Errors(s))
  BY EmitsFacts, NoneIsAtMostOne DEF TcpInv, TypeOK
<1>2. ~Has(events, Errors(s)) => ~Before(events, Errors(s), Connects(s))
  BY DEF Has, Before
<1>3. \A T : OpsAre(ops, T, s) => OpsAre(ops', T, s)
  BY DEF OpsAre
<1>4. sock[s].user = "bound" /\ ~sock[s].hclosed => OpsAre(ops', {"bind"}, s)
  BY <1>3 DEF UserInv
<1>5. ASSUME sock[s].user = "waiting", ~sock[s].hclosed
      PROVE  /\ OpsAre(ops', {"connect"}, s) /\ "listen" \notin sock'[s].res
             /\ \/ ~Has(events', Errors(s)) /\ ~Has(events', Connects(s))
                \/ /\ CanConnect(sock'[s]) /\ ~Pending(s)' /\ AtMostOne(events', Errors(s))
                   /\ ~Has(events', Connects(s))
                \/ ~Pending(s)' /\ Has(events', Connects(s))
                   /\ ~Before(events', Errors(s), Connects(s))
             /\ Pending(s)' \/ CanConnect(sock'[s]) \/ Has(events', Connects(s))
  <2>1. /\ OpsAre(ops', {"connect"}, s) /\ "listen" \notin sock'[s].res
        /\ \/ ~Has(events, Errors(s)) /\ ~Has(events, Connects(s))
           \/ /\ CanConnect(sock[s]) /\ ~Pending(s) /\ AtMostOne(events, Errors(s))
              /\ ~Has(events, Connects(s))
           \/ ~Pending(s) /\ Has(events, Connects(s)) /\ ~Before(events, Errors(s), Connects(s))
        /\ Pending(s) \/ CanConnect(sock[s]) \/ Has(events, Connects(s))
    BY <1>3, <1>5 DEF UserInv, Serves
  <2> HIDE DEF Pending, CanConnect
  <2>2. CASE Pending(s) /\ Pending(s)' /\ t = "none"
    BY <1>1, <1>5, <2>1, <2>2
  <2>3. CASE Pending(s) /\ ~Pending(s)' /\ t = "error" /\ CanConnect(sock'[s])
    BY <1>1, <1>5, <2>1, <2>3
  <2>4. CASE Pending(s) /\ ~Pending(s)' /\ t = "connected"
    BY <1>1, <1>2, <1>5, <2>1, <2>4
  <2>5. CASE ~Pending(s) /\ ~Pending(s)' /\ ~CanConnect(sock[s]) /\ t # "connected"
    BY <1>1, <1>5, <2>1, <2>5
  <2> QED
    BY <1>5, <2>2, <2>3, <2>4, <2>5 DEF Serves
<1>6. s \notin Created => sock[s].user = "open"
  BY DEF UserInv
<1> QED
  BY <1>4, <1>5, <1>6 DEF UserInv, Serves

\* The same for the events of s, as long as none of them is TCP_CLOSED
LEMMA ClosedKept ==
    ASSUME TcpInv, NEW s \in Sock, ClosedInv(s), sock[s].id, UNCHANGED <<evt, epc, esock>>,
           sock'[s].id, sock'[s].obj = sock[s].obj, sock'[s].hclosed \in BOOLEAN,
           NEW t \in Reports \ {"closed"}, Emits(s, t),
           sock[s].st = "CLOSED" => sock'[s].st = "CLOSED",
           sock'[s].st = "CLOSED" /\ sock'[s].reg => sock[s].st = "CLOSED" /\ sock[s].reg
    PROVE  ClosedInv(s)'
<1>1. /\ Has(events', Closes(s)) <=> Has(events, Closes(s))
      /\ Has(events', Accepts(s)) <=> Has(events, Accepts(s))
      /\ AtMostOne(events, Accepts(s)) => AtMostOne(events', Accepts(s))
      /\ AtMostOne(events, Closes(s)) => AtMostOne(events', Closes(s))
  BY EmitsFacts DEF TcpInv, TypeOK
<1> QED
  BY <1>1 DEF ClosedInv

\* The step leaves what is the game thread's
Kept(n, o) == n.obj = o.obj /\ n.id = o.id /\ n.hclosed = o.hclosed /\ n.user = o.user

TakesOp(s) == ops # <<>> /\ Head(ops).s = s /\ ops' = Tail(ops)

\* A step of the event thread about s that does not close it
LEMMA LoopKeepsInv ==
    ASSUME TcpInv, gpc # "unloaded", epc \in {"poll", "draining"},
           NEW s \in Sock, NEW r \in Sockets, sock' = [sock EXCEPT ![s] = r],
           sock[s].id, Kept(r, sock[s]), ops' = ops \/ TakesOp(s),
           NEW t \in Reports \ {"closed"}, Emits(s, t),
           UNCHANGED <<flags, gameVars, loopVars>>,
           Shape(r), OpInv(s)', Serves(s, t),
           sock[s].st = "CLOSED" => r.st = "CLOSED",
           r.st = "CLOSED" /\ r.reg => sock[s].st = "CLOSED" /\ sock[s].reg
    PROVE  TcpInv'
<1>1. /\ sock \in [Sock -> Sockets] /\ ops \in Seq(Ops) /\ events \in Seq(Events)
      /\ flags \subseteq {"stop", "tcp", "stopping"} /\ ControlInv
      /\ UserInv(s) /\ ClosedInv(s)
  BY DEF TcpInv, TypeOK, SocketOK
<1>2. sock'[s] = r /\ r.hclosed \in BOOLEAN
  BY <1>1 DEF Sockets
<1>3. OpsChange(s) /\ \A u : HasOp(ops', u, s) => HasOp(ops, u, s)
  <2>1. CASE ops' = ops
    BY <2>1 DEF OpsChange
  <2>2. CASE TakesOp(s)
    <3>1. ops # <<>> /\ Head(ops).s = s /\ ops' = Tail(ops)
      BY <2>2 DEF TakesOp
    <3>2. \A u : HasOp(ops', u, s) => HasOp(ops, u, s)
      BY <1>1, <3>1, OpsTail
    <3> QED
      BY <3>1, <3>2 DEF OpsChange
  <2> QED
    BY <2>1, <2>2
<1>4. EventsChange(s)
  BY <1>1, <1>2, EmitsFacts
<1>5. UserInv(s)'
  BY <1>1, <1>2, <1>3, UserKept DEF Kept, gameVars
<1>6. ClosedInv(s)'
  BY <1>1, <1>2, ClosedKept DEF Kept, gameVars, loopVars
<1>7. SocketOK(s)'
  BY <1>2, <1>5, <1>6 DEF SocketOK
<1>8. /\ UNCHANGED <<loaded, gpc, evt>> /\ closing' = closing /\ todo' = todo
      /\ UNCHANGED <<epc, esock>> /\ epc # "erase"
      /\ gpc = "joining" => closing' = None
  BY <1>1 DEF gameVars, loopVars, ControlInv
<1> QED
  BY <1>1, <1>3, <1>4, <1>7, <1>8, StepKeepsInv

-----------------------------------------------------------------------------
(* The ops                                                                 *)

LEMMA TakeOpFacts ==
    ASSUME TcpInv, NEW s \in Sock, NEW t \in OpTypes, gpc # "unloaded", TakeOp(t, s)
    PROVE  /\ TakesOp(s) /\ epc = "draining" /\ UNCHANGED <<flags, gameVars, loopVars>>
           /\ HasOp(ops, t, s) /\ sock[s].id
           /\ \A u : HasOp(ops', u, s) => HasOp(ops, u, s)
           /\ Ordered(ops', s)
           /\ \A u \in RegTypes : HasOp(ops', u, s) => t = "bind" /\ u = "connect"
<1>1. /\ TakesOp(s) /\ epc = "draining" /\ UNCHANGED <<flags, gameVars, loopVars>>
      /\ Head(ops).type = t /\ Head(ops).s = s /\ ops # <<>> /\ ops' = Tail(ops)
  BY DEF TakeOp, TakesOp
<1>2. ops \in Seq(Ops) /\ OpInv(s)
  BY DEF TcpInv, TypeOK, SocketOK
<1>3. /\ HasOp(ops, t, s) /\ \A u : HasOp(ops', u, s) => HasOp(ops, u, s)
      /\ Ordered(ops', s)
      /\ \A u \in RegTypes : HasOp(ops', u, s) => t = "bind" /\ u = "connect"
  BY <1>1, <1>2, OpsTail DEF OpInv
<1>4. sock[s].id
  BY <1>2, <1>3 DEF OpInv, OpsAre
<1> QED
  BY <1>1, <1>3, <1>4

\* Of the ops behind the one taken only a CONNECT after a BIND needs anything of s.
LEMMA TakeOpKeepsOps ==
    ASSUME TcpInv, NEW s \in Sock, NEW t \in OpTypes, gpc # "unloaded", TakeOp(t, s),
           sock'[s].id, sock[s].hclosed => sock'[s].hclosed,
           t = "bind" => CanConnect(sock'[s])
    PROVE  OpInv(s)'
<1>1. /\ \A u : HasOp(ops', u, s) => HasOp(ops, u, s)
      /\ Ordered(ops', s)
      /\ \A u \in RegTypes : HasOp(ops', u, s) => t = "bind" /\ u = "connect"
      /\ closing' = closing /\ OpInv(s)
  BY TakeOpFacts DEF gameVars, TcpInv, SocketOK
<1>2. ~HasOp(ops', "bind", s) /\ ~HasOp(ops', "listen", s) /\ ~HasOp(ops', "accept", s)
      /\ (HasOp(ops', "connect", s) => t = "bind")
  BY <1>1 DEF RegTypes
<1>3. HasOp(ops', "close", s) \/ closing' = s => sock'[s].hclosed
  BY <1>1 DEF OpInv
<1> QED
  BY <1>1, <1>2, <1>3 DEF OpInv

LEMMA BeforeFacts ==
    ASSUME TcpInv, gpc # "unloaded", NEW s \in Sock
    PROVE  /\ sock[s] \in Sockets /\ Shape(sock[s]) /\ OpInv(s) /\ UserInv(s) /\ ClosedInv(s)
           /\ TypeOK /\ sock \in [Sock -> Sockets] /\ ControlInv
           /\ \A r : sock' = [sock EXCEPT ![s] = r] => sock'[s] = r
  BY DEF TcpInv, TypeOK, SocketOK

\* Whatever the plugin knows of s, it is no newcomer and has no failed attempt behind it
\* when there is an op for s; and an op other than CONNECT or BIND tells more.
LEMMA OpUser ==
    ASSUME NEW s \in Sock, UserInv(s), OpInv(s), NEW t \in OpTypes \ {"close"}, HasOp(ops, t, s)
    PROVE  /\ ~(s \in Created /\ sock[s].user = "new")
           /\ ~(sock[s].user = "failed" /\ ~sock[s].hclosed)
           /\ sock[s].user = "bound" /\ ~sock[s].hclosed => t = "bind"
           /\ sock[s].user = "waiting" /\ ~sock[s].hclosed => t = "connect"
<1>1. \A T : OpsAre(ops, T, s) => t \in T
  BY DEF OpsAre
<1>2. sock[s].user = "waiting" /\ ~sock[s].hclosed => t = "connect"
  BY <1>1 DEF UserInv
<1>3. sock[s].user = "bound" /\ ~sock[s].hclosed => t = "bind"
  BY <1>1 DEF UserInv
<1>4. ~(sock[s].user = "failed" /\ ~sock[s].hclosed)
  BY <1>1 DEF UserInv
<1>5. ~(s \in Created /\ sock[s].user = "new")
  <2>1. SUFFICES ASSUME s \in Created, sock[s].user = "new" PROVE OpsAre(ops, {"close"}, s)
    BY <1>1
  <2> QED
    BY <2>1 DEF UserInv
<1> QED
  BY <1>2, <1>3, <1>4, <1>5

\* The fate of an attempt: it fails, begins, or waits for the resolver
Attempt(n, t) ==
    /\ n.uv \in {"none", "idle"} /\ n.st \in {"CREATED", "RESOLVING", "CONNECTING"}
    /\ \/ t = "error" /\ ~n.creq /\ n.res = {}
       \/ t = "none" /\ n.st = "CONNECTING" /\ n.creq /\ n.uv # "none" /\ n.res = {}
       \/ t = "none" /\ n.st = "RESOLVING" /\ ~n.creq /\ n.res = {"connect"}

SameRest(n, o) == n.closing = o.closing /\ n.wreq = o.wreq /\ n.reading = o.reading

LEMMA ConnectOp ==
    ASSUME TcpInv, gpc # "unloaded", NEW s \in Sock, TakeOp("connect", s),
           NEW n \in Sockets, sock' = [sock EXCEPT ![s] = n], Kept(n, sock[s]),
           SameRest(n, sock[s]), n.reg, NEW t \in {"none", "error"}, Emits(s, t),
           \/ /\ sock[s].hclosed /\ t = "none" /\ n.st = sock[s].st /\ n.uv = sock[s].uv
              /\ n.creq = sock[s].creq /\ n.res = sock[s].res
           \/ ~sock[s].hclosed /\ Attempt(n, t)
    PROVE  TcpInv'
<1> DEFINE o == sock[s]
<1>1. /\ o \in Sockets /\ Shape(o) /\ OpInv(s) /\ UserInv(s) /\ sock'[s] = n
  BY BeforeFacts
<1>2. "connect" \in OpTypes \ {"close"} /\ t \in Reports \ {"closed"}
  BY DEF OpTypes, Reports
<1>3. /\ TakesOp(s) /\ epc = "draining" /\ UNCHANGED <<flags, gameVars, loopVars>>
      /\ HasOp(ops, "connect", s) /\ o.id /\ ~HasOp(ops', "connect", s)
  BY <1>2, TakeOpFacts DEF RegTypes
<1>4. CanConnect(o) /\ Pending(s)
  BY <1>1, <1>3 DEF OpInv, Pending
<1>5. OpInv(s)'
  BY <1>1, <1>2, <1>3, TakeOpKeepsOps DEF Kept
<1>6. Shape(n)
  BY <1>1, <1>3, <1>4 DEF Shape, Kept, SameRest, Attempt, CanConnect
<1>7. Serves(s, t)
  <2>1. /\ ~(s \in Created /\ o.user = "new") /\ ~(o.user = "failed" /\ ~o.hclosed)
        /\ ~(o.user = "bound" /\ ~o.hclosed)
    BY <1>1, <1>2, <1>3, OpUser
  <2>2. ~o.hclosed => /\ "listen" \notin n.res
                      /\ \/ Pending(s)' /\ t = "none"
                         \/ ~Pending(s)' /\ t = "error" /\ CanConnect(n)
    BY <1>1, <1>3 DEF Attempt, CanConnect, Pending
  <2> QED
    BY <1>1, <1>4, <2>1, <2>2 DEF Serves
<1>8. o.st # "CLOSED" /\ n.st # "CLOSED"
  BY <1>4 DEF CanConnect, Attempt
<1> QED
  BY <1>1, <1>2, <1>3, <1>5, <1>6, <1>7, <1>8, LoopKeepsInv

\* A record with some fields replaced
LEMMA RecordFacts ==
    ASSUME NEW o \in Sockets
    PROVE  /\ [o EXCEPT !.reg = TRUE] \in Sockets
           /\ \A x \in States : [o EXCEPT !.st = x] \in Sockets
           /\ \A x \in BOOLEAN : [o EXCEPT !.creq = x] \in Sockets
           /\ \A x \in SUBSET {"connect", "listen"} : [o EXCEPT !.res = x] \in Sockets
           /\ WithHandle(o) \in Sockets
           /\ WithHandle(o).uv # "none" /\ (o.uv \in {"none", "idle"} => WithHandle(o).uv = "idle")
           /\ CloseTcpHandle(o) \in Sockets /\ CloseTcpHandle(o).uv = "none"
<1>1. WithHandle(o) \in Sockets
  <2>1. (IF o.uv = "none" THEN "idle" ELSE o.uv) \in {"none", "idle", "open", "listening"}
    BY DEF Sockets
  <2> QED
    BY <2>1 DEF Sockets, WithHandle
<1>2. CloseTcpHandle(o) \in Sockets /\ CloseTcpHandle(o).uv = "none"
  BY DEF Sockets, CloseTcpHandle
<1>3. WithHandle(o).uv # "none" /\ (o.uv \in {"none", "idle"} => WithHandle(o).uv = "idle")
  BY DEF Sockets, WithHandle
<1>4. [o EXCEPT !.reg = TRUE] \in Sockets
  BY DEF Sockets
<1>5. \A x \in States : [o EXCEPT !.st = x] \in Sockets
  BY DEF Sockets
<1>6. \A x \in BOOLEAN : [o EXCEPT !.creq = x] \in Sockets
  BY DEF Sockets
<1>7. \A x \in SUBSET {"connect", "listen"} : [o EXCEPT !.res = x] \in Sockets
  BY DEF Sockets
<1> QED
  BY <1>1, <1>2, <1>3, <1>4, <1>5, <1>6, <1>7

\* What ConnectResolved makes of a registered, open socket
LEMMA ConnectResolvedFacts ==
    ASSUME NEW r \in Sockets, r.st \in {"CREATED", "RESOLVING"}, r.uv \in {"none", "idle"}, ~r.creq, r.res = {},
           r.reg, ~r.hclosed, NEW x \in ConnectResolved(r)
    PROVE  \E n \in Sockets, t \in {"none", "error"} :
              /\ x = Out(n, IF t = "none" THEN <<>> ELSE <<"error">>)
              /\ Attempt(n, t) /\ Kept(n, r) /\ SameRest(n, r) /\ n.reg
<1> DEFINE w == WithHandle(r)
           c == [w EXCEPT !.st = "CONNECTING"]
           d == [c EXCEPT !.creq = TRUE]
<1>1. w \in Sockets /\ w.uv = "idle"
  BY RecordFacts
<1>2. /\ Kept(w, r) /\ SameRest(w, r) /\ w.reg /\ ~w.creq /\ w.res = {}
  BY DEF WithHandle, Kept, SameRest, Sockets
<1> HIDE DEF w
<1>3. /\ c \in Sockets /\ c.uv = "idle" /\ c.st = "CONNECTING" /\ ~c.creq /\ c.res = {}
      /\ Kept(c, r) /\ SameRest(c, r) /\ c.reg
  BY <1>1, <1>2 DEF Kept, SameRest, Sockets, States
<1> HIDE DEF c
<1>4. /\ d \in Sockets /\ d.uv = "idle" /\ d.st = "CONNECTING" /\ d.creq /\ d.res = {}
      /\ Kept(d, r) /\ SameRest(d, r) /\ d.reg
  BY <1>3 DEF Kept, SameRest, Sockets
<1> HIDE DEF d
<1>5. x = Out(r, <<"error">>) \/ x = Out(c, <<"error">>) \/ x = Out(d, <<>>)
  BY DEF ConnectResolved, Resolved, w, c, d
<1>6. Attempt(r, "error") /\ Kept(r, r) /\ SameRest(r, r)
  BY DEF Attempt, Kept, SameRest
<1>7. Attempt(c, "error")
  BY <1>3 DEF Attempt
<1>8. Attempt(d, "none")
  BY <1>4 DEF Attempt
<1>9. CASE x = Out(r, <<"error">>)
  BY <1>6, <1>9
<1>10. CASE x = Out(c, <<"error">>)
  BY <1>3, <1>7, <1>10
<1>11. CASE x = Out(d, <<>>)
  BY <1>4, <1>8, <1>11
<1> QED
  BY <1>5, <1>9, <1>10, <1>11

LEMMA ProcessTcpConnectKeepsInv ==
    ASSUME TcpInv, gpc # "unloaded", NEW s \in Sock, ProcessTcpConnect(s) PROVE TcpInv'
<1> DEFINE o == sock[s]
           g == Registered(s)
           r == IF g.hclosed THEN g ELSE [g EXCEPT !.st = "RESOLVING"]
           q == [r EXCEPT !.res = @ \cup {"connect"}]
<1>1. /\ o \in Sockets /\ Shape(o) /\ OpInv(s) /\ TypeOK
  BY BeforeFacts
<1>2. TakeOp("connect", s) /\ Opens("connect", s, r, ConnectResolved(r))
  BY DEF ProcessTcpConnect, Opens
<1>3. CanConnect(o)
  BY <1>1, <1>2, TakeOpFacts DEF OpInv, OpTypes
<1>4. /\ g \in Sockets /\ Kept(g, o) /\ SameRest(g, o) /\ g.reg /\ g.st = o.st /\ g.uv = o.uv
      /\ g.creq = o.creq /\ g.res = o.res /\ (g.hclosed <=> o.hclosed)
  BY <1>1 DEF Registered, Kept, SameRest, Sockets
<1> HIDE DEF g
<1>5. CASE o.hclosed
  <2>1. r = g /\ Apply(s, Out(g, <<>>))
    BY <1>2, <1>4, <1>5 DEF Opens
  <2>2. sock' = [sock EXCEPT ![s] = g] /\ Emits(s, "none")
    BY <1>1, <1>4, <2>1, ApplyFacts
  <2> QED
    BY <1>2, <1>4, <1>5, <2>2, ConnectOp
<1>6. CASE ~o.hclosed
  <2>1. r = [g EXCEPT !.st = "RESOLVING"]
    BY <1>4, <1>6
  <2>2. o.uv \in {"none", "idle"} /\ ~o.creq /\ o.res = {}
    BY <1>1, <1>3 DEF Shape, CanConnect
  <2>3. /\ r \in Sockets /\ Kept(r, o) /\ SameRest(r, o) /\ r.reg /\ r.st = "RESOLVING"
        /\ r.uv \in {"none", "idle"} /\ ~r.creq /\ r.res = {} /\ ~r.hclosed
    BY <1>4, <1>6, <2>1, <2>2 DEF Kept, SameRest, Sockets, States
  <2>4. \/ \E x \in ConnectResolved(r) : Apply(s, x)
        \/ Apply(s, Out(q, <<>>))
    BY <1>2, <2>3 DEF Opens
  <2> HIDE DEF r
  <2>5. CASE \E x \in ConnectResolved(r) : Apply(s, x)
    <3>1. PICK x \in ConnectResolved(r) : Apply(s, x)
      BY <2>5
    <3>2. PICK n \in Sockets, t \in {"none", "error"} :
              /\ x = Out(n, IF t = "none" THEN <<>> ELSE <<"error">>)
              /\ Attempt(n, t) /\ Kept(n, r) /\ SameRest(n, r) /\ n.reg
      BY <2>3, ConnectResolvedFacts
    <3>3. sock' = [sock EXCEPT ![s] = n] /\ Emits(s, t)
      BY <1>1, <3>1, <3>2, ApplyFacts DEF Reports
    <3>4. Kept(n, o) /\ SameRest(n, o)
      BY <2>3, <3>2 DEF Kept, SameRest
    <3> QED
      BY <1>2, <1>6, <3>2, <3>3, <3>4, ConnectOp
  <2>6. CASE Apply(s, Out(q, <<>>))
    <3>1. /\ q \in Sockets /\ Kept(q, o) /\ SameRest(q, o) /\ q.reg /\ q.st = "RESOLVING"
          /\ q.uv \in {"none", "idle"} /\ ~q.creq /\ q.res = {"connect"}
      BY <2>3 DEF Kept, SameRest, Sockets
    <3> HIDE DEF q
    <3>2. sock' = [sock EXCEPT ![s] = q] /\ Emits(s, "none")
      BY <1>1, <2>6, <3>1, ApplyFacts
    <3>3. Attempt(q, "none")
      BY <3>1 DEF Attempt
    <3> QED
      BY <1>2, <1>6, <3>1, <3>2, <3>3, ConnectOp
  <2> QED
    BY <2>4, <2>5, <2>6
<1> QED
  BY <1>5, <1>6

LEMMA BindOrListenOp ==
    ASSUME TcpInv, gpc # "unloaded", NEW s \in Sock, NEW k \in {"bind", "listen"}, TakeOp(k, s),
           NEW n \in Sockets, sock' = [sock EXCEPT ![s] = n], Kept(n, sock[s]),
           SameRest(n, sock[s]), n.reg, ~n.creq, NEW t \in {"none", "error"}, Emits(s, t),
           \/ n.st = "CREATED" /\ n.uv \in {"none", "idle"} /\ n.res = {}
           \/ k = "listen" /\ n.st = "CREATED" /\ n.uv = "none" /\ n.res = {"listen"}
           \/ k = "listen" /\ n.st = "LISTENING" /\ n.uv = "listening" /\ n.res = {}
    PROVE  TcpInv'
<1> DEFINE o == sock[s]
<1>1. /\ o \in Sockets /\ Shape(o) /\ OpInv(s) /\ UserInv(s) /\ sock'[s] = n
  BY BeforeFacts
<1>2. k \in OpTypes \ {"close"} /\ t \in Reports \ {"closed"}
  BY DEF OpTypes, Reports
<1>3. /\ TakesOp(s) /\ epc = "draining" /\ UNCHANGED <<flags, gameVars, loopVars>>
      /\ HasOp(ops, k, s) /\ o.id
  BY <1>2, TakeOpFacts
<1>4. Fresh(o)
  BY <1>1, <1>3 DEF OpInv
<1>5. OpInv(s)'
  <2>1. k = "bind" => CanConnect(n)
    BY DEF CanConnect
  <2> QED
    BY <1>1, <1>2, <1>3, <2>1, TakeOpKeepsOps DEF Kept
<1>6. Shape(n)
  BY <1>1, <1>3, <1>4 DEF Shape, Kept, SameRest, Fresh
<1>7. Serves(s, t)
  <2>1. /\ ~(s \in Created /\ o.user = "new") /\ ~(o.user = "failed" /\ ~o.hclosed)
        /\ ~(o.user = "waiting" /\ ~o.hclosed)
        /\ o.user = "bound" /\ ~o.hclosed => k = "bind"
    BY <1>1, <1>2, <1>3, OpUser
  <2> QED
    BY <1>1, <2>1 DEF Serves, CanConnect
<1>8. o.st # "CLOSED" /\ n.st # "CLOSED"
  BY <1>4 DEF Fresh
<1> QED
  BY <1>1, <1>2, <1>3, <1>5, <1>6, <1>7, <1>8, LoopKeepsInv

LEMMA RegisteredFacts ==
    ASSUME TcpInv, gpc # "unloaded", NEW s \in Sock
    PROVE  /\ Registered(s) \in Sockets /\ Kept(Registered(s), sock[s])
           /\ SameRest(Registered(s), sock[s]) /\ Registered(s).reg
           /\ Registered(s).st = sock[s].st /\ Registered(s).uv = sock[s].uv
           /\ Registered(s).creq = sock[s].creq /\ Registered(s).res = sock[s].res
<1>1. sock[s] \in Sockets
  BY BeforeFacts
<1> QED
  BY <1>1 DEF Registered, Kept, SameRest, Sockets

LEMMA ProcessTcpBindKeepsInv ==
    ASSUME TcpInv, gpc # "unloaded", NEW s \in Sock, ProcessTcpBind(s) PROVE TcpInv'
<1> DEFINE o == sock[s]
           g == Registered(s)
           w == WithHandle(g)
           c == CloseTcpHandle(w)
<1>1. /\ o \in Sockets /\ Shape(o) /\ OpInv(s) /\ TypeOK
  BY BeforeFacts
<1>2. TakeOp("bind", s) /\ Opens("bind", s, g, BindResolved(g))
  BY DEF ProcessTcpBind, Opens
<1>3. Fresh(o)
  BY <1>1, <1>2, TakeOpFacts DEF OpInv, OpTypes
<1>4. /\ g \in Sockets /\ Kept(g, o) /\ SameRest(g, o) /\ g.reg /\ g.st = "CREATED"
      /\ g.uv = "none" /\ ~g.creq /\ g.res = {}
  BY <1>3, RegisteredFacts DEF Fresh
<1> HIDE DEF g
<1>5. /\ w \in Sockets /\ Kept(w, o) /\ SameRest(w, o) /\ w.reg /\ w.st = "CREATED"
      /\ w.uv = "idle" /\ ~w.creq /\ w.res = {}
  <2>1. w \in Sockets /\ w.uv = "idle"
    BY <1>4, RecordFacts
  <2> QED
    BY <1>4, <2>1 DEF WithHandle, Kept, SameRest, Sockets
<1> HIDE DEF w
<1>6. /\ c \in Sockets /\ Kept(c, o) /\ SameRest(c, o) /\ c.reg /\ c.st = "CREATED"
      /\ c.uv = "none" /\ ~c.creq /\ c.res = {}
  <2>1. c \in Sockets /\ c.uv = "none"
    BY <1>5, RecordFacts
  <2> QED
    BY <1>5, <2>1 DEF CloseTcpHandle, Kept, SameRest, Sockets
<1> HIDE DEF c
<1>7. \/ Apply(s, Out(g, <<>>)) \/ Apply(s, Out(g, <<"error">>))
      \/ Apply(s, Out(c, <<"error">>)) \/ Apply(s, Out(w, <<>>))
  BY <1>2 DEF Opens, BindResolved, Resolved, c, w
<1>8. \E n \in {g, c, w}, t \in {"none", "error"} :
          sock' = [sock EXCEPT ![s] = n] /\ Emits(s, t)
  BY <1>1, <1>4, <1>5, <1>6, <1>7, ApplyFacts DEF Reports
<1>9. PICK n \in {g, c, w}, t \in {"none", "error"} :
          sock' = [sock EXCEPT ![s] = n] /\ Emits(s, t)
  BY <1>8
<1> QED
  BY <1>2, <1>4, <1>5, <1>6, <1>9, BindOrListenOp

\* Listen, when the socket is registered and open
LEMMA ListenResolvedFacts ==
    ASSUME NEW r \in Sockets, r.reg, ~r.hclosed, NEW x \in ListenResolved(r)
    PROVE  \E n \in Sockets, t \in {"none", "error"} :
              /\ x = Out(n, IF t = "none" THEN <<>> ELSE <<"error">>)
              /\ Kept(n, r) /\ SameRest(n, r) /\ n.reg /\ n.creq = r.creq /\ n.res = r.res
              /\ \/ n.st = r.st /\ n.uv \in {r.uv, "none"}
                 \/ n.st = "LISTENING" /\ n.uv = "listening"
<1> DEFINE c == CloseTcpHandle(r)
           d == [r EXCEPT !.uv = "listening", !.st = "LISTENING"]
<1>1. c \in Sockets /\ c.uv = "none"
  BY RecordFacts
<1>2. Kept(c, r) /\ SameRest(c, r) /\ c.reg /\ c.creq = r.creq /\ c.res = r.res /\ c.st = r.st
  BY DEF CloseTcpHandle, Kept, SameRest, Sockets
<1>3. /\ d \in Sockets /\ d.uv = "listening" /\ d.st = "LISTENING" /\ d.creq = r.creq
      /\ Kept(d, r) /\ SameRest(d, r) /\ d.reg /\ d.res = r.res
  BY DEF Kept, SameRest, Sockets, States
<1>4. x = Out(r, <<"error">>) \/ x = Out(c, <<"error">>) \/ x = Out(d, <<>>)
  BY DEF ListenResolved, Resolved
<1> HIDE DEF c, d
<1>5. CASE x = Out(r, <<"error">>)
  BY <1>5 DEF Kept, SameRest
<1>6. CASE x = Out(c, <<"error">>)
  BY <1>1, <1>2, <1>6
<1>7. CASE x = Out(d, <<>>)
  BY <1>3, <1>7
<1> QED
  BY <1>4, <1>5, <1>6, <1>7

LEMMA ProcessTcpListenKeepsInv ==
    ASSUME TcpInv, gpc # "unloaded", NEW s \in Sock, ProcessTcpListen(s) PROVE TcpInv'
<1> DEFINE o == sock[s]
           g == Registered(s)
           q == [g EXCEPT !.res = @ \cup {"listen"}]
<1>1. /\ o \in Sockets /\ Shape(o) /\ OpInv(s) /\ TypeOK
  BY BeforeFacts
<1>2. TakeOp("listen", s) /\ Opens("listen", s, g, ListenResolved(g))
  BY DEF ProcessTcpListen, Opens
<1>3. Fresh(o)
  BY <1>1, <1>2, TakeOpFacts DEF OpInv, OpTypes
<1>4. /\ g \in Sockets /\ Kept(g, o) /\ SameRest(g, o) /\ g.reg /\ g.st = "CREATED"
      /\ g.uv = "none" /\ ~g.creq /\ g.res = {}
  BY <1>3, RegisteredFacts DEF Fresh
<1> HIDE DEF g
<1>5. CASE Apply(s, Out(g, <<>>))
  <2>1. sock' = [sock EXCEPT ![s] = g] /\ Emits(s, "none")
    BY <1>1, <1>4, <1>5, ApplyFacts
  <2> QED
    BY <1>2, <1>4, <2>1, BindOrListenOp
<1>6. CASE ~g.hclosed /\ \E x \in ListenResolved(g) : Apply(s, x)
  <2>1. PICK x \in ListenResolved(g) : Apply(s, x)
    BY <1>6
  <2>2. PICK n \in Sockets, t \in {"none", "error"} :
            /\ x = Out(n, IF t = "none" THEN <<>> ELSE <<"error">>)
            /\ Kept(n, g) /\ SameRest(n, g) /\ n.reg /\ n.creq = g.creq /\ n.res = g.res
            /\ \/ n.st = g.st /\ n.uv \in {g.uv, "none"}
               \/ n.st = "LISTENING" /\ n.uv = "listening"
    BY <1>4, <1>6, ListenResolvedFacts
  <2>3. sock' = [sock EXCEPT ![s] = n] /\ Emits(s, t)
    BY <1>1, <2>1, <2>2, ApplyFacts DEF Reports
  <2>4. Kept(n, o) /\ SameRest(n, o)
    BY <1>4, <2>2 DEF Kept, SameRest
  <2> QED
    BY <1>2, <1>4, <2>2, <2>3, <2>4, BindOrListenOp
<1>7. CASE Apply(s, Out(q, <<>>))
  <2>1. /\ q \in Sockets /\ Kept(q, o) /\ SameRest(q, o) /\ q.reg /\ q.st = "CREATED"
        /\ q.uv = "none" /\ ~q.creq /\ q.res = {"listen"}
    BY <1>4 DEF Kept, SameRest, Sockets
  <2> HIDE DEF q
  <2>2. sock' = [sock EXCEPT ![s] = q] /\ Emits(s, "none")
    BY <1>1, <1>7, <2>1, ApplyFacts
  <2> QED
    BY <1>2, <2>1, <2>2, BindOrListenOp
<1> QED
  BY <1>2, <1>5, <1>6, <1>7 DEF Opens

LEMMA ProcessTcpAcceptConfigKeepsInv ==
    ASSUME TcpInv, gpc # "unloaded", NEW s \in Sock, ProcessTcpAcceptConfig(s) PROVE TcpInv'
<1> DEFINE o == sock[s]
           g == Registered(s)
           r == [g EXCEPT !.cb = Head(ops).cb]
           d == [r EXCEPT !.reading = TRUE]
           n == IF r.uv # "none" /\ ~r.hclosed THEN d ELSE r
<1>1. /\ o \in Sockets /\ Shape(o) /\ OpInv(s) /\ UserInv(s) /\ TypeOK
  BY BeforeFacts
<1>2. "accept" \in OpTypes \ {"close"} /\ "none" \in Reports \ {"closed"}
  BY DEF OpTypes, Reports
<1>3. /\ TakeOp("accept", s) /\ sock' = [sock EXCEPT ![s] = n] /\ events' = events
  BY DEF ProcessTcpAcceptConfig
<1>4. /\ TakesOp(s) /\ epc = "draining" /\ UNCHANGED <<flags, gameVars, loopVars>>
      /\ HasOp(ops, "accept", s) /\ o.id
  BY <1>2, <1>3, TakeOpFacts
<1>5. o.st = "CONNECTED"
  BY <1>1, <1>4 DEF OpInv
<1>6. Head(ops).cb \in {"first", "set"}
  <2>1. Head(ops) \in Ops
    BY <1>1, <1>4, OpsTail DEF TypeOK, TakesOp
  <2> QED
    BY <2>1 DEF Ops
<1>7. /\ g \in Sockets /\ Kept(g, o) /\ g.closing = o.closing /\ g.wreq = o.wreq
      /\ g.reading = o.reading /\ g.reg /\ g.st = o.st /\ g.uv = o.uv
      /\ g.creq = o.creq /\ g.res = o.res
  BY RegisteredFacts DEF SameRest
<1> HIDE DEF g
<1>8. /\ r \in Sockets /\ Kept(r, o) /\ r.closing = o.closing /\ r.wreq = o.wreq
      /\ r.reading = o.reading /\ r.reg /\ r.st = o.st /\ r.uv = o.uv
      /\ r.creq = o.creq /\ r.res = o.res
  BY <1>6, <1>7 DEF Kept, Sockets
<1> HIDE DEF r
<1>9. /\ d \in Sockets /\ Kept(d, o) /\ d.closing = o.closing /\ d.wreq = o.wreq
      /\ d.reg /\ d.st = o.st /\ d.uv = o.uv /\ d.creq = o.creq /\ d.res = o.res
  BY <1>8 DEF Kept, Sockets
<1> HIDE DEF d
<1>10. /\ n \in Sockets /\ Kept(n, o) /\ n.closing = o.closing /\ n.wreq = o.wreq
       /\ n.reg /\ n.st = o.st /\ n.uv = o.uv /\ n.creq = o.creq /\ n.res = o.res
  BY <1>8, <1>9
<1> HIDE DEF n
<1>11. sock'[s] = n /\ Emits(s, "none")
  BY <1>3, BeforeFacts DEF Emits
<1>12. Shape(n)
  BY <1>1, <1>4, <1>5, <1>10 DEF Shape, Kept
<1>13. OpInv(s)'
  BY <1>2, <1>3, <1>4, <1>10, <1>11, TakeOpKeepsOps DEF Kept
<1>14. Serves(s, "none")
  BY <1>1, <1>2, <1>4, OpUser DEF Serves
<1> QED
  BY <1>2, <1>3, <1>4, <1>5, <1>10, <1>11, <1>12, <1>13, <1>14, LoopKeepsInv

\* A SEND, an option or a CLOSE that does nothing
LEMMA OpDropped ==
    ASSUME TcpInv, gpc # "unloaded", NEW s \in Sock, NEW t \in {"send", "option", "close"},
           TakeOp(t, s), UNCHANGED <<sock, events>>
    PROVE  TcpInv'
<1> DEFINE o == sock[s]
<1>1. /\ o \in Sockets /\ Shape(o) /\ OpInv(s) /\ UserInv(s) /\ ClosedInv(s)
      /\ sock \in [Sock -> Sockets] /\ TypeOK /\ ControlInv
  BY BeforeFacts
<1>2. t \in OpTypes
  BY DEF OpTypes
<1>3. /\ TakesOp(s) /\ epc = "draining" /\ UNCHANGED <<flags, gameVars, loopVars>> /\ o.id
      /\ \A u : HasOp(ops', u, s) => HasOp(ops, u, s)
  BY <1>2, TakeOpFacts
<1>4. HasOp(ops, "connect", s) <=> HasOp(ops', "connect", s)
  BY <1>1, OpsTail DEF TypeOK, TakeOp
<1>5. sock' = [sock EXCEPT ![s] = o] /\ sock'[s] = o
  BY <1>1
<1>6. OpInv(s)'
  BY <1>2, <1>3, <1>5, TakeOpKeepsOps
<1>7. UserInv(s)'
  <2>1. \A T : OpsAre(ops, T, s) => OpsAre(ops', T, s)
    BY <1>3 DEF OpsAre
  <2>2. Pending(s)' <=> Pending(s)
    BY <1>4, <1>5 DEF Pending
  <2> QED
    BY <1>1, <1>3, <1>5, <2>1, <2>2 DEF UserInv, gameVars
<1>8. ClosedInv(s)'
  BY <1>1, <1>3, <1>5 DEF ClosedInv, gameVars, loopVars
<1>9. SocketOK(s)'
  BY <1>1, <1>5, <1>6, <1>7, <1>8 DEF SocketOK
<1>10. OpsChange(s) /\ EventsChange(s)
  BY <1>3 DEF OpsChange, EventsChange, TakesOp
<1>11. /\ UNCHANGED <<loaded, gpc, evt>> /\ closing' = closing /\ todo' = todo
       /\ UNCHANGED <<epc, esock>> /\ epc # "erase" /\ flags' \subseteq {"stop", "tcp", "stopping"}
       /\ gpc = "joining" => closing' = None
  BY <1>1, <1>3 DEF gameVars, loopVars, ControlInv, TypeOK
<1> QED
  BY <1>1, <1>5, <1>9, <1>10, <1>11, StepKeepsInv

LEMMA ProcessTcpSendKeepsInv ==
    ASSUME TcpInv, gpc # "unloaded", NEW s \in Sock, ProcessTcpSend(s) PROVE TcpInv'
<1> DEFINE o == sock[s]
           n == [o EXCEPT !.wreq = TRUE]
<1>1. /\ o \in Sockets /\ Shape(o) /\ OpInv(s) /\ UserInv(s) /\ TypeOK
  BY BeforeFacts
<1>2. TakeOp("send", s)
  BY DEF ProcessTcpSend
<1>3. "send" \in OpTypes \ {"close"} /\ {"none", "error"} \subseteq Reports \ {"closed"}
  BY DEF OpTypes, Reports
<1>4. /\ TakesOp(s) /\ epc = "draining" /\ UNCHANGED <<flags, gameVars, loopVars>>
      /\ HasOp(ops, "send", s) /\ o.id
  BY <1>2, <1>3, TakeOpFacts
<1>5. CASE UNCHANGED <<sock, events>>
  BY <1>2, <1>5, OpDropped
<1>6. CASE /\ o.reg /\ ~o.hclosed /\ o.st = "CONNECTED" /\ o.uv # "none"
           /\ Apply(s, Out(n, <<>>)) \/ Apply(s, Out(o, <<"error">>))
  <2>1. /\ n \in Sockets /\ Kept(n, o) /\ n.closing = o.closing /\ n.wreq
        /\ n.reading = o.reading /\ n.reg = o.reg /\ n.st = o.st /\ n.uv = o.uv
        /\ n.creq = o.creq /\ n.res = o.res
    BY <1>1 DEF Kept, Sockets
  <2> HIDE DEF n
  <2>2. \E r \in {n, o}, t \in {"none", "error"} : sock' = [sock EXCEPT ![s] = r] /\ Emits(s, t)
    BY <1>1, <1>6, <2>1, ApplyFacts DEF Reports
  <2>3. PICK r \in {n, o}, t \in {"none", "error"} : sock' = [sock EXCEPT ![s] = r] /\ Emits(s, t)
    BY <2>2
  <2>4. r \in Sockets /\ Kept(r, o) /\ r.st = o.st /\ r.reg = o.reg /\ sock'[s] = r
    BY <1>1, <2>1, <2>3, BeforeFacts DEF Kept
  <2>5. Shape(r)
    <3>1. Shape(n)
      BY <1>1, <1>6, <2>1 DEF Shape, Kept
    <3> QED
      BY <1>1, <3>1
  <2>6. OpInv(s)'
    BY <1>2, <1>3, <1>4, <2>4, TakeOpKeepsOps DEF Kept
  <2>7. Serves(s, t)
    BY <1>1, <1>3, <1>4, OpUser DEF Serves
  <2> QED
    BY <1>3, <1>4, <1>6, <2>3, <2>4, <2>5, <2>6, <2>7, LoopKeepsInv
<1> QED
  BY <1>5, <1>6 DEF ProcessTcpSend

\* TCP_CLOSED is pushed for a socket that was not closed before.
LEMMA ClosedPushed ==
    ASSUME TcpInv, NEW s \in Sock, ClosedInv(s), sock[s].id, sock[s].st # "CLOSED",
           sock'[s].id, sock'[s].obj = sock[s].obj, sock'[s].st = "CLOSED",
           sock'[s].hclosed \in BOOLEAN, evt' = evt, Emits(s, "closed"),
           sock'[s].reg => epc' = "erase" /\ esock' = s
    PROVE  ClosedInv(s)'
<1>1. "closed" \in Reports /\ events \in Seq(Events)
  BY DEF Reports, TcpInv, TypeOK
<1>2. /\ Has(events', Accepts(s)) <=> Has(events, Accepts(s))
      /\ AtMostOne(events, Accepts(s)) => AtMostOne(events', Accepts(s))
      /\ AtMostOne(events, Closes(s)) /\ ~Has(events, Closes(s)) => AtMostOne(events', Closes(s))
  BY <1>1, EmitsFacts
<1> QED
  BY <1>2 DEF ClosedInv

LEMMA ProcessTcpCloseKeepsInv ==
    ASSUME TcpInv, gpc # "unloaded", NEW s \in Sock, ProcessTcpClose(s) PROVE TcpInv'
<1> DEFINE o == sock[s]
           n == [o EXCEPT !.st = "CLOSING", !.reading = FALSE, !.closing = TRUE]
           d == [o EXCEPT !.st = "CLOSED", !.reg = FALSE]
<1>1. /\ o \in Sockets /\ Shape(o) /\ OpInv(s) /\ UserInv(s) /\ ClosedInv(s) /\ TypeOK
      /\ ControlInv
  BY BeforeFacts
<1>2. TakeOp("close", s)
  BY DEF ProcessTcpClose
<1>3. "close" \in OpTypes /\ "closed" \in Reports /\ "none" \in Reports
  BY DEF OpTypes, Reports
<1>4. /\ TakesOp(s) /\ epc = "draining" /\ UNCHANGED <<flags, gameVars, loopVars>>
      /\ HasOp(ops, "close", s) /\ o.id /\ \A u : HasOp(ops', u, s) => HasOp(ops, u, s)
  BY <1>2, <1>3, TakeOpFacts
<1>5. o.hclosed
  BY <1>1, <1>4 DEF OpInv
<1>6. CASE UNCHANGED <<sock, events>>
  BY <1>2, <1>6, OpDropped
<1>7. ASSUME o.reg, NEW t, NEW r, sock'[s] = r, r.hclosed = o.hclosed PROVE Serves(s, t)
  BY <1>1, <1>5, <1>7 DEF Serves, UserInv, Fresh
<1>8. CASE CanClose(o) /\ o.uv # "none" /\ Apply(s, Out(n, <<>>))
  <2>1. /\ n \in Sockets /\ Kept(n, o) /\ n.closing /\ n.wreq = o.wreq
        /\ ~n.reading /\ n.reg = o.reg /\ n.st = "CLOSING" /\ n.uv = o.uv
        /\ n.creq = o.creq /\ n.res = o.res
    BY <1>1 DEF Kept, Sockets, States
  <2> HIDE DEF n
  <2>2. sock' = [sock EXCEPT ![s] = n] /\ sock'[s] = n /\ Emits(s, "none")
    BY <1>1, <1>8, <2>1, ApplyFacts, BeforeFacts
  <2>3. Shape(n)
    BY <1>1, <1>4, <1>5, <1>8, <2>1 DEF Shape, Kept, CanClose
  <2>4. OpInv(s)'
    BY <1>2, <1>3, <1>4, <2>1, <2>2, TakeOpKeepsOps DEF Kept
  <2>5. Serves(s, "none")
    BY <1>7, <1>8, <2>1, <2>2 DEF CanClose, Kept
  <2> QED
    BY <1>3, <1>4, <1>8, <2>1, <2>2, <2>3, <2>4, <2>5, LoopKeepsInv DEF CanClose
<1>9. CASE CanClose(o) /\ o.uv = "none" /\ Apply(s, Out(d, <<"closed">>))
  <2>1. /\ d \in Sockets /\ Kept(d, o) /\ d.closing = o.closing /\ d.wreq = o.wreq
        /\ d.reading = o.reading /\ ~d.reg /\ d.st = "CLOSED" /\ d.uv = o.uv
        /\ d.creq = o.creq /\ d.res = o.res /\ d.hclosed \in BOOLEAN
    BY <1>1 DEF Kept, Sockets, States
  <2> HIDE DEF d
  <2>2. sock' = [sock EXCEPT ![s] = d] /\ sock'[s] = d /\ Emits(s, "closed")
    BY <1>1, <1>3, <1>9, <2>1, ApplyFacts, BeforeFacts
  <2>3. Shape(d)
    BY <1>1, <1>4, <1>5, <1>9, <2>1 DEF Shape, Kept, CanClose
  <2>4. OpInv(s)'
    BY <1>2, <1>3, <1>4, <2>1, <2>2, TakeOpKeepsOps DEF Kept
  <2>5. Serves(s, "closed")
    BY <1>7, <1>9, <2>1, <2>2 DEF CanClose, Kept
  <2>6. UserInv(s)'
    BY <1>1, <1>3, <1>4, <2>1, <2>2, <2>5, UserKept DEF Kept, gameVars
  <2>7. ClosedInv(s)'
    BY <1>1, <1>4, <1>9, <2>1, <2>2, ClosedPushed DEF Kept, gameVars, CanClose
  <2>8. SocketOK(s)'
    BY <2>2, <2>3, <2>4, <2>6, <2>7 DEF SocketOK
  <2>9. OpsChange(s) /\ EventsChange(s)
    BY <1>1, <1>3, <1>4, <2>1, <2>2, EmitsFacts DEF OpsChange, TakesOp, TypeOK
  <2>10. /\ UNCHANGED <<loaded, gpc, evt>> /\ closing' = closing /\ todo' = todo
         /\ UNCHANGED <<epc, esock>> /\ epc # "erase"
         /\ flags' \subseteq {"stop", "tcp", "stopping"}
         /\ gpc = "joining" => closing' = None
    BY <1>1, <1>4 DEF gameVars, loopVars, ControlInv, TypeOK
  <2> QED
    BY <2>1, <2>2, <2>8, <2>9, <2>10, StepKeepsInv
<1> QED
  BY <1>6, <1>8, <1>9 DEF ProcessTcpClose

-----------------------------------------------------------------------------
(* The callbacks                                                           *)

LEMMA InLoopFacts ==
    ASSUME TcpInv, epc = "poll"
    PROVE  gpc # "unloaded"
  BY DEF TcpInv, ControlInv

\* A callback is about a socket that was registered, so that it has a handle id.
LEMMA NamedSocket ==
    ASSUME NEW s \in Sock, Shape(sock[s]), UserInv(s),
           \/ sock[s].reg \/ sock[s].wreq \/ sock[s].res # {} \/ sock[s].hclosed
    PROVE  sock[s].id
  BY DEF Shape, UserInv, Nameless

\* No op registers a socket that has a query or a request under way, is closing or is read
LEMMA NoRegisteringOp ==
    ASSUME NEW s \in Sock, Shape(sock[s]), OpInv(s),
           \/ sock[s].creq \/ sock[s].res # {} \/ sock[s].reading \/ sock[s].closing
    PROVE  \A t \in RegTypes : ~HasOp(ops, t, s)
  BY DEF Shape, OpInv, Fresh, CanConnect, RegTypes

LEMMA NoOpsKept ==
    ASSUME NEW s \in Sock, OpInv(s), UNCHANGED <<ops, closing, todo>>,
           \A t \in RegTypes : ~HasOp(ops, t, s),
           sock'[s].id = sock[s].id, sock'[s].hclosed = sock[s].hclosed
    PROVE  OpInv(s)'
<1>1. /\ ~HasOp(ops, "bind", s) /\ ~HasOp(ops, "listen", s) /\ ~HasOp(ops, "accept", s)
      /\ ~HasOp(ops, "connect", s)
  BY DEF RegTypes
<1> QED
  BY <1>1 DEF OpInv

LEMMA OnResolvedKeepsInv ==
    ASSUME TcpInv, NEW s \in Sock, NEW k \in {"connect", "listen"}, OnResolved(s, k)
    PROVE  TcpInv'
<1> DEFINE o == sock[s]
           r == [o EXCEPT !.res = @ \ {k}]
           R == IF k = "connect" THEN ConnectResolved(r) ELSE ListenResolved(r)
<1>1. /\ epc = "poll" /\ UNCHANGED <<ops, flags, gameVars, loopVars>> /\ k \in o.res
      /\ \E x \in R : Apply(s, x)
  BY DEF OnResolved, InLoop
<1>2. gpc # "unloaded"
  BY <1>1, InLoopFacts
<1>3. /\ o \in Sockets /\ Shape(o) /\ OpInv(s) /\ UserInv(s) /\ TypeOK
  BY <1>2, BeforeFacts
<1>4. /\ o.res = {k} /\ o.id /\ \A t \in RegTypes : ~HasOp(ops, t, s)
      /\ ~o.hclosed => o.reg /\ o.st \in {"CREATED", "RESOLVING"}
  BY <1>1, <1>3, NamedSocket, NoRegisteringOp DEF Shape
<1>5. /\ r \in Sockets /\ Kept(r, o) /\ SameRest(r, o) /\ r.reg = o.reg /\ r.st = o.st
      /\ r.uv = o.uv /\ r.creq = o.creq /\ r.res = {} /\ (r.hclosed <=> o.hclosed)
  BY <1>3, <1>4 DEF Kept, SameRest, Sockets
<1> HIDE DEF r
<1>6. /\ ~(s \in Created /\ o.user = "new") /\ ~(o.user = "failed" /\ ~o.hclosed)
      /\ ~(o.user = "bound" /\ ~o.hclosed)
      /\ o.user = "waiting" /\ ~o.hclosed => k = "connect"
  BY <1>3, <1>4 DEF UserInv, Fresh, CanConnect
<1>7. ASSUME NEW n \in Sockets, Kept(n, o), sock' = [sock EXCEPT ![s] = n],
             NEW t \in {"none", "error"}, Emits(s, t), Shape(n),
             o.st # "CLOSED" => n.st # "CLOSED", n.reg = o.reg, o.st = "CLOSED" => n.st = "CLOSED",
             ~o.hclosed /\ k = "connect" => Attempt(n, t)
      PROVE  TcpInv'
  <2>1. sock'[s] = n /\ t \in Reports \ {"closed"}
    BY <1>2, <1>7, BeforeFacts DEF Reports
  <2>2. OpInv(s)'
    BY <1>1, <1>3, <1>4, <1>7, <2>1, NoOpsKept DEF Kept, gameVars
  <2>3. Serves(s, t)
    <3>1. ASSUME o.user = "waiting", ~o.hclosed
          PROVE  /\ "listen" \notin n.res /\ Pending(s)
                 /\ \/ Pending(s)' /\ t = "none"
                    \/ ~Pending(s)' /\ t = "error" /\ CanConnect(n)
      <4>1. ~HasOp(ops', "connect", s)
        BY <1>1, <1>4 DEF RegTypes
      <4>2. Attempt(n, t) /\ k = "connect"
        BY <1>6, <1>7, <3>1
      <4> QED
        BY <1>4, <2>1, <4>1, <4>2 DEF Pending, Attempt, CanConnect
    <3> QED
      BY <1>6, <3>1, <2>1 DEF Serves
  <2> QED
    BY <1>1, <1>2, <1>4, <1>7, <2>1, <2>2, <2>3, LoopKeepsInv
<1>8. CASE o.hclosed
  <2>1. R = {Out(r, <<>>)}
    BY <1>5, <1>8 DEF ConnectResolved, ListenResolved, Resolved
  <2>2. sock' = [sock EXCEPT ![s] = r] /\ Emits(s, "none")
    BY <1>1, <1>3, <1>5, <2>1, ApplyFacts
  <2>3. Shape(r)
    BY <1>3, <1>4, <1>5 DEF Shape, Kept, SameRest
  <2> QED
    BY <1>5, <1>7, <1>8, <2>2, <2>3
<1>9. CASE ~o.hclosed /\ k = "connect"
  <2>1. PICK x \in ConnectResolved(r) : Apply(s, x)
    BY <1>1, <1>9
  <2>2. o.uv \in {"none", "idle"} /\ ~o.creq
    BY <1>3, <1>4, <1>9 DEF Shape
  <2>3. PICK n \in Sockets, t \in {"none", "error"} :
            /\ x = Out(n, IF t = "none" THEN <<>> ELSE <<"error">>)
            /\ Attempt(n, t) /\ Kept(n, r) /\ SameRest(n, r) /\ n.reg
    BY <1>4, <1>5, <1>9, <2>1, <2>2, ConnectResolvedFacts
  <2>4. sock' = [sock EXCEPT ![s] = n] /\ Emits(s, t)
    BY <1>3, <2>1, <2>3, ApplyFacts DEF Reports
  <2>5. Kept(n, o) /\ SameRest(n, o) /\ n.reg = o.reg
    BY <1>4, <1>5, <1>9, <2>3, ZenonT(30) DEF Kept, SameRest, Sockets
  <2>6. Shape(n)
    BY <1>3, <1>4, <1>9, <2>2, <2>3, <2>5 DEF Shape, Kept, SameRest, Attempt
  <2>7. n.st # "CLOSED" /\ o.st # "CLOSED"
    BY <1>4, <1>9, <2>3 DEF Attempt
  <2> QED
    BY <1>7, <1>9, <2>3, <2>4, <2>5, <2>6, <2>7
<1>10. CASE ~o.hclosed /\ k = "listen"
  <2>1. PICK x \in ListenResolved(r) : Apply(s, x)
    BY <1>1, <1>10
  <2>2. PICK n \in Sockets, t \in {"none", "error"} :
            /\ x = Out(n, IF t = "none" THEN <<>> ELSE <<"error">>)
            /\ Kept(n, r) /\ SameRest(n, r) /\ n.reg /\ n.creq = r.creq /\ n.res = r.res
            /\ \/ n.st = r.st /\ n.uv \in {r.uv, "none"}
               \/ n.st = "LISTENING" /\ n.uv = "listening"
    BY <1>4, <1>5, <1>10, <2>1, ListenResolvedFacts
  <2>3. sock' = [sock EXCEPT ![s] = n] /\ Emits(s, t)
    BY <1>3, <2>1, <2>2, ApplyFacts DEF Reports
  <2>4. Kept(n, o) /\ SameRest(n, o) /\ n.reg = o.reg
    BY <1>4, <1>5, <1>10, <2>2 DEF Kept, SameRest
  <2>5. Shape(n)
    BY <1>3, <1>4, <1>5, <1>10, <2>2, <2>4 DEF Shape, Kept, SameRest
  <2> QED
    BY <1>4, <1>5, <1>7, <1>10, <2>2, <2>3, <2>4, <2>5
<1> QED
  BY <1>8, <1>9, <1>10

LEMMA OnTcpConnectedKeepsInv ==
    ASSUME TcpInv, NEW s \in Sock, OnTcpConnected(s) PROVE TcpInv'
<1> DEFINE o == sock[s]
           r == [o EXCEPT !.creq = FALSE]
           c == [r EXCEPT !.st = "CONNECTED", !.uv = "open", !.reading = TRUE]
<1>1. /\ epc = "poll" /\ UNCHANGED <<ops, flags, gameVars, loopVars>> /\ o.creq
  BY DEF OnTcpConnected, InLoop
<1>2. gpc # "unloaded"
  BY <1>1, InLoopFacts
<1>3. /\ o \in Sockets /\ Shape(o) /\ OpInv(s) /\ UserInv(s) /\ TypeOK
  BY <1>2, BeforeFacts
<1>4. /\ o.reg /\ o.id /\ \A t \in RegTypes : ~HasOp(ops, t, s)
      /\ o.res = {} /\ o.st \in {"CONNECTING", "CLOSING"}
      /\ ~o.hclosed => o.st = "CONNECTING" /\ o.uv \in {"none", "idle"}
  BY <1>1, <1>3, NamedSocket, NoRegisteringOp DEF Shape
<1>5. /\ r \in Sockets /\ Kept(r, o) /\ SameRest(r, o) /\ r.reg = o.reg /\ r.st = o.st
      /\ r.uv = o.uv /\ ~r.creq /\ r.res = {} /\ (r.hclosed <=> o.hclosed)
  BY <1>3, <1>4 DEF Kept, SameRest, Sockets
<1> HIDE DEF r
<1>6. /\ c \in Sockets /\ Kept(c, o) /\ c.closing = o.closing /\ c.wreq = o.wreq
      /\ c.reading /\ c.reg /\ c.st = "CONNECTED" /\ c.uv = "open" /\ ~c.creq /\ c.res = {}
  BY <1>4, <1>5 DEF Kept, SameRest, Sockets, States
<1> HIDE DEF c
<1>7. \/ o.hclosed /\ Apply(s, Out(r, <<>>))
      \/ ~o.hclosed /\ Apply(s, Out(r, <<"error">>))
      \/ ~o.hclosed /\ Apply(s, Out(c, <<"connected">>))
  BY <1>5 DEF OnTcpConnected, r, c
<1>8. PICK n \in {r, c}, t \in {"none", "error", "connected"} :
          /\ sock' = [sock EXCEPT ![s] = n] /\ Emits(s, t)
          /\ \/ o.hclosed /\ n = r /\ t = "none"
             \/ ~o.hclosed /\ n = r /\ t = "error"
             \/ ~o.hclosed /\ n = c /\ t = "connected"
  BY <1>3, <1>5, <1>6, <1>7, ApplyFacts DEF Reports
<1>9. /\ n \in Sockets /\ Kept(n, o) /\ sock'[s] = n /\ t \in Reports \ {"closed"}
      /\ ~n.creq /\ n.res = {} /\ n.st # "CLOSED" /\ o.st # "CLOSED"
  BY <1>2, <1>4, <1>5, <1>6, <1>8, BeforeFacts DEF Reports
<1>10. Shape(n)
  <2>1. CASE n = r
    BY <1>3, <1>4, <1>5, <2>1 DEF Shape, Kept, SameRest
  <2>2. CASE ~o.hclosed /\ n = c
    BY <1>3, <1>4, <1>6, <2>2 DEF Shape, Kept
  <2> QED
    BY <1>8, <2>1, <2>2
<1>11. OpInv(s)'
  BY <1>1, <1>3, <1>4, <1>9, NoOpsKept DEF Kept, gameVars
<1>12. Serves(s, t)
  <2>1. /\ ~(s \in Created /\ o.user = "new") /\ ~(o.user = "failed" /\ ~o.hclosed)
        /\ ~(o.user = "bound" /\ ~o.hclosed)
    BY <1>1, <1>3 DEF UserInv, Fresh, CanConnect
  <2>2. Pending(s) /\ ~Pending(s)'
    BY <1>1, <1>4, <1>9 DEF Pending, RegTypes
  <2>3. ~o.hclosed => t \in {"error", "connected"} /\ (t = "error" => CanConnect(n))
    BY <1>4, <1>5, <1>8 DEF CanConnect
  <2> QED
    BY <1>9, <2>1, <2>2, <2>3 DEF Serves
<1> QED
  BY <1>1, <1>2, <1>4, <1>8, <1>9, <1>10, <1>11, <1>12, LoopKeepsInv

\* What happens on an established connection is no news about the attempt.
LEMMA EstablishedServes ==
    ASSUME NEW s \in Sock, Shape(sock[s]), OpInv(s), UserInv(s), ops' = ops,
           sock[s].st \in {"CONNECTED", "CLOSING"}, NEW t, t # "connected",
           sock'[s].creq = sock[s].creq, sock'[s].res = sock[s].res
    PROVE  Serves(s, t)
<1> DEFINE o == sock[s]
<1>1. ~CanConnect(o) /\ ~Fresh(o)
  BY DEF CanConnect, Fresh
<1>2. ~o.hclosed => ~o.creq /\ o.res = {}
  BY DEF Shape
<1>3. ~HasOp(ops, "connect", s)
  BY <1>1 DEF OpInv
<1>4. ~o.hclosed => ~Pending(s) /\ ~Pending(s)' /\ "listen" \notin sock'[s].res
  BY <1>2, <1>3 DEF Pending
<1>5. ~(s \in Created /\ o.user = "new")
  BY <1>1 DEF UserInv
<1>6. ~(o.user = "failed" /\ ~o.hclosed) /\ ~(o.user = "bound" /\ ~o.hclosed)
  BY <1>1 DEF UserInv
<1> HIDE DEF Pending
<1> QED
  BY <1>1, <1>4, <1>5, <1>6 DEF Serves

LEMMA EstablishedKeepsInv ==
    ASSUME TcpInv, epc = "poll", UNCHANGED <<ops, flags, gameVars, loopVars>>,
           NEW s \in Sock, sock[s].st \in {"CONNECTED", "CLOSING"}, sock[s].id,
           NEW n \in Sockets, Kept(n, sock[s]), n.creq = sock[s].creq, n.res = sock[s].res,
           n.uv = sock[s].uv, n.reg = sock[s].reg, Shape(n),
           \/ n.st = sock[s].st
           \/ n.st = "CLOSING" /\ \A t \in RegTypes : ~HasOp(ops, t, s),
           sock' = [sock EXCEPT ![s] = n], NEW t \in {"none", "data", "error"}, Emits(s, t)
    PROVE  TcpInv'
<1>1. gpc # "unloaded"
  BY InLoopFacts
<1>2. /\ sock[s] \in Sockets /\ Shape(sock[s]) /\ OpInv(s) /\ UserInv(s) /\ sock'[s] = n
  BY <1>1, BeforeFacts
<1>3. t \in Reports \ {"closed"} /\ t # "connected"
  BY DEF Reports
<1>4. OpInv(s)'
  <2>1. CASE n.st = sock[s].st
    BY <1>2, <2>1 DEF OpInv, Kept, gameVars, Fresh, CanConnect
  <2>2. CASE \A u \in RegTypes : ~HasOp(ops, u, s)
    BY <1>2, <2>2, NoOpsKept DEF Kept, gameVars
  <2> QED
    BY <2>1, <2>2
<1>5. Serves(s, t)
  BY <1>2, <1>3, EstablishedServes
<1> QED
  BY <1>1, <1>2, <1>3, <1>4, <1>5, LoopKeepsInv

LEMMA OnTcpWriteDoneKeepsInv ==
    ASSUME TcpInv, NEW s \in Sock, OnTcpWriteDone(s) PROVE TcpInv'
<1> DEFINE o == sock[s]
           r == [o EXCEPT !.wreq = FALSE]
<1>1. /\ epc = "poll" /\ UNCHANGED <<ops, flags, gameVars, loopVars>> /\ o.wreq
      /\ Apply(s, Out(r, <<>>)) \/ Apply(s, Out(r, <<"error">>))
  BY DEF OnTcpWriteDone, InLoop
<1>2. /\ o \in Sockets /\ Shape(o) /\ UserInv(s) /\ TypeOK
  BY <1>1, InLoopFacts, BeforeFacts
<1>3. o.st \in {"CONNECTED", "CLOSING"} /\ o.id
  BY <1>1, <1>2, NamedSocket DEF Shape
<1>4. /\ r \in Sockets /\ Kept(r, o) /\ r.closing = o.closing /\ r.reading = o.reading /\ ~r.wreq
      /\ r.reg = o.reg /\ r.st = o.st /\ r.uv = o.uv /\ r.creq = o.creq /\ r.res = o.res
  BY <1>2 DEF Kept, Sockets
<1> HIDE DEF r
<1>5. PICK t \in {"none", "error"} : sock' = [sock EXCEPT ![s] = r] /\ Emits(s, t)
  BY <1>1, <1>2, <1>4, ApplyFacts DEF Reports
<1>6. Shape(r)
  BY <1>2, <1>4 DEF Shape, Kept
<1> QED
  BY <1>1, <1>3, <1>4, <1>5, <1>6, EstablishedKeepsInv

LEMMA ReadKeepsInv ==
    ASSUME TcpInv, NEW s \in Sock, TcpReadData(s) \/ TcpReadEof(s) \/ TcpReadError(s)
    PROVE  TcpInv'
<1> DEFINE o == sock[s]
           r == [o EXCEPT !.reading = FALSE]
           c == [o EXCEPT !.reading = FALSE, !.st = "CLOSING", !.closing = TRUE]
<1>1. /\ epc = "poll" /\ UNCHANGED <<ops, flags, gameVars, loopVars>> /\ o.reading
      /\ \/ Apply(s, Out(o, <<"data">>)) \/ Apply(s, Out(c, <<>>))
         \/ Apply(s, Out(r, <<"error">>))
  BY DEF TcpReadData, TcpReadEof, TcpReadError, InLoop
<1>2. /\ o \in Sockets /\ Shape(o) /\ OpInv(s) /\ TypeOK
  BY <1>1, InLoopFacts, BeforeFacts
<1>3. o.st = "CONNECTED" /\ o.id /\ o.reg /\ \A t \in RegTypes : ~HasOp(ops, t, s)
  BY <1>1, <1>2, NoRegisteringOp DEF Shape
<1>4. /\ r \in Sockets /\ Kept(r, o) /\ r.closing = o.closing /\ ~r.reading /\ r.wreq = o.wreq
      /\ r.reg = o.reg /\ r.st = o.st /\ r.uv = o.uv /\ r.creq = o.creq /\ r.res = o.res
  BY <1>2 DEF Kept, Sockets
<1> HIDE DEF r
<1>5. /\ c \in Sockets /\ Kept(c, o) /\ c.closing /\ ~c.reading /\ c.wreq = o.wreq
      /\ c.reg = o.reg /\ c.st = "CLOSING" /\ c.uv = o.uv /\ c.creq = o.creq /\ c.res = o.res
  BY <1>2 DEF Kept, Sockets, States
<1> HIDE DEF c
<1>6. Kept(o, o)
  BY DEF Kept
<1>7. Shape(r) /\ Shape(c)
  <2>1. Shape(r)
    BY <1>2, <1>4 DEF Shape, Kept
  <2>2. Shape(c)
    BY <1>2, <1>3, <1>5 DEF Shape, Kept
  <2> QED
    BY <2>1, <2>2
<1>8. CASE Apply(s, Out(o, <<"data">>))
  <2>1. sock' = [sock EXCEPT ![s] = o] /\ Emits(s, "data")
    BY <1>2, <1>8, ApplyFacts DEF Reports
  <2> QED
    BY <1>1, <1>2, <1>3, <1>6, <2>1, EstablishedKeepsInv
<1>9. CASE Apply(s, Out(c, <<>>))
  <2>1. sock' = [sock EXCEPT ![s] = c] /\ Emits(s, "none")
    BY <1>2, <1>5, <1>9, ApplyFacts
  <2> QED
    BY <1>1, <1>3, <1>5, <1>7, <2>1, EstablishedKeepsInv
<1>10. CASE Apply(s, Out(r, <<"error">>))
  <2>1. sock' = [sock EXCEPT ![s] = r] /\ Emits(s, "error")
    BY <1>2, <1>4, <1>10, ApplyFacts DEF Reports
  <2> QED
    BY <1>1, <1>3, <1>4, <1>7, <2>1, EstablishedKeepsInv
<1> QED
  BY <1>1, <1>8, <1>9, <1>10

LEMMA OnTcpClosedPushesKeepsInv ==
    ASSUME TcpInv, NEW s \in Sock, OnTcpClosedPushes(s) PROVE TcpInv'
<1> DEFINE o == sock[s]
           n == [o EXCEPT !.st = "CLOSED", !.uv = "none", !.closing = FALSE]
<1>1. /\ epc = "poll" /\ UNCHANGED <<ops, flags, gameVars>> /\ epc' = "erase" /\ esock' = s
      /\ o.closing /\ ~o.creq /\ ~o.wreq /\ Apply(s, Out(n, <<"closed">>))
  BY DEF OnTcpClosedPushes
<1>2. gpc # "unloaded"
  BY <1>1, InLoopFacts
<1>3. /\ o \in Sockets /\ Shape(o) /\ OpInv(s) /\ UserInv(s) /\ ClosedInv(s) /\ TypeOK
      /\ ControlInv
  BY <1>2, BeforeFacts
<1>4. /\ o.st = "CLOSING" /\ o.reg /\ o.id /\ ~o.reading /\ \A t \in RegTypes : ~HasOp(ops, t, s)
  BY <1>1, <1>3, NamedSocket, NoRegisteringOp DEF Shape
<1>5. /\ n \in Sockets /\ Kept(n, o) /\ ~n.closing /\ n.reading = o.reading /\ n.wreq = o.wreq
      /\ n.reg = o.reg /\ n.st = "CLOSED" /\ n.uv = "none" /\ n.creq = o.creq /\ n.res = o.res
      /\ n.hclosed \in BOOLEAN
  BY <1>3 DEF Kept, Sockets, States
<1> HIDE DEF n
<1>6. "closed" \in Reports
  BY DEF Reports
<1>7. sock' = [sock EXCEPT ![s] = n] /\ sock'[s] = n /\ Emits(s, "closed")
  BY <1>1, <1>2, <1>3, <1>5, <1>6, ApplyFacts, BeforeFacts
<1>8. Shape(n)
  BY <1>1, <1>3, <1>4, <1>5 DEF Shape, Kept
<1>9. OpInv(s)'
  BY <1>1, <1>3, <1>4, <1>5, <1>7, NoOpsKept DEF Kept, gameVars
<1>10. UserInv(s)'
  <2>1. Serves(s, "closed")
    BY <1>1, <1>3, <1>4, <1>5, <1>7, EstablishedServes
  <2> QED
    BY <1>1, <1>3, <1>4, <1>5, <1>6, <1>7, <2>1, UserKept DEF Kept, gameVars
<1>11. ClosedInv(s)'
  BY <1>1, <1>3, <1>4, <1>5, <1>7, ClosedPushed DEF Kept, gameVars
<1>12. SocketOK(s)'
  BY <1>7, <1>8, <1>9, <1>10, <1>11 DEF SocketOK
<1>13. OpsChange(s) /\ EventsChange(s)
  BY <1>1, <1>3, <1>5, <1>6, <1>7, EmitsFacts DEF OpsChange, TypeOK
<1>14. /\ UNCHANGED <<loaded, gpc, evt>> /\ closing' = closing /\ todo' = todo
       /\ flags' \subseteq {"stop", "tcp", "stopping"}
       /\ gpc = "joining" => closing' = None
  BY <1>1, <1>3 DEF gameVars, ControlInv, TypeOK
<1> QED
  BY <1>1, <1>2, <1>5, <1>7, <1>12, <1>13, <1>14, StepKeepsInv

\* A connection arrives: it takes an object that nothing knows yet.
LEMMA OnTcpNewConnectionKeepsInv ==
    ASSUME TcpInv, NEW s \in Sock, NEW c \in Sock, OnTcpNewConnection(s, c) PROVE TcpInv'
<1> DEFINE o == sock[c]
           n == [Unused EXCEPT !.obj = "live", !.st = "CONNECTED", !.uv = "open",
                               !.cb = sock[s].cb]
           e == [Event("accepted", s, FALSE) EXCEPT !.client = c]
<1>1. /\ epc = "poll" /\ UNCHANGED <<ops, flags, gameVars, loopVars>>
      /\ c \notin Created /\ o.obj = "none" /\ sock' = [sock EXCEPT ![c] = n]
      /\ events' = Append(events, e)
  BY DEF OnTcpNewConnection, InLoop
<1>2. gpc # "unloaded"
  BY <1>1, InLoopFacts
<1>3. /\ o \in Sockets /\ sock[s] \in Sockets /\ TypeOK /\ ControlInv /\ sock \in [Sock -> Sockets]
      /\ events \in Seq(Events) /\ \A x \in Sock : SocketOK(x)
  BY <1>2, BeforeFacts DEF TcpInv, TypeOK
<1>4. /\ n \in Sockets /\ n.obj = "live" /\ n.st = "CONNECTED" /\ n.uv = "open" /\ ~n.id
      /\ ~n.hclosed /\ ~n.reading /\ ~n.closing /\ ~n.creq /\ ~n.wreq /\ n.res = {} /\ ~n.reg
      /\ n.user = "new"
  <2>1. sock[s].cb \in {"first", "set"}
    BY <1>3 DEF Sockets
  <2> DEFINE a == [Unused EXCEPT !.obj = "live"]
             b == [a EXCEPT !.st = "CONNECTED"]
             d == [b EXCEPT !.uv = "open"]
             u == [d EXCEPT !.cb = sock[s].cb]
  <2>2. /\ Unused \in Sockets /\ ~Unused.id /\ ~Unused.hclosed /\ ~Unused.reading
        /\ ~Unused.closing /\ ~Unused.creq /\ ~Unused.wreq /\ Unused.res = {} /\ ~Unused.reg
        /\ Unused.user = "new"
    BY DEF Unused, Sockets, States
  <2>3. n = u
    OBVIOUS
  <2>4. /\ a \in Sockets /\ a.obj = "live" /\ ~a.id /\ ~a.hclosed /\ ~a.reading
        /\ ~a.closing /\ ~a.creq /\ ~a.wreq /\ a.res = {} /\ ~a.reg /\ a.user = "new"
    BY <2>2 DEF Sockets
  <2> HIDE DEF a
  <2>5. /\ b \in Sockets /\ b.obj = "live" /\ b.st = "CONNECTED" /\ ~b.id /\ ~b.hclosed /\ ~b.reading
        /\ ~b.closing /\ ~b.creq /\ ~b.wreq /\ b.res = {} /\ ~b.reg /\ b.user = "new"
    BY <2>4 DEF Sockets, States
  <2> HIDE DEF b
  <2>6. /\ d \in Sockets /\ d.obj = "live" /\ d.st = "CONNECTED" /\ d.uv = "open" /\ ~d.id
        /\ ~d.hclosed /\ ~d.reading
        /\ ~d.closing /\ ~d.creq /\ ~d.wreq /\ d.res = {} /\ ~d.reg /\ d.user = "new"
    BY <2>5 DEF Sockets
  <2> HIDE DEF d
  <2>7. /\ u \in Sockets /\ u.obj = "live" /\ u.st = "CONNECTED" /\ u.uv = "open" /\ ~u.id
        /\ ~u.hclosed /\ ~u.reading
        /\ ~u.closing /\ ~u.creq /\ ~u.wreq /\ u.res = {} /\ ~u.reg /\ u.user = "new"
    BY <2>1, <2>6 DEF Sockets
  <2> QED
    BY <2>3, <2>7
<1> HIDE DEF n
<1>5. e \in Events /\ e.type = "accepted" /\ e.client = c
  BY DEF Event, Events, EventTypes
<1> HIDE DEF e
<1>6. /\ \A x : e \notin Errors(x) /\ e \notin Connects(x) /\ e \notin About(x) /\ e \notin Closes(x)
      /\ \A x : e \in Accepts(x) <=> x = c
  BY <1>5 DEF Errors, Connects, About, Closes, Accepts
<1>7. /\ events' \in Seq(Events)
      /\ \A E : Has(events', E) <=> Has(events, E) \/ e \in E
      /\ \A E : AtMostOne(events, E) /\ ~(Has(events, E) /\ e \in E) => AtMostOne(events', E)
      /\ \A E, F : Before(events', E, F) => Before(events, E, F) \/ (e \in E /\ ~Has(events, F))
  BY <1>1, <1>3, <1>5, EventsAppend
<1>8. sock' \in [Sock -> Sockets] /\ sock'[c] = n /\ \A x \in Sock \ {c} : sock'[x] = sock[x]
  BY <1>1, <1>3, <1>4
<1>9. TypeOK'
  BY <1>1, <1>3, <1>7, <1>8 DEF TypeOK, gameVars, loopVars
<1>10. ControlInv'
  <2>1. ~Has(events', Accepts(None))
    BY <1>3, <1>6, <1>7, TcpAssumption DEF ControlInv, TcpAssumption
  <2> QED
    BY <1>1, <1>2, <1>3, <2>1 DEF ControlInv, gameVars, loopVars
<1>11. SocketOK(c)'
  <2>1. Shape(o) /\ OpInv(c) /\ UserInv(c) /\ ClosedInv(c) /\ ~o.id
    BY <1>1, <1>3 DEF SocketOK, Shape
  <2>2. ~o.hclosed /\ o.user = "new"
    BY <2>1 DEF Shape, UserInv, Nameless
  <2>3. OpsAre(ops, {}, c) /\ c \notin todo /\ closing # c
    BY <2>1, <2>2 DEF OpInv
  <2>4. Shape(n)
    BY <1>4 DEF Shape
  <2>5. OpInv(c)'
    <3>1. \A t \in OpTypes : ~HasOp(ops', t, c)
      BY <1>1, <2>3 DEF OpsAre
    <3>2. Ordered(ops', c) /\ closing' # c /\ c \notin todo' /\ OpsAre(ops', {}, c)
      BY <1>1, <2>1, <2>3 DEF OpInv, gameVars
    <3> QED
      BY <3>1, <3>2 DEF OpInv, OpTypes
  <2>6. UserInv(c)'
    BY <1>1, <1>4, <1>8 DEF UserInv, Nameless
  <2>7. ClosedInv(c)'
    <3>1. ~Has(events', About(c)) /\ ~Has(events', Closes(c)) /\ evt' \notin Closes(c)
      <4>1. ~Has(events, About(c)) /\ evt \notin Closes(c)
        BY <2>1 DEF ClosedInv
      <4>2. ~Has(events, Closes(c))
        BY <4>1 DEF Has, About, Closes
      <4> QED
        BY <1>1, <1>6, <1>7, <4>1, <4>2 DEF gameVars
    <3>2. AtMostOne(events', Accepts(c)) /\ AtMostOne(events', Closes(c))
      <4>1. ~Has(events, Accepts(c)) /\ AtMostOne(events, Accepts(c)) /\ AtMostOne(events, Closes(c))
        BY <1>1, <2>1 DEF ClosedInv
      <4> QED
        BY <1>6, <1>7, <4>1
    <3> QED
      BY <1>4, <1>8, <3>1, <3>2 DEF ClosedInv
  <2> QED
    BY <1>8, <2>4, <2>5, <2>6, <2>7 DEF SocketOK
<1>12. ASSUME NEW x \in Sock, x # c PROVE SocketOK(x)'
  <2>1. /\ \A E \in {Errors(x), Connects(x), About(x), Closes(x), Accepts(x)} :
              /\ Has(events', E) <=> Has(events, E)
              /\ AtMostOne(events, E) => AtMostOne(events', E)
        /\ Before(events', Errors(x), Connects(x)) => Before(events, Errors(x), Connects(x))
    BY <1>6, <1>7, <1>12
  <2>2. x \in todo' => sock[x].id
    BY <1>1, <1>3 DEF SocketOK, OpInv, gameVars
  <2>3. SameUse(x)
    BY <1>1, <1>8, <1>12, <2>1, <2>2 DEF SameUse, gameVars
  <2>4. Same(x)
    BY <1>1, <2>3 DEF Same, gameVars
  <2> QED
    BY <1>3, <2>4, SameKeepsSocket
<1> QED
  BY <1>9, <1>10, <1>11, <1>12 DEF TcpInv

LEMMA OnTcpClosedErasesKeepsInv ==
    ASSUME TcpInv, OnTcpClosedErases PROVE TcpInv'
<1>0. epc = "erase" /\ gpc # "unloaded" /\ esock \in Sock /\ sock[esock].st = "CLOSED"
  BY DEF TcpInv, ControlInv, OnTcpClosedErases
<1> PICK s \in Sock : esock = s
  BY <1>0
<1> DEFINE o == sock[s]
           n == [o EXCEPT !.reg = FALSE]
<1>1. /\ epc = "erase" /\ epc' \in {"undefined", "poll"} /\ esock' = None
      /\ UNCHANGED <<ops, events, flags, gameVars>> /\ sock' = [sock EXCEPT ![s] = n]
  BY DEF OnTcpClosedErases
<1>2. gpc # "unloaded" /\ o.st = "CLOSED"
  BY <1>0
<1>3. /\ o \in Sockets /\ Shape(o) /\ OpInv(s) /\ UserInv(s) /\ ClosedInv(s)
      /\ TypeOK /\ ControlInv /\ sock \in [Sock -> Sockets] /\ \A x \in Sock : SocketOK(x)
  BY <1>2, BeforeFacts DEF TcpInv
<1>4. /\ n \in Sockets /\ Kept(n, o) /\ SameRest(n, o) /\ ~n.reg /\ n.st = o.st
      /\ n.uv = o.uv /\ n.creq = o.creq /\ n.res = o.res
  BY <1>3 DEF Kept, SameRest, Sockets
<1> HIDE DEF n
<1>5. sock' \in [Sock -> Sockets] /\ sock'[s] = n /\ \A x \in Sock \ {s} : sock'[x] = sock[x]
  BY <1>1, <1>2, <1>3, <1>4
<1>6. TypeOK'
  BY <1>1, <1>3, <1>5 DEF TypeOK, gameVars
<1>7. ControlInv'
  BY <1>1, <1>2, <1>3 DEF ControlInv, gameVars
<1>8. SocketOK(s)'
  <2>1. Shape(n)
    BY <1>2, <1>3, <1>4 DEF Shape, Kept, SameRest
  <2>2. OpInv(s)'
    BY <1>1, <1>2, <1>3, <1>4, <1>5 DEF OpInv, gameVars, Kept, Fresh, CanConnect
  <2>3. UserInv(s)'
    <3>1. Pending(s)' <=> Pending(s)
      BY <1>1, <1>4, <1>5 DEF Pending
    <3>2. CanConnect(n) <=> CanConnect(o)
      BY <1>4 DEF CanConnect
    <3>3. ~Fresh(o)
      BY <1>2 DEF Fresh
    <3>4. o.id /\ n.id
      BY <1>2, <1>3, <1>4 DEF UserInv, Nameless, Kept
    <3> QED
      BY <1>1, <1>3, <1>4, <1>5, <3>1, <3>2, <3>3, <3>4 DEF UserInv, gameVars, Kept
  <2>4. ClosedInv(s)'
    BY <1>1, <1>3, <1>4, <1>5 DEF ClosedInv, gameVars, Kept
  <2> QED
    BY <1>5, <2>1, <2>2, <2>3, <2>4 DEF SocketOK
<1>9. ASSUME NEW x \in Sock, x # s PROVE SocketOK(x)'
  <2>1. x \in todo' => sock[x].id
    BY <1>1, <1>3 DEF SocketOK, OpInv, gameVars
  <2>2. SameUse(x)
    BY <1>1, <1>5, <1>9, <2>1 DEF SameUse, gameVars
  <2>3. Same(x)
    BY <1>1, <1>9, <2>2 DEF Same, gameVars
  <2> QED
    BY <1>3, <2>3, SameKeepsSocket
<1> QED
  BY <1>6, <1>7, <1>8, <1>9 DEF TcpInv

\* Steps that leave sockets and queues alone
LEMMA QuietKeepsInv ==
    ASSUME TcpInv, UNCHANGED <<sock, ops, events, evt, closing>>, TypeOK', ControlInv',
           loaded' => loaded, \A x \in todo' : sock[x].id,
           epc = "erase" => UNCHANGED <<epc, esock>>, gpc # "unloaded"
    PROVE  TcpInv'
<1>1. ASSUME NEW x \in Sock PROVE SocketOK(x)'
  <2>1. SocketOK(x)
    BY DEF TcpInv
  <2>2. Same(x)
    BY DEF Same, SameUse
  <2> QED
    BY <2>1, <2>2, SameKeepsSocket
<1> QED
  BY <1>1 DEF TcpInv

LEMMA WalkKeepsInv ==
    ASSUME TcpInv,
           \/ OnAsyncStop \/ OnAsyncTcpOpEnter \/ OnAsyncTcpOpExit \/ EventExit
           \/ SDK_OnUnload \/ OnPluginUnloaded
    PROVE  TcpInv'
<1>1. TypeOK /\ ControlInv
  BY DEF TcpInv
<1>2. gpc # "unloaded"
  BY <1>1 DEF ControlInv, OnAsyncStop, OnAsyncTcpOpEnter, OnAsyncTcpOpExit, EventExit,
              SDK_OnUnload, OnPluginUnloaded
<1>3. \A x \in todo : sock[x].id
  BY <1>1, <1>2 DEF TcpInv, SocketOK, OpInv, TypeOK
<1>4. CASE OnAsyncStop \/ OnAsyncTcpOpEnter \/ OnAsyncTcpOpExit \/ EventExit
  <2>1. /\ UNCHANGED <<sock, ops, events, gameVars, esock>> /\ epc \in {"poll", "draining"}
        /\ flags' \subseteq {"stop", "tcp", "stopping"} /\ epc' \in {"poll", "draining", "exited"}
    BY <1>1, <1>4 DEF TypeOK, OnAsyncStop, OnAsyncTcpOpEnter, OnAsyncTcpOpExit, EventExit, loopVars
  <2>2. TypeOK'
    BY <1>1, <2>1 DEF TypeOK, gameVars
  <2>3. ControlInv'
    BY <1>1, <1>2, <2>1 DEF ControlInv, gameVars
  <2> QED
    BY <1>2, <1>3, <2>1, <2>2, <2>3, QuietKeepsInv DEF gameVars
<1>5. CASE SDK_OnUnload
  <2>1. /\ UNCHANGED <<sock, ops, events, loaded, evt, closing, todo, loopVars>>
        /\ gpc = "idle" /\ gpc' = "joining" /\ closing = None /\ todo = {}
        /\ flags' = flags \cup {"stop"}
    BY <1>5 DEF SDK_OnUnload
  <2>2. TypeOK'
    BY <1>1, <2>1 DEF TypeOK, loopVars
  <2>3. ControlInv'
    BY <1>1, <2>1 DEF ControlInv, loopVars
  <2> QED
    BY <1>2, <1>3, <2>1, <2>2, <2>3, QuietKeepsInv DEF loopVars
<1>6. CASE OnPluginUnloaded
  <2>1. /\ UNCHANGED <<sock, ops, events, flags, gpc, evt, closing, loopVars>>
        /\ gpc = "idle" /\ loaded' = FALSE
        /\ todo' = {s \in Sock : sock[s].obj = "live" /\ sock[s].id}
    BY <1>6 DEF OnPluginUnloaded
  <2>2. loaded' \in BOOLEAN /\ ~loaded'
    BY <2>1
  <2>3. TypeOK'
    BY <1>1, <2>1, <2>2 DEF TypeOK, loopVars
  <2>4. ControlInv'
    BY <1>1, <2>1, <2>2 DEF ControlInv, loopVars
  <2> QED
    BY <1>2, <2>1, <2>2, <2>3, <2>4, QuietKeepsInv DEF loopVars
<1> QED
  BY <1>4, <1>5, <1>6

-----------------------------------------------------------------------------
(* The natives                                                             *)

\* A step of the game thread about a socket with a handle id that the loop does not see
LEMMA GameKeepsInv ==
    ASSUME TcpInv, gpc # "unloaded", NEW s \in Sock, NEW r \in Sockets,
           sock' = [sock EXCEPT ![s] = r],
           r.obj = sock[s].obj, r.id = sock[s].id, r.st = sock[s].st, r.reg = sock[s].reg,
           OpsChange(s), UNCHANGED <<events, loaded, gpc, evt, epc, esock>>,
           flags' \subseteq {"stop", "tcp", "stopping"},
           closing' \in {closing, s, None}, gpc = "joining" => closing' = None,
           todo' \subseteq todo, Shape(r), OpInv(s)', UserInv(s)'
    PROVE  TcpInv'
<1>1. ClosedInv(s) /\ sock'[s] = r
  BY BeforeFacts
<1>2. ClosedInv(s)'
  BY <1>1 DEF ClosedInv
<1>3. SocketOK(s)'
  BY <1>1, <1>2 DEF SocketOK
<1>4. EventsChange(s)
  BY DEF EventsChange
<1> QED
  BY <1>3, <1>4, StepKeepsInv

Users == {"new", "bound", "boundwait", "waiting", "failed", "open", "server"}

LEMMA UserSet ==
    ASSUME NEW o \in Sockets, Shape(o), NEW u \in Users,
           NEW r, r = [o EXCEPT !.user = u]
    PROVE  /\ r \in Sockets /\ r.user = u /\ Shape(r)
           /\ r.obj = o.obj /\ r.id = o.id /\ r.hclosed = o.hclosed /\ r.st = o.st /\ r.uv = o.uv
           /\ r.reading = o.reading /\ r.closing = o.closing /\ r.creq = o.creq
           /\ r.wreq = o.wreq /\ r.res = o.res /\ r.reg = o.reg
           /\ Fresh(r) <=> Fresh(o)
           /\ CanConnect(r) <=> CanConnect(o)
<1>1. r \in Sockets /\ r.user = u
  BY DEF Sockets, Users
<1>2. /\ r.obj = o.obj /\ r.id = o.id /\ r.hclosed = o.hclosed /\ r.st = o.st /\ r.uv = o.uv
      /\ r.reading = o.reading /\ r.closing = o.closing /\ r.creq = o.creq
      /\ r.wreq = o.wreq /\ r.res = o.res /\ r.reg = o.reg
  BY DEF Sockets
<1>3. Shape(r)
  BY <1>2 DEF Shape
<1>4. (Fresh(r) <=> Fresh(o)) /\ (CanConnect(r) <=> CanConnect(o))
  BY <1>2 DEF Fresh, CanConnect
<1> QED
  BY <1>1, <1>2, <1>3, <1>4

LEMMA OpFacts ==
    ASSUME NEW t \in OpTypes, NEW s \in Sock
    PROVE  Op(t, s) \in Ops /\ Op(t, s).type = t /\ Op(t, s).s = s
  BY DEF Op, Ops

\* A native that enqueues an op of type k and leaves the plugin with u
LEMMA EnqueuesKeepsInv ==
    ASSUME TcpInv, NEW s \in Sock, NEW k \in OpTypes \ {"close", "accept"}, NEW u \in Users,
           Enqueues(Op(k, s), u),
           \/ u = "open" /\ k \in {"send", "option"}
           \/ /\ sock[s].user \in {"new", "bound", "failed"}
              /\ k = "connect" /\ ~sock[s].hclosed
              /\ u = IF sock[s].user = "bound" THEN "boundwait" ELSE "waiting"
           \/ sock[s].user = "new" /\ k = "bind" /\ u = "bound"
           \/ sock[s].user = "new" /\ k = "listen" /\ u = "server"
    PROVE  TcpInv'
<1> DEFINE o == sock[s]
           op == Op(k, s)
           r == [o EXCEPT !.user = u]
<1>1. op \in Ops /\ op.type = k /\ op.s = s
  BY OpFacts
<1> HIDE DEF op
<1>2. /\ loaded /\ gpc \in {"idle", "callback"} /\ closing = None /\ todo = {} /\ o.id
      /\ ops' = Append(ops, op) /\ flags' = flags \cup {"tcp"}
      /\ sock' = [sock EXCEPT ![s].user = u] /\ UNCHANGED <<events, gameVars, loopVars>>
  BY <1>1 DEF Enqueues, InNative, EnqueueTcpOp, op
<1>3. gpc # "unloaded"
  BY <1>2
<1>4. /\ o \in Sockets /\ Shape(o) /\ OpInv(s) /\ UserInv(s) /\ TypeOK /\ ops \in Seq(Ops)
      /\ sock \in [Sock -> Sockets] /\ flags \subseteq {"stop", "tcp", "stopping"}
  BY <1>3, BeforeFacts DEF TypeOK
<1>5. /\ r \in Sockets /\ r.user = u /\ Shape(r)
      /\ r.obj = o.obj /\ r.id = o.id /\ r.hclosed = o.hclosed /\ r.st = o.st
      /\ r.creq = o.creq /\ r.res = o.res /\ r.reg = o.reg
      /\ Fresh(r) <=> Fresh(o)
      /\ CanConnect(r) <=> CanConnect(o)
  BY <1>4, UserSet
<1>6. sock' = [sock EXCEPT ![s] = r]
  BY <1>2
<1> HIDE DEF r
<1>7. sock'[s] = r
  BY <1>4, <1>6
<1>8. /\ \A t : HasOp(ops', t, s) <=> HasOp(ops, t, s) \/ t = k
      /\ \A T : k \in T /\ OpsAre(ops, T, s) => OpsAre(ops', T, s)
      /\ k \notin RegTypes \/ (\A t \in OpTypes : HasOp(ops, t, s) => t = "bind" /\ k = "connect")
            => Ordered(ops', s)
  <2>1. /\ \A t : HasOp(ops', t, s) <=> HasOp(ops, t, s) \/ t = k
        /\ k \notin RegTypes \/ (\A t \in OpTypes : HasOp(ops, t, s) => t = "bind" /\ k = "connect")
              => Ordered(ops', s)
    BY <1>1, <1>2, <1>4, OpsAppend DEF OpInv
  <2> QED
    BY <2>1 DEF OpsAre
<1>9. OpInv(s)' /\ UserInv(s)'
  <2>1. CASE u = "open" /\ k \in {"send", "option"}
    <3>1. OpInv(s)'
      <4>1. \A t \in RegTypes \cup {"close"} : HasOp(ops', t, s) <=> HasOp(ops, t, s)
        BY <1>8, <2>1 DEF RegTypes
      <4>2. Ordered(ops', s)
        BY <1>8, <2>1 DEF RegTypes
      <4> QED
        BY <1>2, <1>4, <1>5, <1>7, <2>1, <4>1, <4>2, TcpAssumption
           DEF OpInv, RegTypes, gameVars, CanConnect, Fresh, TcpAssumption
    <3>2. UserInv(s)'
      BY <1>2, <1>5, <1>7, <2>1 DEF UserInv
    <3> QED
      BY <3>1, <3>2
  <2>2. CASE u # "open"
    <3>1. /\ s \in Created /\ ~o.hclosed /\ ~HasOp(ops, "close", s)
          /\ o.user \in {"new", "bound", "failed"}
      BY <1>2, <1>4, <2>2 DEF UserInv, OpInv
    <3>2. ASSUME NEW T, OpsAre(ops, T \cup {"close"}, s) PROVE OpsAre(ops, T, s)
      BY <3>1, <3>2 DEF OpsAre
    <3>3. OpsAre(ops, IF o.user = "bound" THEN {"bind"} ELSE {}, s) /\ CanConnect(o)
      <4>1. CASE o.user = "new"
        <5>1. Fresh(o) /\ OpsAre(ops, {} \cup {"close"}, s)
          BY <1>4, <3>1, <4>1 DEF UserInv
        <5> QED
          BY <3>2, <4>1, <5>1 DEF Fresh, CanConnect
      <4>2. CASE o.user # "new"
        BY <1>4, <3>1, <4>2 DEF UserInv
      <4> QED
        BY <4>1, <4>2
    <3>4. Ordered(ops', s)
      BY <1>8, <2>2, <3>3 DEF OpsAre
    <3>5. OpsAre(ops', (IF o.user = "bound" THEN {"bind"} ELSE {}) \cup {k}, s)
      BY <1>8, <3>3 DEF OpsAre
    <3>6. o.user = "new" => /\ Fresh(o)
                            /\ ~Has(events, Errors(s)) /\ ~Has(events, Connects(s))
      BY <1>4, <3>1 DEF UserInv
    <3>7. o.user = "failed" => ~Has(events, Errors(s)) /\ ~Has(events, Connects(s))
      BY <1>4, <3>1 DEF UserInv
    <3>8. CASE k = "connect"
      <4>1. u = IF o.user = "bound" THEN "boundwait" ELSE "waiting"
        BY <3>8
      <4>2. OpInv(s)'
        <5>1. HasOp(ops', "bind", s) => Fresh(o) /\ u = "boundwait"
          BY <1>4, <1>8, <3>3, <3>8, <4>1 DEF OpsAre, OpInv, OpTypes
        <5>2. ~HasOp(ops', "listen", s) /\ ~HasOp(ops', "accept", s) /\ ~HasOp(ops', "close", s)
          BY <3>5, <3>8 DEF OpsAre, OpTypes
        <5> QED
          BY <1>2, <1>5, <1>7, <3>3, <3>4, <5>1, <5>2, TcpAssumption
             DEF OpInv, gameVars, TcpAssumption
      <4>3. UserInv(s)'
        <5>1. CASE u = "boundwait"
          BY <1>2, <1>5, <1>7, <3>1, <5>1 DEF UserInv
        <5>2. CASE u = "waiting"
          <6>1. OpsAre(ops', {"connect"}, s) /\ Pending(s)'
            BY <1>8, <3>5, <3>8, <4>1, <5>2 DEF Pending, OpsAre
          <6>2. "listen" \notin r.res /\ ~Has(events', Errors(s)) /\ ~Has(events', Connects(s))
            BY <1>2, <1>5, <3>1, <3>3, <3>6, <3>7, <4>1, <5>2 DEF CanConnect
          <6> QED
            BY <1>2, <1>5, <1>7, <3>1, <5>2, <6>1, <6>2 DEF UserInv
        <5> QED
          BY <4>1, <5>1, <5>2
      <4> QED
        BY <4>2, <4>3
    <3>9. CASE k # "connect"
      <4>1. o.user = "new" /\ ((k = "bind" /\ u = "bound") \/ (k = "listen" /\ u = "server"))
        BY <2>2, <3>9
      <4>2. OpInv(s)'
        <5>1. /\ HasOp(ops', "bind", s) => u = "bound"
              /\ HasOp(ops', "listen", s) => u = "server"
              /\ ~HasOp(ops', "connect", s) /\ ~HasOp(ops', "accept", s) /\ ~HasOp(ops', "close", s)
          BY <3>5, <4>1 DEF OpsAre, OpTypes
        <5> QED
          BY <1>2, <1>5, <1>7, <3>4, <3>6, <4>1, <5>1, TcpAssumption
             DEF OpInv, gameVars, TcpAssumption
      <4>3. UserInv(s)'
        <5>1. u = "bound" => OpsAre(ops', {"bind"}, s)
          BY <3>5, <4>1 DEF OpsAre
        <5> QED
          BY <1>2, <1>5, <1>7, <3>1, <3>3, <4>1, <5>1 DEF UserInv
      <4> QED
        BY <4>2, <4>3
    <3> QED
      BY <3>8, <3>9
  <2> QED
    BY <2>1, <2>2
<1>10. OpsChange(s) /\ flags' \subseteq {"stop", "tcp", "stopping"}
  BY <1>1, <1>2, <1>4 DEF OpsChange
<1> QED
  BY <1>2, <1>3, <1>5, <1>6, <1>9, <1>10, GameKeepsInv DEF gameVars, loopVars

LEMMA NativesKeepInv ==
    ASSUME TcpInv, NEW s \in Sock,
           \/ Native_TcpConnect(s) \/ Native_TcpBind(s) \/ Native_TcpListen(s)
           \/ Native_TcpSend(s) \/ Native_TcpSetOption(s)
    PROVE  TcpInv'
<1>1. CASE Native_TcpConnect(s)
  <2> DEFINE u == IF sock[s].user = "bound" THEN "boundwait" ELSE "waiting"
  <2>1. /\ sock[s].user \in {"new", "bound", "failed"} /\ ~sock[s].hclosed
        /\ Enqueues(Op("connect", s), u) /\ u \in Users
        /\ "connect" \in OpTypes \ {"close", "accept"}
    BY <1>1 DEF Native_TcpConnect, Users, OpTypes
  <2> QED
    BY <2>1, EnqueuesKeepsInv
<1>2. CASE Native_TcpBind(s) \/ Native_TcpListen(s)
  <2>1. /\ sock[s].user = "new" /\ "bind" \in OpTypes \ {"close", "accept"} /\ "bound" \in Users
        /\ "listen" \in OpTypes \ {"close", "accept"} /\ "server" \in Users
        /\ Enqueues(Op("bind", s), "bound") \/ Enqueues(Op("listen", s), "server")
    BY <1>2 DEF Native_TcpBind, Native_TcpListen, Users, OpTypes
  <2> QED
    BY <2>1, EnqueuesKeepsInv
<1>3. CASE Native_TcpSend(s) \/ Native_TcpSetOption(s)
  <2>1. /\ "open" \in Users
        /\ "send" \in OpTypes \ {"close", "accept"} /\ "option" \in OpTypes \ {"close", "accept"}
        /\ Enqueues(Op("send", s), "open") \/ Enqueues(Op("option", s), "open")
    BY <1>3 DEF Native_TcpSend, Native_TcpSetOption, Users, OpTypes
  <2> QED
    BY <2>1, EnqueuesKeepsInv
<1> QED
  BY <1>1, <1>2, <1>3

\* The object is made together with its id: nothing was said of it before.
LEMMA TcpNewKeepsInv ==
    ASSUME TcpInv, NEW s \in Sock, Native_TcpNew(s) PROVE TcpInv'
<1> DEFINE o == sock[s]
           a == [o EXCEPT !.obj = "live"]
           r == [a EXCEPT !.id = TRUE]
<1>1. /\ gpc # "unloaded" /\ loaded /\ closing = None /\ todo = {} /\ s \in Created /\ o.obj = "none"
      /\ sock' = [sock EXCEPT ![s].obj = "live", ![s].id = TRUE]
      /\ UNCHANGED <<ops, events, flags, gameVars, loopVars>>
  BY DEF Native_TcpNew
<1>2. /\ o \in Sockets /\ Shape(o) /\ OpInv(s) /\ UserInv(s) /\ ClosedInv(s) /\ TypeOK
      /\ sock \in [Sock -> Sockets] /\ flags \subseteq {"stop", "tcp", "stopping"}
  BY <1>1, BeforeFacts DEF TypeOK
<1>3. sock' = [sock EXCEPT ![s] = r]
  BY <1>1, <1>2
<1>4. /\ a \in Sockets /\ a.obj = "live" /\ a.hclosed = o.hclosed /\ a.st = o.st /\ a.uv = o.uv
      /\ a.reading = o.reading /\ a.closing = o.closing /\ a.creq = o.creq
      /\ a.wreq = o.wreq /\ a.res = o.res /\ a.reg = o.reg /\ a.user = o.user
  BY <1>2 DEF Sockets
<1> HIDE DEF a
<1>5. /\ r \in Sockets /\ r.obj = "live" /\ r.id /\ r.hclosed = o.hclosed /\ r.st = o.st
      /\ r.uv = o.uv /\ r.reading = o.reading /\ r.closing = o.closing /\ r.creq = o.creq
      /\ r.wreq = o.wreq /\ r.res = o.res /\ r.reg = o.reg /\ r.user = o.user
  BY <1>4 DEF Sockets
<1> HIDE DEF r
<1>6. sock'[s] = r
  BY <1>2, <1>3
<1>7. /\ ~o.id /\ ~o.hclosed /\ ~o.reading /\ o.st = "CREATED" /\ o.user = "new" /\ ~o.reg
      /\ OpsAre(ops, {}, s)
  BY <1>1, <1>2 DEF Shape, UserInv, Nameless, OpInv
<1>8. Shape(r)
  BY <1>2, <1>5, <1>7 DEF Shape
<1>9. OpInv(s)'
  <2>1. \A t \in OpTypes : ~HasOp(ops', t, s)
    BY <1>1, <1>7 DEF OpsAre
  <2>2. Ordered(ops', s) /\ closing' # s
    BY <1>1, <1>2, TcpAssumption DEF OpInv, gameVars, TcpAssumption
  <2> QED
    BY <1>5, <1>6, <2>1, <2>2 DEF OpInv, OpTypes
<1>10. UserInv(s)'
  <2>1. /\ Fresh(o) /\ OpsAre(ops, {"close"}, s)
        /\ ~Has(events, Errors(s)) /\ ~Has(events, Connects(s))
    BY <1>1, <1>2, <1>7 DEF UserInv
  <2>2. Fresh(r)
    BY <1>5, <2>1 DEF Fresh
  <2> QED
    BY <1>1, <1>5, <1>6, <1>7, <2>1, <2>2 DEF UserInv, gameVars
<1>11. ClosedInv(s)'
  BY <1>1, <1>2, <1>5, <1>6, <1>7 DEF ClosedInv, gameVars, loopVars
<1>12. SocketOK(s)'
  BY <1>6, <1>8, <1>9, <1>10, <1>11 DEF SocketOK
<1>13. OpsChange(s) /\ EventsChange(s)
  BY <1>1 DEF OpsChange, EventsChange
<1> QED
  BY <1>1, <1>2, <1>3, <1>5, <1>12, <1>13, StepKeepsInv DEF gameVars, loopVars

LEMMA SetCallbacksKeepsInv ==
    ASSUME TcpInv, NEW s \in Sock, Native_TcpSetCallbacks(s) PROVE TcpInv'
<1> DEFINE o == sock[s]
           r == [o EXCEPT !.cb = "set"]
<1>1. /\ gpc \in {"idle", "callback"} /\ closing = None /\ todo = {} /\ s \notin Created
      /\ o.id /\ sock' = [sock EXCEPT ![s].cb = "set"]
      /\ UNCHANGED <<ops, events, flags, gameVars, loopVars>>
  BY DEF Native_TcpSetCallbacks, InNative
<1>2. /\ gpc # "unloaded" /\ o \in Sockets /\ Shape(o) /\ OpInv(s) /\ UserInv(s) /\ TypeOK
      /\ sock \in [Sock -> Sockets] /\ flags \subseteq {"stop", "tcp", "stopping"}
  BY <1>1, BeforeFacts DEF TypeOK
<1>3. /\ r \in Sockets /\ r.obj = o.obj /\ r.id = o.id /\ r.hclosed = o.hclosed /\ r.st = o.st
      /\ r.uv = o.uv /\ r.reading = o.reading /\ r.closing = o.closing /\ r.creq = o.creq
      /\ r.wreq = o.wreq /\ r.res = o.res /\ r.reg = o.reg /\ r.user = o.user
  BY <1>2 DEF Sockets
<1>4. sock' = [sock EXCEPT ![s] = r]
  BY <1>1
<1> HIDE DEF r
<1>5. sock'[s] = r
  BY <1>2, <1>4
<1>6. Shape(r)
  BY <1>2, <1>3 DEF Shape
<1>7. OpInv(s)'
  <2>1. (Fresh(r) <=> Fresh(o)) /\ (CanConnect(r) <=> CanConnect(o))
    BY <1>3 DEF Fresh, CanConnect
  <2> QED
    BY <1>1, <1>2, <1>3, <1>5, <2>1 DEF OpInv, gameVars
<1>8. UserInv(s)'
  BY <1>1, <1>2, <1>3, <1>5 DEF UserInv
<1>9. OpsChange(s)
  BY <1>1 DEF OpsChange
<1> QED
  BY <1>1, <1>2, <1>3, <1>4, <1>6, <1>7, <1>8, <1>9, GameKeepsInv DEF gameVars, loopVars

\* handle_closed is set by Close, or by OnPluginUnloaded.
LEMMA HandleClosedKeepsInv ==
    ASSUME TcpInv, NEW s \in Sock, Native_TcpClose(s) \/ CloseNext(s) PROVE TcpInv'
<1> DEFINE o == sock[s]
           r == [o EXCEPT !.hclosed = TRUE]
<1>1. /\ gpc \notin {"joining", "unloaded"} /\ sock' = [sock EXCEPT ![s].hclosed = TRUE]
      /\ closing' = s /\ todo' \subseteq todo
      /\ UNCHANGED <<ops, events, flags, loaded, gpc, evt, loopVars>>
      /\ s \in todo \/ (o.id /\ o.user # "new")
  <2>1. s \in todo => gpc \notin {"joining", "unloaded"}
    BY DEF TcpInv, ControlInv
  <2> QED
    BY <2>1 DEF Native_TcpClose, CloseNext, InNative
<1>2. /\ gpc # "unloaded" /\ o \in Sockets /\ Shape(o) /\ OpInv(s) /\ UserInv(s) /\ TypeOK
      /\ ControlInv
      /\ sock \in [Sock -> Sockets] /\ flags \subseteq {"stop", "tcp", "stopping"}
  BY <1>1, BeforeFacts DEF TypeOK
<1>3. o.id /\ (o.user = "new" => ~loaded)
  BY <1>1, <1>2 DEF OpInv, ControlInv
<1>4. /\ r \in Sockets /\ r.obj = o.obj /\ r.id = o.id /\ r.hclosed /\ r.st = o.st
      /\ r.uv = o.uv /\ r.reading = o.reading /\ r.closing = o.closing /\ r.creq = o.creq
      /\ r.wreq = o.wreq /\ r.res = o.res /\ r.reg = o.reg /\ r.user = o.user
  BY <1>2 DEF Sockets
<1>5. sock' = [sock EXCEPT ![s] = r]
  BY <1>1
<1> HIDE DEF r
<1>6. sock'[s] = r
  BY <1>2, <1>5
<1>7. Shape(r)
  BY <1>2, <1>3, <1>4 DEF Shape
<1>8. (Fresh(r) <=> Fresh(o)) /\ (CanConnect(r) <=> CanConnect(o))
  BY <1>4 DEF Fresh, CanConnect
<1>9. OpInv(s)'
  BY <1>1, <1>2, <1>3, <1>4, <1>6, <1>8 DEF OpInv
<1>10. UserInv(s)'
  BY <1>1, <1>2, <1>3, <1>4, <1>6, <1>8 DEF UserInv
<1>11. OpsChange(s)
  BY <1>1 DEF OpsChange
<1> QED
  BY <1>1, <1>2, <1>4, <1>5, <1>7, <1>9, <1>10, <1>11, GameKeepsInv DEF loopVars

LEMMA EnqueueCloseKeepsInv ==
    ASSUME TcpInv, EnqueueClose PROVE TcpInv'
<1>0. closing # None /\ TypeOK /\ ControlInv
  BY DEF EnqueueClose, TcpInv
<1> PICK s \in Sock : closing = s
  BY <1>0 DEF TypeOK
<1> DEFINE o == sock[s]
           op == Op("close", s)
<1>1. /\ ops' = Append(ops, op) /\ flags' = flags \cup {"tcp"} /\ closing' = None
      /\ UNCHANGED <<sock, events, loaded, gpc, evt, todo, loopVars>>
  BY DEF EnqueueClose, EnqueueTcpOp
<1>2. gpc # "unloaded"
  BY <1>0 DEF ControlInv
<1>3. /\ o \in Sockets /\ Shape(o) /\ OpInv(s) /\ UserInv(s) /\ ops \in Seq(Ops)
      /\ sock \in [Sock -> Sockets] /\ flags \subseteq {"stop", "tcp", "stopping"}
  BY <1>2, BeforeFacts DEF TypeOK
<1>4. op \in Ops /\ op.type = "close" /\ op.s = s
  BY OpFacts DEF OpTypes
<1> HIDE DEF op
<1>5. /\ \A t : HasOp(ops', t, s) <=> HasOp(ops, t, s) \/ t = "close"
      /\ Ordered(ops', s)
  BY <1>1, <1>3, <1>4, OpsAppend DEF OpInv, RegTypes
<1>6. o.hclosed /\ o.id
  BY <1>3 DEF OpInv, Shape
<1>7. OpInv(s)'
  BY <1>0, <1>1, <1>3, <1>5, <1>6 DEF OpInv
<1>8. UserInv(s)'
  <2>1. OpsAre(ops, {"close"}, s) => OpsAre(ops', {"close"}, s)
    BY <1>5 DEF OpsAre
  <2> QED
    BY <1>1, <1>3, <1>6, <2>1 DEF UserInv
<1>9. sock' = [sock EXCEPT ![s] = o]
  BY <1>1, <1>3
<1>10. OpsChange(s)
  BY <1>1, <1>4 DEF OpsChange
<1> HIDE DEF o
<1> QED
  BY <1>1, <1>2, <1>3, <1>7, <1>8, <1>9, <1>10, GameKeepsInv DEF loopVars, o

-----------------------------------------------------------------------------
(* Dispatching                                                             *)

LEMMA DispatchFacts ==
    ASSUME TcpInv, NEW T, Dispatches(T)
    PROVE  /\ gpc = "idle" /\ evt = NoEvent /\ closing = None /\ todo = {}
           /\ events' = Tail(events) /\ Head(events).type \in T
           /\ UNCHANGED <<loaded, closing, todo, epc, esock>>
           /\ TypeOK /\ ControlInv /\ \A x \in Sock : SocketOK(x)
           /\ events' \in Seq(Events) /\ Head(events) \in Events
           /\ \A E : Has(events, E) <=> Has(events', E) \/ Head(events) \in E
           /\ \A E : AtMostOne(events, E) =>
                  AtMostOne(events', E) /\ ~(Has(events', E) /\ Head(events) \in E)
           /\ \A E, F : Head(events) \in E => Before(events, E, F)
           /\ \A x \in Sock : Head(events) \notin Connects(x) /\ sock'[x] = sock[x]
                  /\ (\A t : HasOp(ops', t, x) <=> HasOp(ops, t, x))
                  /\ (Ordered(ops, x) => Ordered(ops', x)) => SameUse(x)
<1>1. /\ gpc = "idle" /\ closing = None /\ todo = {} /\ events # <<>>
      /\ events' = Tail(events) /\ Head(events).type \in T
      /\ UNCHANGED <<loaded, closing, todo, epc, esock>>
  BY DEF Dispatches, loopVars
<1>2. TypeOK /\ ControlInv /\ (\A x \in Sock : SocketOK(x)) /\ events \in Seq(Events)
  BY <1>1 DEF TcpInv, TypeOK
<1>3. evt = NoEvent
  BY <1>1, <1>2 DEF ControlInv
<1>4. /\ events' \in Seq(Events) /\ Head(events) \in Events
      /\ \A E : Has(events, E) <=> Has(events', E) \/ Head(events) \in E
      /\ \A E : AtMostOne(events, E) =>
             AtMostOne(events', E) /\ ~(Has(events', E) /\ Head(events) \in E)
      /\ \A E, F : Before(events', E, F) /\ Head(events) \notin F => Before(events, E, F)
      /\ \A E, F : Head(events) \in E => Before(events, E, F)
  BY <1>1, <1>2, EventsTail
<1>5. ASSUME NEW x \in Sock, Head(events) \notin Connects(x), sock'[x] = sock[x],
             \A t : HasOp(ops', t, x) <=> HasOp(ops, t, x),
             Ordered(ops, x) => Ordered(ops', x)
      PROVE  SameUse(x)
  BY <1>1, <1>4, <1>5 DEF SameUse
<1> QED
  BY <1>1, <1>2, <1>3, <1>4, <1>5

LEMMA DispatchSkipKeepsInv ==
    ASSUME TcpInv, DispatchSkip PROVE TcpInv'
<1>1. /\ Dispatches(EventTypes \ {"closed"}) /\ Head(events).hclosed
      /\ UNCHANGED <<sock, ops, flags, gpc, evt>>
  BY DEF DispatchSkip
<1>2. /\ gpc = "idle" /\ UNCHANGED <<loaded, closing, todo, epc, esock>>
      /\ TypeOK /\ ControlInv /\ \A x \in Sock : SocketOK(x)
      /\ events' \in Seq(Events)
      /\ \A E : Has(events, E) <=> Has(events', E) \/ Head(events) \in E
      /\ \A x \in Sock : Head(events) \notin Connects(x) => SameUse(x)
  BY <1>1, DispatchFacts
<1>3. \A x \in Sock : SameUse(x)
  BY <1>1, <1>2 DEF Connects
<1>4. \A x \in Sock : Same(x)
  BY <1>1, <1>2, <1>3 DEF Same
<1>5. TypeOK'
  BY <1>1, <1>2 DEF TypeOK
<1>6. ControlInv'
  BY <1>1, <1>2 DEF ControlInv
<1> QED
  BY <1>2, <1>4, <1>5, <1>6, SameKeepsSocket DEF TcpInv

\* A failure told to a plugin that waits for its attempt is the only news of it: it may
\* connect again.
LEMMA ErrorIsTheAnswer ==
    ASSUME NEW s \in Sock, UserInv(s), sock[s].user = "waiting", ~sock[s].hclosed,
           NEW e \in Errors(s), NEW q,
           \A E : Has(events, E) <=> Has(q, E) \/ e \in E,
           \A E : AtMostOne(events, E) => ~(Has(q, E) /\ e \in E),
           \A E, F : e \in E => Before(events, E, F)
    PROVE  /\ CanConnect(sock[s]) /\ OpsAre(ops, {}, s)
           /\ ~Has(q, Errors(s)) /\ ~Has(q, Connects(s))
<1>1. /\ OpsAre(ops, {"connect"}, s)
      /\ \/ ~Has(events, Errors(s)) /\ ~Has(events, Connects(s))
         \/ /\ CanConnect(sock[s]) /\ ~Pending(s) /\ AtMostOne(events, Errors(s))
            /\ ~Has(events, Connects(s))
         \/ ~Pending(s) /\ Has(events, Connects(s)) /\ ~Before(events, Errors(s), Connects(s))
  BY DEF UserInv
<1>2. CanConnect(sock[s]) /\ ~Pending(s) /\ AtMostOne(events, Errors(s)) /\ ~Has(events, Connects(s))
  BY <1>1
<1>3. OpsAre(ops, {}, s)
  BY <1>1, <1>2 DEF OpsAre, Pending
<1> QED
  BY <1>2, <1>3

LEMMA DispatchSocketEventKeepsInv ==
    ASSUME TcpInv, DispatchSocketEvent PROVE TcpInv'
<1> DEFINE T == EventTypes \ {"accepted"}
<1>0. Dispatches(T)
  BY DEF DispatchSocketEvent
<1> HIDE DEF T
<1>1. /\ gpc = "idle" /\ evt = NoEvent /\ closing = None /\ todo = {}
      /\ events' = Tail(events) /\ Head(events).type \in T
      /\ UNCHANGED <<loaded, closing, todo, epc, esock>>
      /\ TypeOK /\ ControlInv /\ \A x \in Sock : SocketOK(x)
  BY <1>0, DispatchFacts
<1> PICK e \in Events : e = Head(events)
  BY <1>0, DispatchFacts
<1> PICK s \in Sock : s = e.s
  BY DEF Events
<1> PICK k \in T : k = e.type
  BY <1>1
<1>2. /\ events' \in Seq(Events)
      /\ \A E : Has(events, E) <=> Has(events', E) \/ e \in E
      /\ \A E : AtMostOne(events, E) => AtMostOne(events', E) /\ ~(Has(events', E) /\ e \in E)
      /\ \A E, F : e \in E => Before(events, E, F)
  BY <1>0, DispatchFacts
<1>3. \A x \in Sock : e \notin Connects(x) /\ sock'[x] = sock[x] /\ UNCHANGED ops => SameUse(x)
  BY <1>0, DispatchFacts
<1> DEFINE o == sock[s]
           u == Learns(o.user, k)
           r == [o EXCEPT !.user = u]
<1>4. /\ k = "closed" \/ ~e.hclosed
      /\ sock' = [sock EXCEPT ![s] = r] /\ gpc' = "callback" /\ evt' = e /\ UNCHANGED <<ops, flags>>
  BY DEF DispatchSocketEvent
<1>5. /\ o \in Sockets /\ Shape(o) /\ OpInv(s) /\ UserInv(s) /\ ClosedInv(s)
      /\ sock \in [Sock -> Sockets]
  BY <1>1, BeforeFacts
<1>6. /\ k = "connected" => u = "open"
      /\ k = "error" /\ o.user = "waiting" => u = "failed"
      /\ k # "connected" /\ ~(k = "error" /\ o.user = "waiting") => u = o.user
  BY DEF Learns
<1>7. u \in Users
  BY <1>5, <1>6 DEF Users, Sockets
<1>8. k # "accepted" /\ k \in EventTypes
  BY DEF T
<1> HIDE DEF u
<1>9. /\ r \in Sockets /\ r.user = u /\ Shape(r)
      /\ r.obj = o.obj /\ r.id = o.id /\ r.hclosed = o.hclosed /\ r.st = o.st
      /\ r.res = o.res /\ r.reg = o.reg
      /\ Fresh(r) <=> Fresh(o)
      /\ CanConnect(r) <=> CanConnect(o)
  BY <1>5, <1>7, UserSet
<1>10. u = o.user => r = o
  BY <1>5 DEF Sockets
<1> HIDE DEF r
<1>11. sock' \in [Sock -> Sockets] /\ sock'[s] = r /\ \A x \in Sock \ {s} : sock'[x] = sock[x]
  BY <1>4, <1>5, <1>9
<1>12. e \in About(s) /\ o.id
  <2>1. e \in About(s)
    BY <1>8 DEF About
  <2> QED
    BY <1>2, <1>5, <2>1 DEF ClosedInv
<1>13. TypeOK'
  BY <1>1, <1>2, <1>4, <1>11 DEF TypeOK
<1>14. ControlInv'
  <2>1. e # NoEvent
    BY <1>8 DEF NoEvent, EventTypes
  <2>2. ~Has(events', Accepts(None))
    BY <1>1, <1>2 DEF ControlInv
  <2>3. epc' = "erase" => esock' \in Sock /\ sock'[esock'].st = "CLOSED"
    BY <1>1, <1>9, <1>11 DEF ControlInv
  <2> QED
    BY <1>1, <1>4, <2>1, <2>2, <2>3 DEF ControlInv
<1>15. ClosedInv(s)'
  <2>1. e \notin Accepts(s) /\ (e \in Closes(s) <=> k = "closed")
    BY <1>8 DEF Accepts, Closes
  <2>2. /\ Has(events, Closes(s)) <=> Has(events', Closes(s)) \/ k = "closed"
        /\ Has(events, Accepts(s)) <=> Has(events', Accepts(s))
        /\ AtMostOne(events', Closes(s)) /\ (k = "closed" => ~Has(events', Closes(s)))
        /\ AtMostOne(events', Accepts(s))
    BY <1>2, <1>5, <2>1 DEF ClosedInv
  <2>3. evt' \in Closes(s) <=> k = "closed"
    BY <1>4, <2>1
  <2> QED
    BY <1>1, <1>5, <1>9, <1>11, <1>12, <2>2, <2>3 DEF ClosedInv
<1>16. Shape(sock[s])' /\ OpInv(s)' /\ UserInv(s)'
  <2>1. CASE k # "connected" /\ ~(k = "error" /\ o.user = "waiting")
    <3>1. e \notin Connects(s)
      BY <2>1 DEF Connects
    <3>2. SameUse(s)
      BY <1>3, <1>4, <1>6, <1>10, <1>11, <2>1, <3>1
    <3> QED
      BY <1>1, <3>2, SameUseKeepsSocket
  <2>2. CASE k = "connected"
    <3>1. u = "open"
      BY <1>6, <2>2
    <3>2. UserInv(s)'
      BY <1>5, <1>9, <1>11, <1>12, <3>1 DEF UserInv
    <3>3. OpInv(s)'
      BY <1>1, <1>4, <1>5, <1>9, <1>11, <1>12, <3>1 DEF OpInv
    <3> QED
      BY <1>9, <1>11, <3>2, <3>3
  <2>3. CASE k = "error" /\ o.user = "waiting"
    <3>1. u = "failed" /\ s \in Created
      BY <1>5, <1>6, <1>12, <2>3 DEF UserInv
    <3>2. OpInv(s)'
      <4>1. ~HasOp(ops, "bind", s) /\ ~HasOp(ops, "listen", s)
        BY <1>5, <2>3 DEF OpInv
      <4> QED
        BY <1>1, <1>4, <1>5, <1>9, <1>11, <1>12, <4>1 DEF OpInv
    <3>3. UserInv(s)'
      <4>1. ASSUME ~o.hclosed
            PROVE  /\ CanConnect(o) /\ OpsAre(ops, {}, s)
                   /\ ~Has(events', Errors(s)) /\ ~Has(events', Connects(s))
        <5>1. e \in Errors(s)
          BY <1>4, <2>3 DEF Errors
        <5> QED
          BY <1>2, <1>5, <2>3, <4>1, <5>1, ErrorIsTheAnswer
      <4> QED
        BY <1>4, <1>9, <1>11, <1>12, <3>1, <4>1 DEF UserInv
    <3> QED
      BY <1>9, <1>11, <3>2, <3>3
  <2> QED
    BY <2>1, <2>2, <2>3
<1>17. ASSUME NEW x \in Sock, x # s PROVE SocketOK(x)'
  <2>1. e \notin Connects(x) /\ e \notin Closes(x)
    BY <1>17 DEF Connects, Closes
  <2>2. SameUse(x)
    BY <1>3, <1>4, <1>11, <1>17, <2>1
  <2>3. Same(x)
    BY <1>1, <1>4, <2>1, <2>2 DEF Same
  <2> QED
    BY <1>1, <2>3, SameKeepsSocket
<1> QED
  BY <1>13, <1>14, <1>15, <1>16, <1>17 DEF TcpInv, SocketOK

\* The client of an accept waits for its id: no op is about it.
LEMMA AcceptedClient ==
    ASSUME TcpInv, Dispatches({"accepted"})
    PROVE  \E c \in Sock :
              /\ Head(events).client = c /\ Head(events) \in Accepts(c)
              /\ ~Has(events', Accepts(c)) /\ AtMostOne(events', Accepts(c))
              /\ ~Has(events', About(c)) /\ ~Has(events', Closes(c))
              /\ AtMostOne(events', Closes(c))
              /\ ~sock[c].id /\ sock[c].obj = "live" /\ Nameless(sock[c]) /\ c \notin Created
              /\ OpsAre(ops, {}, c) /\ Ordered(ops, c) /\ ~sock[c].hclosed
<1>1. /\ Head(events).type = "accepted" /\ Head(events) \in Events
      /\ ControlInv /\ (\A x \in Sock : SocketOK(x))
      /\ \A E : Has(events, E) <=> Has(events', E) \/ Head(events) \in E
      /\ \A E : AtMostOne(events, E) =>
             AtMostOne(events', E) /\ ~(Has(events', E) /\ Head(events) \in E)
  BY DispatchFacts
<1>2. \A x : Head(events) \in Accepts(x) <=> Head(events).client = x
  BY <1>1 DEF Accepts
<1>3. Head(events).client # None
  BY <1>1, <1>2 DEF ControlInv
<1>4. PICK c \in Sock : Head(events).client = c
  BY <1>1, <1>3 DEF Events
<1>5. Head(events) \in Accepts(c) /\ Has(events, Accepts(c))
  BY <1>1, <1>2, <1>4
<1>6. Shape(sock[c]) /\ OpInv(c) /\ UserInv(c) /\ ClosedInv(c)
  BY <1>1 DEF SocketOK
<1>7. /\ ~sock[c].id /\ sock[c].obj = "live" /\ AtMostOne(events, Accepts(c))
      /\ AtMostOne(events, Closes(c)) /\ ~Has(events, About(c))
  BY <1>5, <1>6 DEF ClosedInv
<1>8. ~Has(events, Closes(c))
  BY <1>7 DEF Has, About, Closes
<1>9. Nameless(sock[c]) /\ c \notin Created /\ OpsAre(ops, {}, c) /\ Ordered(ops, c) /\ ~sock[c].hclosed
  BY <1>6, <1>7 DEF UserInv, OpInv, Shape
<1> QED
  BY <1>1, <1>4, <1>5, <1>7, <1>8, <1>9

LEMMA DispatchAcceptedKeepsInv ==
    ASSUME TcpInv, DispatchAccepted PROVE TcpInv'
<1>0. Dispatches({"accepted"})
  BY DEF DispatchAccepted
<1>1. /\ gpc = "idle" /\ evt = NoEvent /\ closing = None /\ todo = {}
      /\ UNCHANGED <<loaded, closing, todo, epc, esock>> /\ Head(events).type = "accepted"
      /\ TypeOK /\ ControlInv /\ (\A x \in Sock : SocketOK(x))
      /\ events' \in Seq(Events) /\ Head(events) \in Events
      /\ \A E : Has(events, E) <=> Has(events', E) \/ Head(events) \in E
  BY <1>0, DispatchFacts
<1>2. PICK c \in Sock :
         /\ Head(events).client = c /\ Head(events) \in Accepts(c)
         /\ ~Has(events', Accepts(c)) /\ AtMostOne(events', Accepts(c))
         /\ ~Has(events', About(c)) /\ ~Has(events', Closes(c))
         /\ AtMostOne(events', Closes(c))
         /\ ~sock[c].id /\ sock[c].obj = "live" /\ Nameless(sock[c]) /\ c \notin Created
         /\ OpsAre(ops, {}, c) /\ Ordered(ops, c) /\ ~sock[c].hclosed
  BY <1>0, AcceptedClient
<1> DEFINE o == sock[c]
           a == [o EXCEPT !.id = TRUE]
           r == [a EXCEPT !.user = "open"]
           op == [type |-> "accept", s |-> c, cb |-> o.cb]
<1>3. /\ o \in Sockets /\ Shape(o) /\ sock \in [Sock -> Sockets] /\ ops \in Seq(Ops)
      /\ flags \subseteq {"stop", "tcp", "stopping"}
  BY <1>1, BeforeFacts DEF TypeOK
<1>4. /\ sock' = [sock EXCEPT ![c] = r] /\ ops' = Append(ops, op) /\ flags' = flags \cup {"tcp"}
      /\ gpc' = "callback" /\ evt' = Head(events)
  BY <1>2, <1>3 DEF DispatchAccepted, EnqueueTcpOp
<1>5. op \in Ops /\ op.type = "accept" /\ op.s = c
  BY <1>3 DEF Ops, OpTypes, Sockets
<1>6. /\ a \in Sockets /\ a.id /\ a.obj = o.obj /\ a.hclosed = o.hclosed /\ a.st = o.st
      /\ a.uv = o.uv /\ a.reading = o.reading /\ a.closing = o.closing /\ a.creq = o.creq
      /\ a.wreq = o.wreq /\ a.res = o.res /\ a.reg = o.reg
  BY <1>3 DEF Sockets
<1>7. Shape(a)
  BY <1>2, <1>3, <1>6 DEF Shape
<1> HIDE DEF a, op
<1>8. /\ r \in Sockets /\ r.user = "open" /\ Shape(r) /\ r.id
      /\ r.obj = o.obj /\ r.hclosed = o.hclosed /\ r.st = o.st /\ r.reg = o.reg
  BY <1>6, <1>7, UserSet DEF Users
<1> HIDE DEF r
<1>9. sock' \in [Sock -> Sockets] /\ sock'[c] = r /\ \A x \in Sock \ {c} : sock'[x] = sock[x]
  BY <1>3, <1>4, <1>8
<1>10. /\ ops' \in Seq(Ops) /\ \A t : HasOp(ops', t, c) <=> HasOp(ops, t, c) \/ t = "accept"
       /\ Ordered(ops', c)
       /\ \A x \in Sock \ {c} : /\ \A t : HasOp(ops', t, x) <=> HasOp(ops, t, x)
                                /\ Ordered(ops, x) => Ordered(ops', x)
  <2>1. \A t \in OpTypes : ~HasOp(ops, t, c)
    BY <1>2 DEF OpsAre
  <2> QED
    BY <1>2, <1>3, <1>4, <1>5, <2>1, OpsAppend
<1>11. o.st = "CONNECTED" /\ ~o.reg
  BY <1>2 DEF Nameless
<1>12. TypeOK'
  BY <1>1, <1>3, <1>4, <1>9, <1>10 DEF TypeOK
<1>13. ControlInv'
  <2>1. Head(events) # NoEvent
    BY <1>1 DEF NoEvent
  <2>2. ~Has(events', Accepts(None))
    BY <1>1 DEF ControlInv
  <2>3. epc' = "erase" => esock' \in Sock /\ sock'[esock'].st = "CLOSED"
    BY <1>1, <1>8, <1>9 DEF ControlInv
  <2> QED
    BY <1>1, <1>4, <2>1, <2>2, <2>3 DEF ControlInv
<1>14. SocketOK(c)'
  <2>1. OpInv(c)'
    <3>1. \A t \in OpTypes \ {"accept"} : ~HasOp(ops', t, c)
      BY <1>2, <1>10 DEF OpsAre
    <3> QED
      BY <1>1, <1>8, <1>9, <1>10, <1>11, <3>1, TcpAssumption DEF OpInv, OpTypes, TcpAssumption
  <2>2. UserInv(c)'
    BY <1>2, <1>8, <1>9 DEF UserInv
  <2>3. ClosedInv(c)'
    <3>1. evt' \notin Closes(c)
      BY <1>1, <1>4 DEF Closes
    <3> QED
      BY <1>2, <1>8, <1>9, <1>11, <3>1 DEF ClosedInv
  <2> QED
    BY <1>8, <1>9, <2>1, <2>2, <2>3 DEF SocketOK
<1>15. ASSUME NEW x \in Sock, x # c PROVE SocketOK(x)'
  <2>1. Head(events) \notin Connects(x) /\ Head(events) \notin Closes(x)
    BY <1>1 DEF Connects, Closes
  <2>2. SameUse(x)
    BY <1>0, <1>9, <1>10, <1>15, <2>1, DispatchFacts
  <2>3. Same(x)
    BY <1>1, <1>4, <2>1, <2>2 DEF Same
  <2> QED
    BY <1>1, <2>3, SameKeepsSocket
<1> QED
  BY <1>12, <1>13, <1>14, <1>15 DEF TcpInv

\* An object let go of: only its memory changes.
LEMMA FreedFacts ==
    ASSUME NEW o \in Sockets, NEW r, r = [o EXCEPT !.obj = "freed"], Shape(o)
    PROVE  /\ r \in Sockets /\ r.obj = "freed" /\ Shape(r)
           /\ r.id = o.id /\ r.hclosed = o.hclosed /\ r.st = o.st /\ r.uv = o.uv
           /\ r.creq = o.creq /\ r.wreq = o.wreq /\ r.res = o.res /\ r.reg = o.reg
           /\ r.user = o.user
           /\ Fresh(r) <=> Fresh(o)
           /\ CanConnect(r) <=> CanConnect(o)
<1>1. /\ r \in Sockets /\ r.obj = "freed"
      /\ r.id = o.id /\ r.hclosed = o.hclosed /\ r.st = o.st /\ r.uv = o.uv
      /\ r.reading = o.reading /\ r.closing = o.closing /\ r.creq = o.creq
      /\ r.wreq = o.wreq /\ r.res = o.res /\ r.reg = o.reg /\ r.user = o.user
  BY DEF Sockets
<1>2. Shape(r)
  BY <1>1 DEF Shape
<1> QED
  BY <1>1, <1>2 DEF Fresh, CanConnect

LEMMA DispatchAcceptedFailsKeepsInv ==
    ASSUME TcpInv, DispatchAcceptedFails PROVE TcpInv'
<1>0. Dispatches({"accepted"})
  BY DEF DispatchAcceptedFails
<1>1. /\ gpc = "idle" /\ evt = NoEvent
      /\ UNCHANGED <<loaded, closing, todo, epc, esock>> /\ Head(events).type = "accepted"
      /\ TypeOK /\ ControlInv /\ (\A x \in Sock : SocketOK(x))
      /\ events' \in Seq(Events)
      /\ \A E : Has(events, E) <=> Has(events', E) \/ Head(events) \in E
  BY <1>0, DispatchFacts
<1>2. PICK c \in Sock :
         /\ Head(events).client = c
         /\ ~Has(events', Accepts(c)) /\ AtMostOne(events', Accepts(c))
         /\ ~Has(events', About(c)) /\ ~Has(events', Closes(c))
         /\ AtMostOne(events', Closes(c))
         /\ ~sock[c].id /\ sock[c].obj = "live" /\ Nameless(sock[c]) /\ c \notin Created
  BY <1>0, AcceptedClient
<1> DEFINE o == sock[c]
           r == [o EXCEPT !.obj = "freed"]
<1>3. o \in Sockets /\ Shape(o) /\ OpInv(c) /\ ClosedInv(c) /\ sock \in [Sock -> Sockets]
  BY <1>1, BeforeFacts
<1>4. sock' = [sock EXCEPT ![c] = r] /\ UNCHANGED <<ops, flags, gpc, evt>>
  BY <1>2 DEF DispatchAcceptedFails
<1>5. /\ r \in Sockets /\ r.obj = "freed" /\ Shape(r)
      /\ r.id = o.id /\ r.hclosed = o.hclosed /\ r.st = o.st /\ r.uv = o.uv
      /\ r.creq = o.creq /\ r.wreq = o.wreq /\ r.res = o.res /\ r.reg = o.reg
      /\ r.user = o.user
      /\ Fresh(r) <=> Fresh(o)
      /\ CanConnect(r) <=> CanConnect(o)
  BY <1>3, FreedFacts
<1> HIDE DEF r
<1>6. sock' \in [Sock -> Sockets] /\ sock'[c] = r /\ \A x \in Sock \ {c} : sock'[x] = sock[x]
  BY <1>3, <1>4, <1>5
<1>7. TypeOK'
  BY <1>1, <1>4, <1>6 DEF TypeOK
<1>8. ControlInv'
  <2>1. ~Has(events', Accepts(None))
    BY <1>1 DEF ControlInv
  <2>2. epc' = "erase" => esock' \in Sock /\ sock'[esock'].st = "CLOSED"
    BY <1>1, <1>5, <1>6 DEF ControlInv
  <2> QED
    BY <1>1, <1>4, <2>1, <2>2 DEF ControlInv
<1>9. SocketOK(c)'
  <2>1. OpInv(c)'
    BY <1>1, <1>3, <1>4, <1>5, <1>6 DEF OpInv
  <2>2. UserInv(c)'
    <3>1. Nameless(r)
      BY <1>2, <1>5 DEF Nameless
    <3> QED
      BY <1>2, <1>5, <1>6, <3>1 DEF UserInv, Nameless
  <2>3. ClosedInv(c)'
    BY <1>1, <1>2, <1>3, <1>4, <1>5, <1>6 DEF ClosedInv
  <2> QED
    BY <1>5, <1>6, <2>1, <2>2, <2>3 DEF SocketOK
<1>10. ASSUME NEW x \in Sock, x # c PROVE SocketOK(x)'
  <2>1. Head(events) \notin Connects(x)
    BY <1>1 DEF Connects
  <2>2. SameUse(x)
    BY <1>0, <1>4, <1>6, <1>10, <2>1, DispatchFacts
  <2>3. Same(x)
    BY <1>1, <1>4, <2>2 DEF Same
  <2> QED
    BY <1>1, <2>3, SameKeepsSocket
<1> QED
  BY <1>7, <1>8, <1>9, <1>10 DEF TcpInv

LEMMA DispatchReturnKeepsInv ==
    ASSUME TcpInv, DispatchReturn PROVE TcpInv'
<1>1. /\ gpc = "callback" /\ closing = None /\ gpc' = "idle" /\ evt' = NoEvent
      /\ UNCHANGED <<ops, events, flags, loaded, closing, todo, loopVars>>
      /\ sock' = IF evt.type = "closed" THEN [sock EXCEPT ![evt.s].obj = "freed"] ELSE sock
  BY DEF DispatchReturn
<1>2. /\ TypeOK /\ ControlInv /\ (\A x \in Sock : SocketOK(x)) /\ sock \in [Sock -> Sockets]
      /\ evt \in Events
  BY <1>1 DEF TcpInv, TypeOK, ControlInv
<1>3. \A x : evt' \notin Closes(x)
  BY <1>1 DEF Closes, NoEvent
<1>4. \A x \in Sock : x \in todo' => sock[x].id
  BY <1>1, <1>2 DEF SocketOK, OpInv
<1>5. ASSUME NEW x \in Sock, sock'[x] = sock[x] PROVE SocketOK(x)'
  <2>1. SameUse(x)
    BY <1>1, <1>4, <1>5 DEF SameUse
  <2>2. Same(x)
    BY <1>1, <1>3, <2>1 DEF Same, loopVars
  <2> QED
    BY <1>2, <2>2, SameKeepsSocket
<1>6. CASE evt.type # "closed"
  <2>1. sock' = sock
    BY <1>1, <1>6
  <2>2. TypeOK'
    BY <1>1, <1>2, <2>1 DEF TypeOK, loopVars
  <2>3. ControlInv'
    BY <1>1, <1>2, <2>1 DEF ControlInv, loopVars
  <2> QED
    BY <1>5, <2>1, <2>2, <2>3 DEF TcpInv
<1>7. CASE evt.type = "closed"
  <2> PICK s \in Sock : evt.s = s
    BY <1>2 DEF Events
  <2> DEFINE o == sock[s]
             r == [o EXCEPT !.obj = "freed"]
  <2>1. sock' = [sock EXCEPT ![s] = r] /\ evt \in Closes(s)
    BY <1>1, <1>2, <1>7 DEF Closes
  <2>2. o \in Sockets /\ Shape(o) /\ OpInv(s) /\ UserInv(s) /\ ClosedInv(s)
    BY <1>1, BeforeFacts
  <2>3. /\ r \in Sockets /\ r.obj = "freed" /\ Shape(r)
        /\ r.id = o.id /\ r.hclosed = o.hclosed /\ r.st = o.st /\ r.uv = o.uv
        /\ r.creq = o.creq /\ r.wreq = o.wreq /\ r.res = o.res /\ r.reg = o.reg
        /\ r.user = o.user
        /\ Fresh(r) <=> Fresh(o)
        /\ CanConnect(r) <=> CanConnect(o)
    BY <2>2, FreedFacts
  <2> HIDE DEF r
  <2>4. sock' \in [Sock -> Sockets] /\ sock'[s] = r /\ \A x \in Sock \ {s} : sock'[x] = sock[x]
    BY <1>2, <2>1, <2>3
  <2>5. o.id /\ ~Has(events, Closes(s)) /\ o.st = "CLOSED"
    BY <2>1, <2>2 DEF ClosedInv
  <2>6. TypeOK'
    BY <1>1, <1>2, <2>4 DEF TypeOK, loopVars
  <2>7. ControlInv'
    <3>1. epc' = "erase" => esock' \in Sock /\ sock'[esock'].st = "CLOSED"
      BY <1>1, <1>2, <2>3, <2>4 DEF ControlInv, loopVars
    <3> QED
      BY <1>1, <1>2, <3>1 DEF ControlInv
  <2>8. OpInv(s)'
    BY <1>1, <2>2, <2>3, <2>4 DEF OpInv
  <2>9. UserInv(s)'
    <3>1. Pending(s)' <=> Pending(s)
      BY <1>1, <2>3, <2>4 DEF Pending
    <3> QED
      BY <1>1, <2>2, <2>3, <2>4, <2>5, <3>1 DEF UserInv
  <2>10. ClosedInv(s)'
    BY <1>1, <1>3, <2>2, <2>3, <2>4, <2>5 DEF ClosedInv, loopVars
  <2>11. SocketOK(s)'
    BY <2>3, <2>4, <2>8, <2>9, <2>10 DEF SocketOK
  <2> QED
    BY <1>5, <2>4, <2>6, <2>7, <2>11 DEF TcpInv
<1> QED
  BY <1>6, <1>7

LEMMA StopJoinedKeepsInv ==
    ASSUME TcpInv, StopJoined PROVE TcpInv'
<1> DEFINE r(s) == [sock[s] EXCEPT !.uv = IF sock[s].reg THEN "none" ELSE @,
                                   !.res = {},
                                   !.obj = IF sock[s].id /\ @ = "live" THEN "freed" ELSE @]
<1>1. /\ gpc = "joining" /\ epc = "exited" /\ gpc' = "unloaded" /\ ops' = <<>> /\ events' = <<>>
      /\ sock' = [s \in Sock |-> r(s)]
      /\ UNCHANGED <<flags, loaded, evt, closing, todo, loopVars>>
  BY DEF StopJoined
<1>2. TypeOK /\ ControlInv
  BY DEF TcpInv
<1>3. ASSUME NEW s \in Sock PROVE r(s) \in Sockets
  <2> DEFINE o == sock[s]
             v == IF o.reg THEN "none" ELSE o.uv
             a == [o EXCEPT !.uv = v]
             b == [a EXCEPT !.res = {}]
             w == IF o.id /\ o.obj = "live" THEN "freed" ELSE o.obj
             d == [b EXCEPT !.obj = w]
  <2>1. o \in Sockets /\ r(s) = d
    BY <1>2 DEF TypeOK
  <2>2. a \in Sockets
    BY <2>1 DEF Sockets
  <2> HIDE DEF a
  <2>3. b \in Sockets
    BY <2>2 DEF Sockets
  <2> HIDE DEF b
  <2>4. w \in {"none", "live", "freed"}
    BY <2>1 DEF Sockets
  <2> HIDE DEF w
  <2>5. d \in Sockets
    BY <2>3, <2>4 DEF Sockets
  <2> QED
    BY <2>1, <2>5
<1> HIDE DEF r
<1>4. TypeOK'
  BY <1>1, <1>2, <1>3 DEF TypeOK, loopVars
<1>5. ControlInv'
  BY <1>1, <1>2 DEF ControlInv, loopVars, Has
<1> QED
  BY <1>1, <1>4, <1>5 DEF TcpInv

-----------------------------------------------------------------------------
(* The invariant, and what follows from it                                 *)

LEMMA TcpInit == Init => TcpInv
<1> SUFFICES ASSUME Init PROVE TcpInv
  OBVIOUS
<1>1. Unused \in Sockets
  BY DEF Unused, Sockets, States
<1>2. /\ sock \in [Sock -> Sockets] /\ \A s \in Sock : sock[s] = Unused
      /\ ops = <<>> /\ events = <<>> /\ flags = {} /\ loaded = TRUE /\ gpc = "idle"
      /\ evt = NoEvent /\ closing = None /\ todo = {} /\ epc = "poll" /\ esock = None
  BY <1>1 DEF Init
<1>3. TypeOK
  BY <1>2 DEF TypeOK
<1>4. (\A E : ~Has(events, E) /\ AtMostOne(events, E)) /\ \A x : evt \notin Closes(x)
  BY <1>2 DEF Has, AtMostOne, Closes, NoEvent
<1>5. ControlInv
  BY <1>2, <1>4 DEF ControlInv
<1>6. ASSUME NEW s \in Sock PROVE SocketOK(s)
  <2>1. /\ Unused.obj = "none" /\ ~Unused.id /\ ~Unused.hclosed /\ Unused.st = "CREATED"
        /\ Unused.uv = "none" /\ ~Unused.reading /\ ~Unused.closing /\ ~Unused.creq
        /\ ~Unused.wreq /\ Unused.res = {} /\ ~Unused.reg /\ Unused.user = "new"
    BY DEF Unused
  <2>2. (\A t : ~HasOp(ops, t, s)) /\ Ordered(ops, s) /\ closing # s
    BY <1>2, TcpAssumption DEF HasOp, Ordered, TcpAssumption
  <2>3. \A T : OpsAre(ops, T, s)
    BY <2>2 DEF OpsAre
  <2>4. Shape(sock[s])
    BY <1>2, <2>1 DEF Shape
  <2>5. OpInv(s)
    BY <1>2, <2>2, <2>3 DEF OpInv
  <2>6. UserInv(s)
    BY <1>2, <1>4, <2>1, <2>3 DEF UserInv, Fresh, Nameless
  <2>7. ClosedInv(s)
    BY <1>2, <1>4, <2>1 DEF ClosedInv
  <2> QED
    BY <2>4, <2>5, <2>6, <2>7 DEF SocketOK
<1> QED
  BY <1>3, <1>5, <1>6 DEF TcpInv

LEMMA TcpStutter == ASSUME TcpInv, UNCHANGED vars PROVE TcpInv'
<1>1. /\ UNCHANGED <<sock, ops, events, flags, loaded, gpc, evt, closing, todo, epc, esock>>
  BY DEF vars, gameVars, loopVars
<1>2. TypeOK' /\ ControlInv'
  BY <1>1 DEF TcpInv, TypeOK, ControlInv
<1>3. CASE gpc = "unloaded"
  BY <1>1, <1>2, <1>3 DEF TcpInv
<1>4. CASE gpc # "unloaded"
  <2>1. \A x \in todo' : sock[x].id
    BY <1>1, <1>4 DEF TcpInv, SocketOK, OpInv, TypeOK
  <2> QED
    BY <1>1, <1>2, <1>4, <2>1, QuietKeepsInv
<1> QED
  BY <1>3, <1>4

LEMMA ProcessOpKeepsInv == ASSUME TcpInv, NEW s \in Sock, ProcessOp(s) PROVE TcpInv'
<1>1. epc = "draining"
  BY DEF ProcessOp, ProcessTcpConnect, ProcessTcpBind, ProcessTcpListen, ProcessTcpAcceptConfig,
         ProcessTcpSend, ProcessTcpSetOption, ProcessTcpClose, Opens, TakeOp
<1>2. gpc # "unloaded"
  BY <1>1 DEF TcpInv, ControlInv
<1>3. CASE ProcessTcpSetOption(s)
  BY <1>2, <1>3, OpDropped DEF ProcessTcpSetOption
<1>4. CASE ~ProcessTcpSetOption(s)
  BY <1>2, <1>4, ProcessTcpConnectKeepsInv, ProcessTcpBindKeepsInv, ProcessTcpListenKeepsInv,
     ProcessTcpAcceptConfigKeepsInv, ProcessTcpSendKeepsInv, ProcessTcpCloseKeepsInv
     DEF ProcessOp
<1> QED
  BY <1>3, <1>4

LEMMA PeerKeepsInv == ASSUME TcpInv, NEW s \in Sock, Peer(s) \/ CloseCallbacks(s) PROVE TcpInv'
  BY ReadKeepsInv, OnResolvedKeepsInv, OnTcpNewConnectionKeepsInv, OnTcpConnectedKeepsInv,
     OnTcpWriteDoneKeepsInv, OnTcpClosedPushesKeepsInv
     DEF Peer, CloseCallbacks

LEMMA GameNativeKeepsInv == ASSUME TcpInv, NEW s \in Sock, GameNative(s) PROVE TcpInv'
  BY NativesKeepInv, TcpNewKeepsInv, SetCallbacksKeepsInv, HandleClosedKeepsInv DEF GameNative

LEMMA TcpStep == ASSUME TcpInv, [Next]_vars PROVE TcpInv'
<1>1. CASE \E s \in Sock : GameNative(s) \/ Peer(s) \/ CloseCallbacks(s)
  BY <1>1, GameNativeKeepsInv, PeerKeepsInv
<1>2. CASE GameStep
  BY <1>2, EnqueueCloseKeepsInv, StopJoinedKeepsInv, HandleClosedKeepsInv DEF GameStep
<1>3. CASE Dispatch \/ DispatchReturn
  BY <1>3, DispatchSkipKeepsInv, DispatchSocketEventKeepsInv, DispatchAcceptedKeepsInv,
     DispatchAcceptedFailsKeepsInv, DispatchReturnKeepsInv DEF Dispatch
<1>4. CASE OnPluginUnloaded \/ SDK_OnUnload \/ EventWalk \/ EventExit
  BY <1>4, WalkKeepsInv, ProcessOpKeepsInv DEF EventWalk
<1>5. CASE OnTcpClosedErases
  BY <1>5, OnTcpClosedErasesKeepsInv
<1>6. CASE Ended \/ UNCHANGED vars
  BY <1>6, TcpStutter DEF Ended
<1> QED
  BY <1>1, <1>2, <1>3, <1>4, <1>5, <1>6 DEF Next

\* What the two threads take for granted of one another's fields of a TcpSocket holds
\* from its creation to its deletion, whatever the natives, the ops, the resolver,
\* libuv and the peer do and in whatever order.
THEOREM TcpInvariant == Spec => []TcpInv
<1>1. TcpInv /\ [Next]_vars => TcpInv'
  BY TcpStep
<1> QED
  BY <1>1, TcpInit, PTL DEF Spec

\* A connect or write request that is with libuv, and a handle being closed, always find
\* sock->uv_handle; uv_close is called once, on entering CLOSING, after which nothing is
\* read; and what is read has its handle id and its entry in tcp_sockets_
\* (OnTcpConnected, OnTcpWriteDone, ProcessTcpClose, OnTcpRead, ProcessTcpAcceptConfig).
THEOREM HandlesInPlace == Spec => []SocketInv
<1>1. TcpInv => SocketInv
  <2> SUFFICES ASSUME TcpInv PROVE SocketInv
    OBVIOUS
  <2>1. TypeOK
    BY DEF TcpInv
  <2>2. ASSUME NEW s \in Sock, gpc # "unloaded"
        PROVE  /\ (sock[s].creq \/ sock[s].wreq \/ sock[s].closing) => sock[s].uv # "none"
               /\ sock[s].closing <=> sock[s].st = "CLOSING"
               /\ sock[s].closing => ~sock[s].reading
               /\ sock[s].reading => sock[s].id /\ sock[s].reg
    <3>1. Shape(sock[s])
      BY <2>2 DEF TcpInv, SocketOK
    <3> QED
      BY <3>1 DEF Shape
  <2> QED
    BY <2>1, <2>2 DEF SocketInv, RequestsHaveHandle, ReadsOnlyRegistered
<1> QED
  BY <1>1, TcpInvariant, PTL

\* The closes on their way to the game thread are counted by the inductive
\* invariant's two places.
LEMMA ClosedEventsFacts ==
    ASSUME TcpInv, gpc # "unloaded", NEW s \in Sock
    PROVE  /\ ClosedEvents(s) \in {0, 1}
           /\ ClosedEvents(s) = 1 <=> evt \in Closes(s) \/ Has(events, Closes(s))
<1> DEFINE I == {i \in DOMAIN events : events[i].type = "closed" /\ events[i].s = s}
<1>1. ClosedInv(s) /\ events \in Seq(Events) /\ (evt = NoEvent \/ evt \in Events)
  BY DEF TcpInv, SocketOK, TypeOK
<1>2. I = {i \in DOMAIN events : events[i] \in Closes(s)}
  BY <1>1 DEF Closes
<1>3. evt.type = "closed" /\ evt.s = s <=> evt \in Closes(s)
  BY <1>1 DEF Closes, NoEvent
<1>4. CASE Has(events, Closes(s))
  <2>1. PICK i \in I : TRUE
    BY <1>2, <1>4 DEF Has
  <2>2. I = {i}
    BY <1>1, <1>2, <2>1 DEF ClosedInv, AtMostOne
  <2>3. Cardinality(I) = 1
    BY <2>2, FS_Singleton
  <2>4. evt \notin Closes(s)
    BY <1>1, <1>4 DEF ClosedInv
  <2> QED
    BY <1>3, <1>4, <2>3, <2>4 DEF ClosedEvents
<1>5. CASE ~Has(events, Closes(s))
  <2>1. I = {}
    BY <1>2, <1>5 DEF Has
  <2>2. Cardinality(I) = 0
    BY <2>1, FS_EmptySet
  <2> QED
    BY <1>3, <1>5, <2>2 DEF ClosedEvents
<1> QED
  BY <1>4, <1>5

\* From the time TCP_CLOSED is on its way to the game thread, which deletes the object,
\* no libuv handle, request or registering op leads to it, and tcp_sockets_ does so only
\* between the push and the erase of OnTcpClosed (ProcessTcpClose, OnTcpClosed,
\* DispatchSocketEvent).
THEOREM SocketLetGo == Spec => []LetGo
<1>1. TcpInv => LetGo
  <2> SUFFICES ASSUME TcpInv, NEW s \in Sock, gpc # "unloaded",
                      ClosedEvents(s) > 0 \/ sock[s].obj = "freed"
               PROVE  ~Held(s) /\ (sock[s].reg => epc = "erase" /\ esock = s)
    BY DEF LetGo
  <2>1. Shape(sock[s]) /\ OpInv(s) /\ UserInv(s) /\ ClosedInv(s)
    BY DEF TcpInv, SocketOK
  <2>2. ClosedEvents(s) > 0 => evt \in Closes(s) \/ Has(events, Closes(s))
    BY ClosedEventsFacts
  <2>3. CASE sock[s].st = "CLOSED"
    <3>1. \A t \in {"connect", "bind", "listen", "accept"} : ~HasOp(ops, t, s)
      BY <2>1, <2>3 DEF OpInv, Fresh, CanConnect
    <3>2. ~\E i \in DOMAIN ops : ops[i].s = s /\ ops[i].type \in {"connect", "bind", "listen", "accept"}
      BY <3>1 DEF HasOp
    <3>3. /\ ~sock[s].closing /\ ~sock[s].creq /\ ~sock[s].wreq /\ ~sock[s].reading
          /\ sock[s].uv # "listening"
      BY <2>1, <2>3 DEF Shape
    <3> QED
      BY <2>1, <2>3, <3>2, <3>3 DEF Held, ClosedInv
  <2>4. CASE sock[s].st # "CLOSED"
    <3>1. sock[s].obj = "freed" /\ ~sock[s].id
      BY <2>1, <2>2, <2>4 DEF ClosedInv
    <3>2. sock[s].st = "CONNECTED" /\ ~sock[s].reg /\ ~sock[s].wreq /\ OpsAre(ops, {}, s)
      BY <2>1, <3>1 DEF UserInv, Nameless, OpInv
    <3>3. ~\E i \in DOMAIN ops : ops[i].s = s /\ ops[i].type \in {"connect", "bind", "listen", "accept"}
      BY <3>2 DEF OpsAre, HasOp, OpTypes
    <3>4. ~sock[s].closing /\ ~sock[s].creq /\ ~sock[s].reading /\ sock[s].uv # "listening"
      BY <2>1, <3>1, <3>2 DEF Shape
    <3> QED
      BY <3>2, <3>3, <3>4 DEF Held
  <2> QED
    BY <2>3, <2>4
<1> QED
  BY <1>1, TcpInvariant, PTL

\* Whichever of EOF, Close, the unloading of the plugin and a failed attempt comes
\* first, TCP_CLOSED is sent and dispatched at most once for an object
\* (ProcessTcpClose, TcpRead's EOF, OnTcpClosed).
THEOREM TcpClosedSentOnce == Spec => []ClosedOnce
<1>1. TcpInv => ClosedOnce
  <2> SUFFICES ASSUME TcpInv, NEW s \in Sock
               PROVE  ClosedEvents(s) + (IF sock[s].obj = "freed" THEN 1 ELSE 0) <= 1
    BY DEF ClosedOnce
  <2>1. CASE gpc = "unloaded"
    <3> DEFINE I == {i \in DOMAIN events : events[i].type = "closed" /\ events[i].s = s}
    <3>1. events = <<>> /\ evt = NoEvent
      BY <2>1 DEF TcpInv, ControlInv
    <3>2. I = {}
      BY <3>1
    <3>3. Cardinality(I) = 0
      BY <3>2, FS_EmptySet
    <3> QED
      BY <3>1, <3>3 DEF ClosedEvents, NoEvent
  <2>2. CASE gpc # "unloaded"
    <3>1. ClosedInv(s)
      BY <2>2 DEF TcpInv, SocketOK
    <3>2. sock[s].obj = "freed" => ClosedEvents(s) = 0
      BY <2>2, <3>1, ClosedEventsFacts DEF ClosedInv
    <3> QED
      BY <2>2, <3>2, ClosedEventsFacts
  <2> QED
    BY <2>1, <2>2
<1> QED
  BY <1>1, TcpInvariant, PTL
=============================================================================
