------------------------------ MODULE WsProofs ------------------------------
(***************************************************************************)
(* Proofs about WsConnection, for every set of reconnect limits and every  *)
(* bound, for plugins that do not call Connect again from onClose.         *)
(***************************************************************************)
EXTENDS WsConnection, FiniteSetTheorems, SequenceTheorems, TLAPS

AtMostOne(q, x) == \A i, j \in DOMAIN q : q[i] = x /\ q[j] = x => i = j

Followed(q) ==
    \A i \in DOMAIN q : q[i] = "connect" => \E j \in DOMAIN q : i < j /\ q[j] = "close"

\* Where the two threads are
ControlInv ==
    /\ gpc = "callback" <=> evt # "none"
    /\ epc = "recv" => conn.poll
    /\ gpc = "unloaded" =>
           /\ epc = "exited" /\ ops = <<>> /\ events = <<>>
           /\ ~conn.reg /\ ~conn.poll /\ ~conn.recTimer /\ conn.easy \in {"none", "lost"}

\* A socket is connected once, and until then its connection is as WsNew left it.
\* Close comes after Connect, so a CONNECT op that finds its socket closed has
\* the CLOSE op that will find the connection behind it.
ConnectInv ==
    /\ AtMostOne(ops, "connect")
    /\ ~asked => ~Contains(ops, "connect")
    /\ ~asked \/ Contains(ops, "connect") =>
           ~conn.reg /\ conn.st = "CREATED" /\ ~conn.closePushed
    /\ hclosed => Followed(ops)

\* What is armed is registered, and what is registered has not been reported closed.
AttachedInv ==
    /\ OneSource
    /\ conn.closeTimer \/ conn.pingTimer => conn.reg
    /\ conn.reg => ~conn.closePushed
    /\ gpc # "unloaded" => conn.easy # "lost"
    /\ conn.buf # "old"

\* WS_CLOSED has left the event thread only if closePushed says so, and it is in
\* one place: the queue, the dispatcher, or, dispatched, the freed object.
ClosedInv ==
    /\ AtMostOne(events, "closed")
    /\ evt = "closed" => ~Contains(events, "closed")
    /\ obj = "freed" => evt # "closed" /\ ~Contains(events, "closed")
    /\ gpc # "unloaded" /\ (obj = "freed" \/ evt = "closed" \/ Contains(events, "closed")) =>
           conn.closePushed

WsInv ==
    /\ TypeOK
    /\ ControlInv
    /\ ConnectInv
    /\ AttachedInv
    /\ ClosedInv
    /\ NoMixedMessage

-----------------------------------------------------------------------------
(* Queues                                                                  *)

LEMMA AppendFacts ==
    ASSUME NEW T, NEW q \in Seq(T), NEW x \in T, NEW y
    PROVE  /\ Append(q, x) \in Seq(T)
           /\ Contains(Append(q, x), y) <=> Contains(q, y) \/ x = y
           /\ AtMostOne(q, y) /\ (x # y \/ ~Contains(q, y)) => AtMostOne(Append(q, x), y)
<1>1. /\ Append(q, x) \in Seq(T)
      /\ DOMAIN Append(q, x) = DOMAIN q \cup {Len(q) + 1}
      /\ Len(q) + 1 \notin DOMAIN q
      /\ \A i \in DOMAIN q : Append(q, x)[i] = q[i]
      /\ Append(q, x)[Len(q) + 1] = x
  OBVIOUS
<1> QED
  BY <1>1, Zenon DEF Contains, AtMostOne

LEMMA TailFacts ==
    ASSUME NEW T, NEW q \in Seq(T), q # <<>>, NEW y
    PROVE  /\ Tail(q) \in Seq(T) /\ Head(q) \in T
           /\ Contains(q, y) <=> Head(q) = y \/ Contains(Tail(q), y)
           /\ AtMostOne(q, y) =>
                  AtMostOne(Tail(q), y) /\ ~(Head(q) = y /\ Contains(Tail(q), y))
<1>1. /\ Tail(q) \in Seq(T) /\ Head(q) \in T
      /\ Head(q) = q[1] /\ 1 \in DOMAIN q
      /\ \A i \in DOMAIN Tail(q) : i + 1 \in DOMAIN q /\ Tail(q)[i] = q[i + 1] /\ i \in Nat \ {0}
      /\ \A i \in DOMAIN q : i # 1 => i - 1 \in DOMAIN Tail(q) /\ Tail(q)[i - 1] = q[i]
  OBVIOUS
<1>2. Contains(q, y) <=> Head(q) = y \/ Contains(Tail(q), y)
  BY <1>1 DEF Contains
<1>3. AtMostOne(q, y) => AtMostOne(Tail(q), y) /\ ~(Head(q) = y /\ Contains(Tail(q), y))
  <2> SUFFICES ASSUME AtMostOne(q, y)
               PROVE  AtMostOne(Tail(q), y) /\ ~(Head(q) = y /\ Contains(Tail(q), y))
    OBVIOUS
  <2>1. ASSUME NEW i \in DOMAIN Tail(q), NEW j \in DOMAIN Tail(q),
               Tail(q)[i] = y, Tail(q)[j] = y
        PROVE  i = j
    <3>1. i + 1 = j + 1
      BY <1>1, <2>1 DEF AtMostOne
    <3> QED
      BY <1>1, <3>1
  <2>2. ASSUME NEW i \in DOMAIN Tail(q), Tail(q)[i] = y, Head(q) = y PROVE FALSE
    <3>1. i + 1 = 1
      BY <1>1, <2>2 DEF AtMostOne
    <3> QED
      BY <1>1, <3>1
  <2> QED
    BY <2>1, <2>2 DEF AtMostOne, Contains
<1> QED
  BY <1>1, <1>2, <1>3

\* What the event thread reports: perhaps an error, perhaps a close
LEMMA ReportFacts ==
    ASSUME NEW q \in Seq(EventTypes), NEW es \in {<<>>, <<"error">>}, NEW p \in BOOLEAN
    PROVE  LET r == q \o es \o (IF p THEN <<>> ELSE <<"closed">>)
           IN  /\ q \o es \in Seq(EventTypes) /\ r \in Seq(EventTypes)
               /\ \A y : y # "error" => (Contains(q \o es, y) <=> Contains(q, y))
               /\ \A y : y # "error" => (AtMostOne(q, y) => AtMostOne(q \o es, y))
               /\ \A y : y # "error" =>
                      (Contains(r, y) <=> Contains(q, y) \/ (~p /\ y = "closed"))
               /\ AtMostOne(q, "closed") /\ (p \/ ~Contains(q, "closed")) =>
                      AtMostOne(r, "closed")
<1>4. "closed" \in EventTypes /\ "error" \in EventTypes
  BY DEF EventTypes
<1> DEFINE e == q \o es
<1>1. e = q \/ e = Append(q, "error")
  BY <1>4, ConcatEmptySeq, AppendIsConcat, Zenon
<1> HIDE DEF e
<1>2. /\ e \in Seq(EventTypes)
      /\ \A y : y # "error" => (Contains(e, y) <=> Contains(q, y))
      /\ \A y : y # "error" => (AtMostOne(q, y) => AtMostOne(e, y))
  <2>1. CASE e = q
    BY <2>1
  <2>2. CASE e = Append(q, "error")
    BY <2>2, <1>4, AppendFacts, Zenon
  <2> QED
    BY <1>1, <2>1, <2>2
<1>3. e \o (IF p THEN <<>> ELSE <<"closed">>) = IF p THEN e ELSE Append(e, "closed")
  BY <1>2, <1>4, ConcatEmptySeq, AppendIsConcat, Zenon
<1>5. CASE p
  BY <1>2, <1>3, <1>5 DEF e
<1>6. CASE ~p
  <2> DEFINE r == Append(e, "closed")
  <2>1. /\ r \in Seq(EventTypes)
        /\ \A y : Contains(r, y) <=> Contains(e, y) \/ y = "closed"
        /\ AtMostOne(e, "closed") /\ ~Contains(e, "closed") => AtMostOne(r, "closed")
    BY <1>2, <1>4, AppendFacts, Zenon
  <2> QED
    BY <1>2, <1>3, <1>6, <2>1, Zenon DEF e
<1> QED
  BY <1>5, <1>6

LEMMA FollowedFacts ==
    ASSUME NEW q \in Seq(OpTypes)
    PROVE  /\ \A x \in OpTypes : x # "connect" /\ Followed(q) => Followed(Append(q, x))
           /\ Followed(Append(q, "close"))
           /\ q # <<>> /\ Followed(q) => Followed(Tail(q))
           /\ q # <<>> /\ Followed(q) /\ Head(q) = "connect" => Contains(Tail(q), "close")
<1>1. ASSUME NEW x \in OpTypes, x # "connect", Followed(q) PROVE Followed(Append(q, x))
  <2>1. /\ DOMAIN Append(q, x) = DOMAIN q \cup {Len(q) + 1}
        /\ \A i \in DOMAIN q : Append(q, x)[i] = q[i]
        /\ Append(q, x)[Len(q) + 1] = x
    OBVIOUS
  <2> QED
    BY <1>1, <2>1, Zenon DEF Followed
<1>2. Followed(Append(q, "close"))
  <2> DEFINE r == Append(q, "close")
  <2>1. /\ DOMAIN r = 1 .. Len(q) + 1 /\ Len(q) \in Nat
        /\ r[Len(q) + 1] = "close"
    OBVIOUS
  <2> HIDE DEF r
  <2>2. ASSUME NEW i \in DOMAIN r, r[i] = "connect" PROVE i < Len(q) + 1
    BY <2>1, <2>2
  <2>3. Len(q) + 1 \in DOMAIN r
    BY <2>1
  <2>4. Followed(r)
    BY <2>1, <2>2, <2>3, Zenon DEF Followed
  <2> QED
    BY <2>4 DEF r
<1>3. ASSUME q # <<>>, Followed(q)
      PROVE  /\ Followed(Tail(q))
             /\ Head(q) = "connect" => Contains(Tail(q), "close")
  <2>1. /\ Head(q) = q[1] /\ 1 \in DOMAIN q
        /\ \A i \in DOMAIN Tail(q) : i + 1 \in DOMAIN q /\ Tail(q)[i] = q[i + 1] /\ i \in Nat \ {0}
        /\ \A i \in DOMAIN q : i \in Nat \ {0}
        /\ \A i \in DOMAIN q : i # 1 => i - 1 \in DOMAIN Tail(q) /\ Tail(q)[i - 1] = q[i]
    BY <1>3
  <2>2. ASSUME NEW i \in DOMAIN Tail(q), Tail(q)[i] = "connect"
        PROVE  \E j \in DOMAIN Tail(q) : i < j /\ Tail(q)[j] = "close"
    <3>1. PICK j \in DOMAIN q : i + 1 < j /\ q[j] = "close"
      BY <1>3, <2>1, <2>2 DEF Followed
    <3>2. j - 1 \in DOMAIN Tail(q) /\ Tail(q)[j - 1] = "close" /\ i < j - 1
      BY <2>1, <3>1
    <3> QED
      BY <3>2
  <2>3. ASSUME Head(q) = "connect" PROVE Contains(Tail(q), "close")
    <3>1. PICK j \in DOMAIN q : 1 < j /\ q[j] = "close"
      BY <1>3, <2>1, <2>3 DEF Followed
    <3>2. j - 1 \in DOMAIN Tail(q) /\ Tail(q)[j - 1] = "close"
      BY <2>1, <3>1
    <3> QED
      BY <3>2 DEF Contains
  <2> QED
    BY <2>2, <2>3 DEF Followed
<1> QED
  BY <1>1, <1>2, <1>3

-----------------------------------------------------------------------------
(* The operations on a connection                                          *)

\* What a disconnected connection looks like when the socket is not kept
Detached(c) ==
    /\ c \in Connection /\ c.st = "CLOSED" /\ c.easy = "none" /\ c.buf # "old"
    /\ ~c.reg /\ ~c.poll /\ ~c.closeTimer /\ ~c.pingTimer /\ ~c.recTimer

\* Cleaning up lets go of everything, and a socket that is kept has only its
\* reconnect timer, and no frames of the old connection.
LEMMA CleanupFacts ==
    ASSUME NEW c \in Connection, c.buf # "old"
    PROVE  /\ Detached(WsCleanup(c, FALSE))
           /\ WsCleanup(c, FALSE).closePushed = c.closePushed
           /\ WsStartReconnect(c) \in Connection
           /\ LET d == WsStartReconnect(c)
              IN  /\ d.st = "RECONNECTING" /\ d.easy = "none" /\ d.buf = "none"
                  /\ d.recTimer /\ ~d.poll /\ ~d.closeTimer /\ ~d.pingTimer
                  /\ d.reg = c.reg /\ d.closePushed = c.closePushed
<1> DEFINE s == WsStopTimers(c)
<1>1. /\ s \in Connection
      /\ ~s.closeTimer /\ ~s.pingTimer /\ ~s.recTimer
      /\ s.reg = c.reg /\ s.closePushed = c.closePushed /\ s.buf = c.buf /\ s.rec = c.rec
  BY DEF WsStopTimers, Connection
<1> HIDE DEF s
<1> DEFINE f == [s EXCEPT !.poll = FALSE, !.easy = "none", !.st = "CLOSED", !.reg = FALSE]
<1>2. Detached(f) /\ f.closePushed = c.closePushed
  BY <1>1 DEF Detached, Connection, States
<1>3. f = WsCleanup(c, FALSE)
  BY DEF WsCleanup, s
<1> DEFINE k == [s EXCEPT !.poll = FALSE, !.easy = "none", !.closeSent = FALSE,
                          !.frag = FALSE, !.buf = "none", !.st = "RECONNECTING"]
<1>4. /\ k \in Connection /\ k.st = "RECONNECTING" /\ k.easy = "none" /\ k.buf = "none"
      /\ ~k.poll /\ ~k.closeTimer /\ ~k.pingTimer
      /\ k.reg = c.reg /\ k.closePushed = c.closePushed
  BY <1>1 DEF Connection, States
<1>5. k = WsCleanup(c, TRUE)
  BY DEF WsCleanup, s
<1> HIDE DEF k, f
<1> DEFINE d == [k EXCEPT !.rec = @ + 1, !.recTimer = TRUE]
<1>6. k.rec + 1 \in Nat
  BY <1>4 DEF Connection
<1>7. d \in Connection
  BY <1>4, <1>6 DEF Connection
<1>8. /\ d.st = "RECONNECTING" /\ d.easy = "none" /\ d.buf = "none"
      /\ d.recTimer /\ ~d.poll /\ ~d.closeTimer /\ ~d.pingTimer
      /\ d.reg = c.reg /\ d.closePushed = c.closePushed
  BY <1>4 DEF Connection
<1>9. d = WsStartReconnect(c)
  BY <1>5 DEF WsStartReconnect
<1> HIDE DEF d
<1> QED
  BY <1>2, <1>3, <1>7, <1>8, <1>9

-----------------------------------------------------------------------------
(* The steps of the event thread                                           *)

\* An op is taken off the queue, or the queue is left alone
OpTaken == \/ ops' = ops
           \/ ops # <<>> /\ ops' = Tail(ops)

LEMMA OpTakenFacts ==
    ASSUME WsInv, OpTaken
    PROVE  /\ ops' \in Seq(OpTypes)
           /\ AtMostOne(ops', "connect")
           /\ Contains(ops', "connect") => Contains(ops, "connect")
           /\ hclosed => Followed(ops')
           /\ ops # <<>> /\ ops' = Tail(ops) /\ Head(ops) # "close" =>
                  (Contains(ops, "close") => Contains(ops', "close"))
<1>1. /\ ops \in Seq(OpTypes) /\ AtMostOne(ops, "connect")
      /\ hclosed => Followed(ops)
  BY DEF WsInv, TypeOK, ConnectInv
<1>2. CASE ops' = ops
  BY <1>1, <1>2, TailFacts
<1>3. CASE ops # <<>> /\ ops' = Tail(ops)
  BY <1>1, <1>3, TailFacts, FollowedFacts
<1> QED
  BY <1>2, <1>3 DEF OpTaken

\* The end of a registered connection: everything is let go of in the step that
\* reports the close, and it has not been reported before.
LEMMA PushKeepsInv ==
    ASSUME WsInv, OpTaken, NEW es \in {<<>>, <<"error">>}, NEW c,
           conn.reg, epc # "exited", Detached(c), c.closePushed = conn.closePushed,
           PushWsClosedOnce(c, es),
           epc' \in {"poll", "draining"}, UNCHANGED <<gameVars, pingOn, flags, stopFlag>>
    PROVE  WsInv'
<1> USE DEF gameVars
<1>1. /\ ~conn.closePushed /\ gpc # "unloaded" /\ asked /\ ~Contains(ops, "connect")
  BY DEF WsInv, AttachedInv, ControlInv, ConnectInv
<1>2. /\ conn' \in Connection /\ conn'.closePushed /\ conn'.st = "CLOSED"
      /\ conn'.easy = "none" /\ conn'.buf # "old"
      /\ ~conn'.reg /\ ~conn'.poll /\ ~conn'.closeTimer /\ ~conn'.pingTimer /\ ~conn'.recTimer
  BY DEF PushWsClosedOnce, Detached, Connection
<1>3. events' = events \o es \o (IF FALSE THEN <<>> ELSE <<"closed">>)
  BY <1>1 DEF PushWsClosedOnce
<1>4. ~Contains(events, "closed") /\ evt # "closed" /\ obj # "freed"
  BY <1>1 DEF WsInv, ClosedInv
<1>5. /\ events' \in Seq(EventTypes)
      /\ ~Contains(events', "mixed")
      /\ AtMostOne(events', "closed")
  BY <1>3, <1>4, ReportFacts DEF WsInv, TypeOK, ClosedInv, NoMixedMessage
<1>6. TypeOK'
  BY <1>2, <1>5, OpTakenFacts DEF WsInv, TypeOK
<1>7. ControlInv'
  BY <1>1 DEF WsInv, ControlInv
<1>8. ConnectInv'
  BY <1>1, OpTakenFacts DEF WsInv, ConnectInv
<1>9. AttachedInv'
  BY <1>2 DEF AttachedInv, OneSource
<1>10. ClosedInv' /\ NoMixedMessage'
  BY <1>2, <1>4, <1>5 DEF WsInv, ClosedInv, NoMixedMessage
<1> QED
  BY <1>6, <1>7, <1>8, <1>9, <1>10 DEF WsInv

\* A registered connection that stays registered: the step leaves it with the one
\* source its new state calls for, and reports nothing that counts.
LEMMA KeepKeepsInv ==
    ASSUME WsInv, OpTaken, conn.reg, epc # "exited",
           conn' \in Connection, conn'.reg, conn'.closePushed = conn.closePushed,
           OneSource', conn'.buf # "old", conn'.easy # "lost", epc' = "recv" => conn'.poll,
           epc' \in {"poll", "draining", "recv"},
           events' \in Seq(EventTypes),
           \A x \in {"closed", "mixed"} : Contains(events', x) <=> Contains(events, x),
           AtMostOne(events, "closed") => AtMostOne(events', "closed"),
           pingOn' \in BOOLEAN, UNCHANGED <<gameVars, flags, stopFlag>>
    PROVE  WsInv'
<1> USE DEF gameVars
<1>1. /\ ~conn.closePushed /\ gpc # "unloaded" /\ asked /\ ~Contains(ops, "connect")
  BY DEF WsInv, AttachedInv, ControlInv, ConnectInv
<1>6. TypeOK'
  BY OpTakenFacts DEF WsInv, TypeOK
<1>7. ControlInv'
  BY <1>1 DEF WsInv, ControlInv
<1>8. ConnectInv'
  BY <1>1, OpTakenFacts DEF WsInv, ConnectInv
<1>9. AttachedInv'
  BY <1>1 DEF AttachedInv
<1>10. ClosedInv' /\ NoMixedMessage'
  BY <1>1 DEF WsInv, ClosedInv, NoMixedMessage
<1> QED
  BY <1>6, <1>7, <1>8, <1>9, <1>10 DEF WsInv

\* Either way of losing a connection
LEMMA DisconnectKeepsInv ==
    ASSUME WsInv, OpTaken, NEW es \in {<<>>, <<"error">>}, NEW c \in Connection,
           conn.reg, epc # "exited", c.reg, c.closePushed = conn.closePushed, c.buf # "old",
           WsDisconnectOrReconnect(c, es), epc' \in {"poll", "draining"},
           UNCHANGED <<gameVars, pingOn, flags, stopFlag>>
    PROVE  WsInv'
<1>1. CASE WsShouldReconnect(c)
  <2>1. conn' = WsStartReconnect(c) /\ events' = events \o es
    BY <1>1 DEF WsDisconnectOrReconnect
  <2>2. /\ conn' \in Connection /\ conn'.st = "RECONNECTING" /\ conn'.easy = "none"
        /\ conn'.buf = "none" /\ conn'.recTimer /\ ~conn'.poll /\ ~conn'.closeTimer
        /\ ~conn'.pingTimer /\ conn'.reg /\ conn'.closePushed = conn.closePushed
    BY <2>1, CleanupFacts
  <2>3. /\ events' \in Seq(EventTypes)
        /\ \A x \in {"closed", "mixed"} : Contains(events', x) <=> Contains(events, x)
        /\ AtMostOne(events, "closed") => AtMostOne(events', "closed")
    BY <2>1, ReportFacts DEF WsInv, TypeOK
  <2>4. OneSource'
    BY <2>2 DEF OneSource
  <2>5. pingOn' \in BOOLEAN
    BY DEF WsInv, TypeOK
  <2> QED
    BY <2>2, <2>3, <2>4, <2>5, KeepKeepsInv
<1>2. CASE ~WsShouldReconnect(c)
  <2>1. PushWsClosedOnce(WsCleanup(c, FALSE), es)
    BY <1>2 DEF WsDisconnectOrReconnect
  <2>2. /\ Detached(WsCleanup(c, FALSE))
        /\ WsCleanup(c, FALSE).closePushed = conn.closePushed
    BY CleanupFacts
  <2> QED
    BY <2>1, <2>2, PushKeepsInv
<1> QED
  BY <1>1, <1>2

\* What is armed belongs to a registered connection.
LEMMA ArmedIsRegistered ==
    ASSUME WsInv, epc # "exited",
           conn.easy \in {"multi", "open"} \/ conn.poll \/ conn.closeTimer \/ conn.recTimer
    PROVE  /\ conn.reg /\ gpc # "unloaded" /\ conn \in Connection /\ conn.buf # "old"
           /\ pingOn \in BOOLEAN /\ events \in Seq(EventTypes)
  BY DEF WsInv, TypeOK, ControlInv, AttachedInv, OneSource

LEMMA ProcessOpKeepsInv == WsInv /\ ProcessOp => WsInv'
<1> SUFFICES ASSUME WsInv, ProcessOp PROVE WsInv'
  OBVIOUS
<1> USE DEF gameVars, loopVars
<1>1. /\ epc = "draining" /\ gpc # "unloaded" /\ OpTaken /\ ops # <<>> /\ ops' = Tail(ops)
      /\ UNCHANGED <<gameVars, flags, loopVars>>
  BY DEF ProcessOp, ProcessWsConnect, ProcessWsConnectFails, ProcessWsSend,
         ProcessWsSetOption, ProcessWsCloseNothing, ProcessWsCloseHandshake,
         ProcessWsCloseNow, TakeOp, OpTaken, WsInv, ControlInv
<1>2. /\ conn \in Connection /\ events \in Seq(EventTypes) /\ pingOn \in BOOLEAN
      /\ ops \in Seq(OpTypes)
  BY DEF WsInv, TypeOK
\* Until it is connected, a socket has neither source nor close event.
<1>3. ASSUME TakeOp("connect")
      PROVE  /\ ~conn.reg /\ conn.st = "CREATED" /\ ~conn.closePushed /\ asked
             /\ conn.easy = "none" /\ ~conn.poll /\ ~conn.recTimer /\ ~conn.closeTimer
             /\ ~conn.pingTimer /\ conn.buf # "old"
             /\ ~Contains(ops', "connect")
             /\ hclosed => Contains(ops', "close")
  <2>1. Head(ops) = "connect" /\ Contains(ops, "connect") /\ ~Contains(ops', "connect")
    BY <1>1, <1>2, <1>3, TailFacts DEF TakeOp, WsInv, ConnectInv
  <2>2. hclosed => Contains(ops', "close")
    BY <1>1, <1>2, <2>1, FollowedFacts DEF WsInv, ConnectInv
  <2> QED
    BY <1>1, <2>1, <2>2 DEF WsInv, ConnectInv, AttachedInv, OneSource
<1>4. CASE ProcessWsConnect
  <2>1. CASE hclosed
    <3>1. /\ conn' \in Connection /\ conn' = [conn EXCEPT !.reg = TRUE]
          /\ UNCHANGED <<pingOn, events>>
      BY <1>2, <1>4, <2>1 DEF ProcessWsConnect, Connection
    <3>2. /\ conn'.reg /\ conn'.st = "CREATED" /\ ~conn'.closePushed
          /\ conn'.easy = "none" /\ ~conn'.poll /\ ~conn'.recTimer /\ ~conn'.closeTimer
          /\ ~conn'.pingTimer /\ conn'.buf # "old"
      BY <1>2, <1>3, <1>4, <3>1 DEF ProcessWsConnect, Connection
    <3>3. TypeOK'
      BY <1>1, <3>1, OpTakenFacts DEF WsInv, TypeOK
    <3>4. ControlInv' /\ ClosedInv' /\ NoMixedMessage'
      BY <1>1, <1>3, <1>4, <3>1, <3>2
      DEF WsInv, ControlInv, ClosedInv, NoMixedMessage, ProcessWsConnect
    <3>5. ConnectInv'
      BY <1>1, <1>3, <1>4, OpTakenFacts DEF WsInv, ConnectInv, ProcessWsConnect
    <3>6. AttachedInv'
      BY <1>1, <1>3, <1>4, <2>1, <3>2 DEF AttachedInv, OneSource, ProcessWsConnect
    <3> QED
      BY <3>3, <3>4, <3>5, <3>6 DEF WsInv
  <2>2. CASE ~hclosed
    <3>1. /\ conn' \in Connection
          /\ conn' = [conn EXCEPT !.easy = "multi", !.st = "CONNECTING", !.reg = TRUE]
          /\ UNCHANGED <<pingOn, events>>
      BY <1>2, <1>4, <2>2 DEF ProcessWsConnect, WsInitCurl, Connection, States
    <3>2. /\ conn'.reg /\ conn'.st = "CONNECTING" /\ ~conn'.closePushed
          /\ conn'.easy = "multi" /\ ~conn'.poll /\ ~conn'.recTimer /\ ~conn'.closeTimer
          /\ ~conn'.pingTimer /\ conn'.buf # "old"
      BY <1>2, <1>3, <1>4, <3>1 DEF ProcessWsConnect, Connection
    <3>3. TypeOK'
      BY <1>1, <3>1, OpTakenFacts DEF WsInv, TypeOK
    <3>4. ControlInv' /\ ClosedInv' /\ NoMixedMessage'
      BY <1>1, <1>3, <1>4, <3>1, <3>2
      DEF WsInv, ControlInv, ClosedInv, NoMixedMessage, ProcessWsConnect
    <3>5. ConnectInv'
      BY <1>1, <1>3, <1>4, OpTakenFacts DEF WsInv, ConnectInv, ProcessWsConnect
    <3>6. AttachedInv'
      BY <3>2 DEF AttachedInv, OneSource
    <3> QED
      BY <3>3, <3>4, <3>5, <3>6 DEF WsInv
  <2> QED
    BY <2>1, <2>2
<1>5. CASE ProcessWsConnectFails
  <2>1. conn' = conn
    <3>1. conn' = [conn EXCEPT !.reg = FALSE] /\ conn.reg = FALSE
      BY <1>2, <1>3, <1>5 DEF ProcessWsConnectFails, Connection
    <3> QED
      BY <1>2, <3>1 DEF Connection
  <2>2. /\ events' \in Seq(EventTypes)
        /\ \A x \in {"closed", "mixed"} : Contains(events', x) <=> Contains(events, x)
        /\ AtMostOne(events, "closed") => AtMostOne(events', "closed")
    BY <1>2, <1>5, AppendFacts DEF ProcessWsConnectFails, EventTypes
  <2>3. TypeOK'
    BY <1>1, <1>5, <2>1, <2>2, OpTakenFacts DEF WsInv, TypeOK, ProcessWsConnectFails
  <2>4. ControlInv' /\ ClosedInv' /\ NoMixedMessage'
    BY <1>1, <2>1, <2>2 DEF WsInv, ControlInv, ClosedInv, NoMixedMessage
  <2>5. ConnectInv'
    BY <1>1, <1>3, <1>5, <2>1, OpTakenFacts DEF WsInv, ConnectInv, ProcessWsConnectFails
  <2>6. AttachedInv'
    BY <1>3, <1>5, <2>1 DEF AttachedInv, OneSource, ProcessWsConnectFails
  <2> QED
    BY <2>3, <2>4, <2>5, <2>6 DEF WsInv
\* An op that finds nothing to do, and is not the one a closed socket waits for
<1>6. ASSUME UNCHANGED <<conn, pingOn, events>>,
             \/ ~conn.reg \/ conn.st # "CREATED"
             \/ Contains(ops, "close") => Contains(ops', "close")
      PROVE  WsInv'
  <2>1. TypeOK' /\ ControlInv' /\ ClosedInv' /\ NoMixedMessage'
    BY <1>1, <1>6, OpTakenFacts
    DEF WsInv, TypeOK, ControlInv, ClosedInv, NoMixedMessage
  <2>2. ConnectInv'
    BY <1>1, <1>6, OpTakenFacts DEF WsInv, ConnectInv
  <2>3. AttachedInv'
    BY <1>1, <1>6 DEF WsInv, AttachedInv, OneSource
  <2> QED
    BY <2>1, <2>2, <2>3 DEF WsInv
<1>7. CASE ProcessWsSend
  <2>1. Contains(ops, "close") => Contains(ops', "close")
    BY <1>1, <1>7, OpTakenFacts DEF ProcessWsSend, TakeOp
  <2>2. CASE UNCHANGED events
    BY <1>6, <1>7, <2>1, <2>2 DEF ProcessWsSend
  <2>3. CASE events' = Append(events, "error") /\ conn.reg
    <3>1. /\ events' \in Seq(EventTypes)
          /\ \A x \in {"closed", "mixed"} : Contains(events', x) <=> Contains(events, x)
          /\ AtMostOne(events, "closed") => AtMostOne(events', "closed")
      BY <1>2, <2>3, AppendFacts DEF EventTypes
    <3>2. UNCHANGED <<conn, pingOn>>
      BY <1>7 DEF ProcessWsSend
    <3>3. OneSource' /\ conn.buf # "old" /\ conn.easy # "lost"
      BY <1>1, <2>1, <3>2 DEF WsInv, AttachedInv, OneSource
    <3> QED
      BY <1>1, <1>2, <2>3, <3>1, <3>2, <3>3, KeepKeepsInv
  <2> QED
    BY <1>7, <2>2, <2>3 DEF ProcessWsSend
<1>8. ASSUME NEW on \in BOOLEAN, ProcessWsSetOption(on) PROVE WsInv'
  <2>1. Contains(ops, "close") => Contains(ops', "close")
    BY <1>1, <1>8, OpTakenFacts DEF ProcessWsSetOption, TakeOp
  <2>2. CASE ~conn.reg
    BY <1>6, <1>8, <2>2 DEF ProcessWsSetOption
  <2>3. CASE conn.reg
    <3>1. /\ pingOn' \in BOOLEAN /\ conn.buf # "old" /\ conn.easy # "lost" /\ events' = events
          /\ conn' = IF conn.st = "CONNECTED" THEN [conn EXCEPT !.pingTimer = on] ELSE conn
      BY <1>1, <1>8, <2>3 DEF ProcessWsSetOption, WsInv, AttachedInv
    <3>2. /\ conn' \in Connection /\ conn'.st = conn.st /\ conn'.easy = conn.easy
          /\ conn'.poll = conn.poll /\ conn'.recTimer = conn.recTimer /\ conn'.reg = conn.reg
          /\ conn'.closeTimer = conn.closeTimer /\ conn'.closePushed = conn.closePushed
          /\ conn'.buf = conn.buf
          /\ conn'.pingTimer => conn.pingTimer \/ conn.st = "CONNECTED"
      BY <1>2, <3>1 DEF Connection
    <3>3. OneSource'
      BY <1>1, <2>1, <2>3, <3>2 DEF WsInv, AttachedInv, OneSource
    <3> QED
      BY <1>1, <1>2, <2>3, <3>1, <3>2, <3>3, KeepKeepsInv
  <2> QED
    BY <2>2, <2>3
<1>9. CASE ProcessWsCloseNothing
  BY <1>6, <1>9 DEF ProcessWsCloseNothing
<1>10. CASE ProcessWsCloseHandshake
  <2>1. /\ conn.reg /\ conn.st = "CONNECTED" /\ conn.poll
        /\ conn.buf # "old" /\ conn.easy # "lost"
        /\ UNCHANGED <<pingOn, events>>
        /\ conn' = [conn EXCEPT !.st = "CLOSING", !.closeSent = TRUE, !.closeTimer = TRUE]
    BY <1>1, <1>10 DEF ProcessWsCloseHandshake, CanHandshake, WsInv, AttachedInv
  <2>2. /\ conn' \in Connection /\ conn'.st = "CLOSING" /\ conn'.easy = conn.easy
        /\ conn'.poll = conn.poll /\ conn'.recTimer = conn.recTimer /\ conn'.reg = conn.reg
        /\ conn'.closeTimer /\ conn'.closePushed = conn.closePushed
        /\ conn'.buf = conn.buf /\ conn'.pingTimer = conn.pingTimer
    BY <1>2, <2>1 DEF Connection, States
  <2>3. OneSource'
    BY <1>1, <2>1, <2>2 DEF WsInv, AttachedInv, OneSource
  <2> QED
    BY <1>1, <1>2, <2>1, <2>2, <2>3, KeepKeepsInv
<1>11. CASE ProcessWsCloseNow
  <2> DEFINE c == IF conn.st = "RECONNECTING"
                  THEN [WsStopTimers(conn) EXCEPT !.st = "CLOSED", !.reg = FALSE]
                  ELSE WsCleanup(conn, FALSE)
  <2>1. conn.reg /\ PushWsClosedOnce(c, <<>>) /\ UNCHANGED pingOn /\ conn.buf # "old"
    BY <1>11 DEF ProcessWsCloseNow, WsInv, AttachedInv
  <2>2. Detached(c) /\ c.closePushed = conn.closePushed
    <3>1. CASE conn.st = "RECONNECTING"
      <4>1. conn.easy = "none" /\ ~conn.poll
        BY <1>1, <1>2, <2>1, <3>1 DEF WsInv, AttachedInv, OneSource, Connection
      <4> DEFINE t == WsStopTimers(conn)
      <4>2. /\ t \in Connection /\ t.easy = "none" /\ ~t.poll /\ t.buf # "old"
            /\ ~t.closeTimer /\ ~t.pingTimer /\ ~t.recTimer /\ t.closePushed = conn.closePushed
        BY <1>2, <2>1, <4>1 DEF WsStopTimers, Connection
      <4> HIDE DEF t
      <4>3. c = [t EXCEPT !.st = "CLOSED", !.reg = FALSE]
        BY <3>1 DEF t
      <4> QED
        BY <4>2, <4>3 DEF Detached, Connection, States
    <3>2. CASE conn.st # "RECONNECTING"
      BY <1>2, <2>1, <3>2, CleanupFacts
    <3> QED
      BY <3>1, <3>2
  <2> HIDE DEF c
  <2> QED
    BY <1>1, <2>1, <2>2, PushKeepsInv
<1> QED
  BY <1>4, <1>5, <1>7, <1>8, <1>9, <1>10, <1>11 DEF ProcessOp

\* The steps of the event thread outside the op queue: an attempt, the poll handle
\* and the timers belong to a registered connection, and end it once.
LEMMA EventStepKeepsInv == WsInv /\ EventStep => WsInv'
<1> SUFFICES ASSUME WsInv, EventStep PROVE WsInv'
  OBVIOUS
<1> USE DEF gameVars, loopVars
<1>1. CASE EventWalk
  <2>1. CASE BeginWalk \/ OnAsyncWsOpEnter \/ OnAsyncWsOpExit
    <3>1. /\ UNCHANGED <<gameVars, pingOn, conn, ops, events>>
          /\ epc # "exited" /\ epc' \in {"ws", "draining", "poll"}
      BY <2>1 DEF BeginWalk, OnAsyncWsOpEnter, OnAsyncWsOpExit
    <3>2. flags' \subseteq {"stop", "ws"} /\ stopFlag' \in BOOLEAN
      BY <2>1 DEF WsInv, TypeOK, BeginWalk, OnAsyncWsOpEnter, OnAsyncWsOpExit
    <3>3. TypeOK'
      BY <3>1, <3>2 DEF WsInv, TypeOK
    <3>4. ControlInv' /\ ClosedInv' /\ NoMixedMessage'
      BY <3>1 DEF WsInv, ControlInv, ClosedInv, NoMixedMessage
    <3>5. ConnectInv' /\ AttachedInv'
      BY <3>1 DEF WsInv, ConnectInv, AttachedInv, OneSource
    <3> QED
      BY <3>3, <3>4, <3>5 DEF WsInv
  <2> QED
    BY <1>1, <2>1, ProcessOpKeepsInv DEF EventWalk
<1>2. CASE AttemptDone
  <2>1. /\ epc \in {"poll", "draining"} /\ conn.easy = "multi" /\ OpTaken
        /\ UNCHANGED <<gameVars, pingOn, ops, flags, loopVars>>
    BY <1>2 DEF AttemptDone, AttemptClosed, AttemptConnected, AttemptFailed, AttemptEnds, OpTaken
  <2>2. /\ conn.reg /\ gpc # "unloaded" /\ conn \in Connection /\ conn.buf # "old"
        /\ pingOn \in BOOLEAN /\ events \in Seq(EventTypes)
    BY <2>1, ArmedIsRegistered
  <2>3. /\ conn.st = "CONNECTING" /\ ~conn.poll /\ ~conn.recTimer /\ ~conn.closeTimer
        /\ ~conn.pingTimer
    BY <2>1, <2>2 DEF WsInv, AttachedInv, OneSource
  <2>4. CASE AttemptClosed
    <3> DEFINE c == [conn EXCEPT !.easy = "none", !.st = "CLOSED", !.reg = FALSE]
    <3>1. PushWsClosedOnce(c, <<>>)
      BY <2>4 DEF AttemptClosed
    <3>2. Detached(c) /\ c.closePushed = conn.closePushed
      BY <2>2, <2>3 DEF Detached, Connection, States
    <3> HIDE DEF c
    <3> QED
      BY <2>1, <2>2, <3>1, <3>2, PushKeepsInv
  <2>5. CASE AttemptConnected
    <3>1. /\ conn' = [conn EXCEPT !.easy = "open", !.poll = TRUE, !.st = "CONNECTED",
                                  !.rec = 0, !.pingTimer = pingOn]
          /\ events' = Append(events, "connected")
      BY <2>5 DEF AttemptConnected
    <3>2. /\ conn' \in Connection /\ conn'.st = "CONNECTED" /\ conn'.easy = "open"
          /\ conn'.poll /\ ~conn'.recTimer /\ ~conn'.closeTimer /\ conn'.reg
          /\ conn'.closePushed = conn.closePushed /\ conn'.buf = conn.buf
      BY <2>2, <2>3, <3>1 DEF Connection, States
    <3>3. /\ events' \in Seq(EventTypes)
          /\ \A x \in {"closed", "mixed"} : Contains(events', x) <=> Contains(events, x)
          /\ AtMostOne(events, "closed") => AtMostOne(events', "closed")
      BY <2>2, <3>1, AppendFacts DEF EventTypes
    <3>4. OneSource'
      BY <3>2 DEF OneSource
    <3> QED
      BY <2>1, <2>2, <3>2, <3>3, <3>4, KeepKeepsInv
  <2>6. CASE AttemptFailed
    <3> DEFINE c == [conn EXCEPT !.easy = "none"]
    <3>1. WsDisconnectOrReconnect(c, <<"error">>)
      BY <2>6 DEF AttemptFailed
    <3>2. c \in Connection /\ c.reg /\ c.closePushed = conn.closePushed /\ c.buf # "old"
      BY <2>2 DEF Connection
    <3> HIDE DEF c
    <3> QED
      BY <2>1, <2>2, <3>1, <3>2, DisconnectKeepsInv
  <2> QED
    BY <1>2, <2>4, <2>5, <2>6 DEF AttemptDone
\* From here on the connection has a poll handle or a timer that fires.
<1>3. ASSUME conn.poll \/ conn.closeTimer \/ conn.recTimer, epc \in {"poll", "recv"}
      PROVE  /\ conn.reg /\ gpc # "unloaded" /\ conn \in Connection /\ conn.buf # "old"
             /\ pingOn \in BOOLEAN /\ events \in Seq(EventTypes)
             /\ Detached(WsCleanup(conn, FALSE))
             /\ WsCleanup(conn, FALSE).closePushed = conn.closePushed
             /\ OneSource /\ conn.easy # "lost"
  <2>1. /\ conn.reg /\ gpc # "unloaded" /\ conn \in Connection /\ conn.buf # "old"
        /\ pingOn \in BOOLEAN /\ events \in Seq(EventTypes)
    BY <1>3, ArmedIsRegistered
  <2> QED
    BY <2>1, CleanupFacts DEF WsInv, AttachedInv
<1>4. CASE PollActivity \/ OnWsCloseTimeout
  <2>1. /\ epc = "poll" /\ (conn.poll \/ conn.closeTimer) /\ OpTaken
        /\ UNCHANGED <<gameVars, pingOn, ops, flags, stopFlag>>
    BY <1>4 DEF PollActivity, PollClosed, PollError, PollReadable, OnWsCloseTimeout, OpTaken
  <2>2. CASE PollClosed \/ OnWsCloseTimeout
    <3>1. PushWsClosedOnce(WsCleanup(conn, FALSE), <<>>) /\ epc' = epc
      BY <2>2 DEF PollClosed, OnWsCloseTimeout
    <3> QED
      BY <1>3, <2>1, <3>1, PushKeepsInv
  <2>3. CASE PollError
    <3>1. WsDisconnectOrReconnect(conn, <<"error">>) /\ epc' = epc
      BY <2>3 DEF PollError
    <3> QED
      BY <1>3, <2>1, <3>1, DisconnectKeepsInv
  <2>4. CASE PollReadable
    <3>1. UNCHANGED <<conn, events>> /\ epc' = "recv" /\ conn.poll
      BY <2>4 DEF PollReadable
    <3>2. OneSource'
      BY <1>3, <2>1, <3>1 DEF OneSource
    <3> QED
      BY <1>3, <2>1, <3>1, <3>2, KeepKeepsInv
  <2> QED
    BY <1>4, <2>2, <2>3, <2>4 DEF PollActivity
<1>5. CASE Recv
  <2>1. /\ epc = "recv" /\ conn.poll /\ OpTaken
        /\ UNCHANGED <<gameVars, pingOn, ops, flags, stopFlag>>
    BY <1>5 DEF Recv, RecvAgain, RecvCloseFrame, RecvPong, RecvDataClosed, RecvFragment,
                RecvMessage, RecvTooBig, RecvEnds, LeavesLoop, Receives, OpTaken,
                WsInv, ControlInv
  <2>2. CASE RecvAgain \/ RecvDataClosed
    <3>1. UNCHANGED <<conn, events>> /\ epc' = "poll"
      BY <2>2 DEF RecvAgain, RecvDataClosed, LeavesLoop
    <3>2. OneSource'
      BY <1>3, <2>1, <3>1 DEF OneSource
    <3> QED
      BY <1>3, <2>1, <3>1, <3>2, KeepKeepsInv
  <2>3. ASSUME NEW es \in {<<>>, <<"error">>}, RecvEnds(es) PROVE WsInv'
    <3>1. WsDisconnectOrReconnect(conn, es) /\ epc' = "poll"
      BY <2>3 DEF RecvEnds, LeavesLoop
    <3> QED
      BY <1>3, <2>1, <3>1, DisconnectKeepsInv
  <2> DEFINE answered == [conn EXCEPT !.closeSent = TRUE]
  <2>4. /\ answered \in Connection /\ answered.reg /\ answered.buf # "old"
        /\ answered.closePushed = conn.closePushed
    BY <1>3, <2>1 DEF Connection
  <2>5. CASE RecvCloseFrame
    <3>1. WsDisconnectOrReconnect(answered, <<>>) /\ epc' = "poll"
      BY <2>5 DEF RecvCloseFrame, LeavesLoop
    <3> HIDE DEF answered
    <3> QED
      BY <1>3, <2>1, <2>4, <3>1, DisconnectKeepsInv
  <2>6. CASE RecvTooBig
    <3>1. PushWsClosedOnce(WsCleanup(answered, FALSE), <<"error">>) /\ epc' = "poll"
      BY <2>6 DEF RecvTooBig, LeavesLoop
    <3> HIDE DEF answered
    <3>2. /\ Detached(WsCleanup(answered, FALSE))
          /\ WsCleanup(answered, FALSE).closePushed = conn.closePushed
      BY <2>4, CleanupFacts
    <3> QED
      BY <1>3, <2>1, <3>1, <3>2, PushKeepsInv
  \* A frame: only the reassembly changes, and what it delivers is of this connection.
  <2>7. CASE RecvPong \/ RecvFragment \/ RecvMessage
    <3>1. /\ epc' = epc
          /\ \/ conn' = conn
             \/ conn' = [conn EXCEPT !.frag = TRUE, !.buf = "this"]
             \/ conn' = [conn EXCEPT !.frag = FALSE, !.buf = "none"]
          /\ events' = events \/ \E x \in {"pong", "message"} : events' = Append(events, x)
      BY <1>3, <2>1, <2>7 DEF RecvPong, RecvFragment, RecvMessage, Receives, Accumulated
    <3>2. /\ conn' \in Connection /\ conn'.st = conn.st /\ conn'.easy = conn.easy
          /\ conn'.poll = conn.poll /\ conn'.recTimer = conn.recTimer /\ conn'.reg = conn.reg
          /\ conn'.closeTimer = conn.closeTimer /\ conn'.closePushed = conn.closePushed
          /\ conn'.pingTimer = conn.pingTimer /\ conn'.buf # "old"
      BY <1>3, <2>1, <3>1 DEF Connection
    <3>3. /\ events' \in Seq(EventTypes)
          /\ \A x \in {"closed", "mixed"} : Contains(events', x) <=> Contains(events, x)
          /\ AtMostOne(events, "closed") => AtMostOne(events', "closed")
      <4>1. CASE events' = events
        BY <1>3, <2>1, <4>1
      <4>2. ASSUME NEW x \in {"pong", "message"}, events' = Append(events, x)
            PROVE  /\ events' \in Seq(EventTypes)
                   /\ \A y \in {"closed", "mixed"} : Contains(events', y) <=> Contains(events, y)
                   /\ AtMostOne(events, "closed") => AtMostOne(events', "closed")
        <5>1. x \in EventTypes /\ x \notin {"closed", "mixed"}
          BY DEF EventTypes
        <5> QED
          BY <1>3, <2>1, <4>2, <5>1, AppendFacts
      <4> QED
        BY <3>1, <4>1, <4>2
    <3>4. OneSource'
      BY <1>3, <2>1, <3>2 DEF OneSource
    <3> QED
      BY <1>3, <2>1, <3>1, <3>2, <3>3, <3>4, KeepKeepsInv
  <2> QED
    BY <1>5, <2>2, <2>3, <2>5, <2>6, <2>7 DEF Recv
<1>6. CASE OnWsReconnectTimer
  <2>1. /\ epc = "poll" /\ conn.recTimer /\ OpTaken
        /\ UNCHANGED <<gameVars, pingOn, ops, flags, loopVars>>
    BY <1>6 DEF OnWsReconnectTimer, OnWsReconnectTimerClosed, WsReconnect, WsReconnectFails,
                ReconnectFires, OpTaken
  <2>2. /\ conn.st = "RECONNECTING" /\ ~conn.poll /\ conn.easy = "none"
        /\ ~conn.closeTimer /\ ~conn.pingTimer
    BY <1>3, <2>1 DEF OneSource, Connection
  <2>3. CASE OnWsReconnectTimerClosed \/ WsReconnectFails
    <3> DEFINE c == [conn EXCEPT !.recTimer = FALSE, !.st = "CLOSED", !.reg = FALSE]
    <3>1. \E es \in {<<>>, <<"error">>} : PushWsClosedOnce(c, es)
      BY <2>3 DEF OnWsReconnectTimerClosed, WsReconnectFails
    <3>2. Detached(c) /\ c.closePushed = conn.closePushed
      BY <1>3, <2>1, <2>2 DEF Detached, Connection, States
    <3> HIDE DEF c
    <3> QED
      BY <1>3, <2>1, <3>1, <3>2, PushKeepsInv
  <2>4. CASE WsReconnect
    <3> DEFINE c == [conn EXCEPT !.recTimer = FALSE]
    <3>1. conn' = WsInitCurl(c) /\ events' = events
      BY <2>4 DEF WsReconnect
    <3>2. /\ c \in Connection /\ ~c.poll /\ ~c.recTimer /\ ~c.closeTimer /\ ~c.pingTimer
          /\ c.reg /\ c.closePushed = conn.closePushed /\ c.buf # "old"
      BY <1>3, <2>1, <2>2 DEF Connection
    <3> HIDE DEF c
    <3>3. /\ conn' \in Connection /\ conn'.st = "CONNECTING" /\ conn'.easy = "multi"
          /\ ~conn'.poll /\ ~conn'.recTimer /\ ~conn'.closeTimer /\ ~conn'.pingTimer
          /\ conn'.reg /\ conn'.closePushed = conn.closePushed /\ conn'.buf # "old"
      BY <3>1, <3>2 DEF WsInitCurl, Connection, States
    <3>4. OneSource'
      BY <3>3 DEF OneSource
    <3> QED
      BY <1>3, <2>1, <3>1, <3>2, <3>3, <3>4, KeepKeepsInv
  <2> QED
    BY <1>6, <2>3, <2>4 DEF OnWsReconnectTimer
<1>7. CASE EventExit
  <2>1. /\ epc = "poll" /\ epc' = "exited"
        /\ UNCHANGED <<gameVars, pingOn, conn, ops, events, flags, stopFlag>>
    BY <1>7 DEF EventExit
  <2>2. TypeOK' /\ ControlInv' /\ ClosedInv' /\ NoMixedMessage'
    BY <2>1 DEF WsInv, TypeOK, ControlInv, ClosedInv, NoMixedMessage
  <2>3. ConnectInv' /\ AttachedInv'
    BY <2>1 DEF WsInv, ConnectInv, AttachedInv, OneSource
  <2> QED
    BY <2>2, <2>3 DEF WsInv
<1> QED
  BY <1>1, <1>2, <1>4, <1>5, <1>6, <1>7 DEF EventStep

-----------------------------------------------------------------------------
(* The steps of the game thread                                            *)

\* Anything but CONNECT is put in the queue; a closing native raises handle_closed
\* in the same step.
LEMMA EnqueueKeepsInv ==
    ASSUME WsInv, NEW op \in OpTypes \ {"connect"}, EnqueueWsOp(op), gpc # "unloaded",
           hclosed' = hclosed \/ (hclosed' = TRUE /\ op = "close"),
           loaded' \in BOOLEAN, pingOn' \in BOOLEAN,
           UNCHANGED <<obj, maxRec, gpc, evt, asked, conn, events, loopVars>>
    PROVE  WsInv'
<1> USE DEF loopVars
<1>1. /\ ops \in Seq(OpTypes) /\ ops' = Append(ops, op) /\ flags' = flags \cup {"ws"}
  BY DEF WsInv, TypeOK, EnqueueWsOp
<1>2. /\ ops' \in Seq(OpTypes)
      /\ Contains(ops', "connect") <=> Contains(ops, "connect")
      /\ Contains(ops, "close") => Contains(ops', "close")
      /\ AtMostOne(ops, "connect") => AtMostOne(ops', "connect")
  BY <1>1, AppendFacts
<1>3. hclosed' => Followed(ops')
  BY <1>1, FollowedFacts DEF WsInv, ConnectInv
<1>4. TypeOK'
  BY <1>1, <1>2 DEF WsInv, TypeOK
<1>5. ControlInv' /\ ClosedInv' /\ NoMixedMessage'
  BY DEF WsInv, ControlInv, ClosedInv, NoMixedMessage
<1>6. ConnectInv'
  BY <1>2, <1>3 DEF WsInv, ConnectInv
<1>7. AttachedInv'
  BY <1>2 DEF WsInv, AttachedInv, OneSource
<1> QED
  BY <1>4, <1>5, <1>6, <1>7 DEF WsInv

LEMMA GameNativeKeepsInv == WsInv /\ GameNative /\ "ConnectInClose" \notin Habits => WsInv'
<1> SUFFICES ASSUME WsInv, GameNative, "ConnectInClose" \notin Habits PROVE WsInv'
  OBVIOUS
<1> USE DEF gameVars, loopVars
<1>1. gpc # "unloaded" /\ gpc \in {"idle", "callback"}
  BY DEF GameNative, Native_WsNew, Native_WsConnect, Native_WsSend, Native_WsClose,
         Native_WsSetReconnect, Native_WsSetPing, InNative
<1>2. CASE Native_WsNew
  <2>1. /\ obj = "none" /\ obj' = "live"
        /\ UNCHANGED <<loaded, hclosed, maxRec, gpc, evt, asked, pingOn, conn, ops, events,
                       flags, loopVars>>
    BY <1>2 DEF Native_WsNew
  <2>2. TypeOK' /\ ControlInv' /\ ClosedInv' /\ NoMixedMessage'
    BY <2>1 DEF WsInv, TypeOK, ControlInv, ClosedInv, NoMixedMessage
  <2>3. ConnectInv' /\ AttachedInv'
    BY <2>1 DEF WsInv, ConnectInv, AttachedInv, OneSource
  <2> QED
    BY <2>2, <2>3 DEF WsInv
<1>3. ASSUME NEW n \in Limits, Native_WsSetReconnect(n) PROVE WsInv'
  <2>1. /\ maxRec' = n
        /\ UNCHANGED <<obj, loaded, hclosed, gpc, evt, asked, pingOn, conn, ops, events,
                       flags, loopVars>>
    BY <1>3 DEF Native_WsSetReconnect
  <2>2. TypeOK' /\ ControlInv' /\ ClosedInv' /\ NoMixedMessage'
    BY <2>1 DEF WsInv, TypeOK, ControlInv, ClosedInv, NoMixedMessage
  <2>3. ConnectInv' /\ AttachedInv'
    BY <2>1 DEF WsInv, ConnectInv, AttachedInv, OneSource
  <2> QED
    BY <2>2, <2>3 DEF WsInv
\* Connect: the first, of a socket that is not closed
<1>4. CASE Native_WsConnect
  <2>1. /\ ~asked /\ ~hclosed /\ asked' = TRUE
        /\ ops' = Append(ops, "connect") /\ flags' = flags \cup {"ws"}
        /\ UNCHANGED <<obj, loaded, hclosed, maxRec, gpc, evt, pingOn, conn, events, loopVars>>
    BY <1>4 DEF Native_WsConnect, EnqueueWsOp
  <2>2. ops \in Seq(OpTypes) /\ "connect" \in OpTypes
    BY DEF WsInv, TypeOK, OpTypes
  <2>3. ~conn.reg /\ conn.st = "CREATED" /\ ~conn.closePushed /\ ~Contains(ops, "connect")
    BY <2>1 DEF WsInv, ConnectInv
  <2>4. ops' \in Seq(OpTypes) /\ AtMostOne(ops', "connect")
    BY <2>1, <2>2, <2>3, AppendFacts DEF WsInv, ConnectInv
  <2>5. TypeOK'
    BY <2>1, <2>4 DEF WsInv, TypeOK
  <2>6. ControlInv' /\ ClosedInv' /\ NoMixedMessage'
    BY <1>1, <2>1 DEF WsInv, ControlInv, ClosedInv, NoMixedMessage
  <2>7. ConnectInv'
    BY <2>1, <2>3, <2>4 DEF ConnectInv
  <2>8. AttachedInv'
    BY <2>1, <2>3 DEF WsInv, AttachedInv, OneSource
  <2> QED
    BY <2>5, <2>6, <2>7, <2>8 DEF WsInv
<1>5. CASE Native_WsSend
  <2>1. /\ EnqueueWsOp("send") /\ UNCHANGED <<gameVars, pingOn, conn, events, loopVars>>
        /\ "send" \in OpTypes \ {"connect"} /\ loaded \in BOOLEAN /\ pingOn \in BOOLEAN
    BY <1>5 DEF Native_WsSend, OpTypes, WsInv, TypeOK
  <2> QED
    BY <1>1, <2>1, EnqueueKeepsInv
<1>6. ASSUME NEW on \in BOOLEAN, Native_WsSetPing(on) PROVE WsInv'
  <2>1. PICK op \in {"ping_on", "ping_off"} : EnqueueWsOp(op)
    BY <1>6 DEF Native_WsSetPing
  <2>2. /\ UNCHANGED <<gameVars, conn, events, loopVars>>
        /\ op \in OpTypes \ {"connect"} /\ loaded \in BOOLEAN /\ pingOn' \in BOOLEAN
    BY <1>6 DEF Native_WsSetPing, OpTypes, WsInv, TypeOK
  <2> QED
    BY <1>1, <2>1, <2>2, EnqueueKeepsInv
<1>7. CASE Native_WsClose
  <2>1. /\ EnqueueWsOp("close") /\ hclosed' = TRUE
        /\ UNCHANGED <<obj, loaded, maxRec, gpc, evt, asked, pingOn, conn, events, loopVars>>
        /\ "close" \in OpTypes \ {"connect"} /\ loaded \in BOOLEAN /\ pingOn \in BOOLEAN
    BY <1>7 DEF Native_WsClose, OpTypes, WsInv, TypeOK
  <2> QED
    BY <1>1, <2>1, EnqueueKeepsInv
<1> QED
  BY <1>2, <1>3, <1>4, <1>5, <1>6, <1>7 DEF GameNative

LEMMA GameStepKeepsInv == WsInv /\ (OnPluginUnloaded \/ SDK_OnUnload \/ GameStep) => WsInv'
<1> SUFFICES ASSUME WsInv, OnPluginUnloaded \/ SDK_OnUnload \/ GameStep PROVE WsInv'
  OBVIOUS
<1> USE DEF gameVars, loopVars
<1>1. CASE OnPluginUnloaded
  <2>1. /\ gpc = "idle" /\ loaded' = FALSE
        /\ UNCHANGED <<obj, maxRec, gpc, evt, asked, pingOn, conn, events, loopVars>>
    BY <1>1 DEF OnPluginUnloaded
  <2>2. CASE obj = "live"
    <3>1. EnqueueWsOp("close") /\ hclosed' = TRUE
      BY <1>1, <2>2 DEF OnPluginUnloaded
    <3>2. "close" \in OpTypes \ {"connect"} /\ loaded' \in BOOLEAN /\ pingOn' \in BOOLEAN
      BY <2>1 DEF OpTypes, WsInv, TypeOK
    <3> QED
      BY <2>1, <3>1, <3>2, EnqueueKeepsInv
  <2>3. CASE obj # "live"
    <3>1. UNCHANGED <<hclosed, ops, flags>>
      BY <1>1, <2>3 DEF OnPluginUnloaded
    <3>2. loaded' \in BOOLEAN
      BY <2>1
    <3>3. TypeOK'
      BY <2>1, <3>1, <3>2 DEF WsInv, TypeOK
    <3>4. ControlInv' /\ ClosedInv' /\ NoMixedMessage'
      BY <2>1, <3>1 DEF WsInv, ControlInv, ClosedInv, NoMixedMessage
    <3>5. ConnectInv' /\ AttachedInv'
      BY <2>1, <3>1 DEF WsInv, ConnectInv, AttachedInv, OneSource
    <3> QED
      BY <3>3, <3>4, <3>5 DEF WsInv
  <2> QED
    BY <2>2, <2>3
<1>2. CASE SDK_OnUnload
  <2>1. /\ gpc = "idle" /\ gpc' = "joining" /\ flags' = flags \cup {"stop"}
        /\ UNCHANGED <<obj, loaded, hclosed, maxRec, evt, asked, pingOn, conn, ops, events,
                       loopVars>>
    BY <1>2 DEF SDK_OnUnload
  <2>2. TypeOK' /\ ControlInv' /\ ClosedInv' /\ NoMixedMessage'
    BY <2>1 DEF WsInv, TypeOK, ControlInv, ClosedInv, NoMixedMessage
  <2>3. ConnectInv' /\ AttachedInv'
    BY <2>1 DEF WsInv, ConnectInv, AttachedInv, OneSource
  <2> QED
    BY <2>2, <2>3 DEF WsInv
\* The close event moves from the queue to the dispatcher ...
<1>3. CASE DispatchSocketEvent
  <2>1. /\ gpc = "idle" /\ events # <<>> /\ gpc' = "callback" /\ evt' = Head(events)
        /\ events' = Tail(events)
        /\ UNCHANGED <<obj, loaded, hclosed, maxRec, asked, pingOn, conn, ops, flags, loopVars>>
    BY <1>3 DEF DispatchSocketEvent
  <2>2. events \in Seq(EventTypes) /\ AtMostOne(events, "closed") /\ ~Contains(events, "mixed")
    BY DEF WsInv, TypeOK, ClosedInv, NoMixedMessage
  <2>3. /\ events' \in Seq(EventTypes) /\ evt' \in EventTypes
        /\ \A x : Contains(events, x) <=> evt' = x \/ Contains(events', x)
        /\ AtMostOne(events', "closed") /\ ~(evt' = "closed" /\ Contains(events', "closed"))
    BY <2>1, <2>2, TailFacts
  <2>4. TypeOK'
    BY <2>1, <2>3 DEF WsInv, TypeOK
  <2>5. ControlInv' /\ ClosedInv' /\ NoMixedMessage'
    BY <2>1, <2>2, <2>3 DEF WsInv, ControlInv, ClosedInv, NoMixedMessage, EventTypes
  <2>6. ConnectInv' /\ AttachedInv'
    BY <2>1 DEF WsInv, ConnectInv, AttachedInv, OneSource
  <2> QED
    BY <2>4, <2>5, <2>6 DEF WsInv
\* ... and from there to the freed object
<1>4. CASE DispatchReturn
  <2>1. /\ gpc = "callback" /\ gpc' = "idle" /\ evt' = "none"
        /\ obj' = IF evt = "closed" THEN "freed" ELSE obj
        /\ UNCHANGED <<loaded, hclosed, maxRec, asked, pingOn, conn, ops, events, flags, loopVars>>
    BY <1>4 DEF DispatchReturn
  <2>2. TypeOK' /\ ControlInv'
    BY <2>1 DEF WsInv, TypeOK, ControlInv
  <2>3. ClosedInv' /\ NoMixedMessage'
    BY <2>1 DEF WsInv, ClosedInv, NoMixedMessage
  <2>4. ConnectInv' /\ AttachedInv'
    BY <2>1 DEF WsInv, ConnectInv, AttachedInv, OneSource
  <2> QED
    BY <2>2, <2>3, <2>4 DEF WsInv
<1>5. CASE StopJoined
  <2>1. /\ gpc = "joining" /\ epc = "exited" /\ gpc' = "unloaded"
        /\ ops' = <<>> /\ events' = <<>>
        /\ obj' = IF obj = "live" THEN "freed" ELSE obj
        /\ UNCHANGED <<loaded, hclosed, maxRec, evt, asked, pingOn, flags, loopVars>>
    BY <1>5 DEF StopJoined
  <2>2. conn \in Connection /\ conn.buf # "old" /\ evt = "none"
    BY <2>1 DEF WsInv, TypeOK, AttachedInv, ControlInv
  <2>3. /\ conn' \in Connection /\ ~conn'.reg /\ ~conn'.poll /\ ~conn'.recTimer
        /\ ~conn'.closeTimer /\ ~conn'.pingTimer /\ conn'.easy \in {"none", "lost"}
        /\ conn'.st = conn.st /\ conn'.closePushed = conn.closePushed /\ conn'.buf # "old"
    BY <1>5, <2>2 DEF StopJoined, Connection
  <2>4. \A x : ~Contains(ops', x) /\ ~Contains(events', x)
    BY <2>1 DEF Contains
  <2>5. AtMostOne(ops', "connect") /\ AtMostOne(events', "closed") /\ Followed(ops')
    BY <2>1 DEF AtMostOne, Followed
  <2>6. TypeOK' /\ ControlInv'
    BY <2>1, <2>2, <2>3 DEF WsInv, TypeOK, ControlInv
  <2>7. ClosedInv' /\ NoMixedMessage'
    BY <2>1, <2>2, <2>4, <2>5 DEF ClosedInv, NoMixedMessage
  <2>8. ConnectInv' /\ AttachedInv'
    BY <2>1, <2>3, <2>4, <2>5 DEF WsInv, ConnectInv, AttachedInv, OneSource
  <2> QED
    BY <2>6, <2>7, <2>8 DEF WsInv
<1> QED
  BY <1>1, <1>2, <1>3, <1>4, <1>5 DEF GameStep

-----------------------------------------------------------------------------
(* The theorems                                                            *)

LEMMA WsInvInit == Init => WsInv
<1> SUFFICES ASSUME Init PROVE WsInv
  OBVIOUS
<1>1. \A x : ~Contains(ops, x) /\ ~Contains(events, x)
  BY DEF Init, Contains
<1>2. AtMostOne(ops, "connect") /\ AtMostOne(events, "closed")
  BY DEF Init, AtMostOne
<1>3. conn \in Connection
  BY DEF Init, Fresh, Connection, States
<1>4. /\ ~conn.reg /\ ~conn.poll /\ ~conn.recTimer /\ conn.easy = "none" /\ conn.buf = "none"
      /\ ~conn.closeTimer /\ ~conn.pingTimer /\ ~conn.closePushed /\ conn.st = "CREATED"
  BY DEF Init, Fresh
<1>5. TypeOK
  <2>1. /\ loaded \in BOOLEAN /\ hclosed \in BOOLEAN /\ pingOn \in BOOLEAN
        /\ stopFlag \in BOOLEAN /\ asked \in BOOLEAN
    BY Zenon DEF Init
  <2> QED
    BY <1>3, <2>1 DEF Init, TypeOK
<1>6. ControlInv /\ ConnectInv
  BY <1>1, <1>2, <1>4 DEF Init, ControlInv, ConnectInv
<1>7. AttachedInv /\ ClosedInv /\ NoMixedMessage
  BY <1>1, <1>2, <1>4 DEF Init, AttachedInv, OneSource, ClosedInv, NoMixedMessage
<1> QED
  BY <1>5, <1>6, <1>7 DEF WsInv

LEMMA WsInvStep == "ConnectInClose" \notin Habits /\ WsInv /\ [Next]_vars => WsInv'
<1> SUFFICES ASSUME "ConnectInClose" \notin Habits, WsInv, [Next]_vars PROVE WsInv'
  OBVIOUS
<1>1. CASE UNCHANGED vars
  <2>1. UNCHANGED <<gameVars, pingOn, conn, ops, events, flags, loopVars>>
    BY <1>1 DEF vars
  <2>2. TypeOK' /\ ControlInv'
    BY <2>1 DEF gameVars, loopVars, WsInv, TypeOK, ControlInv
  <2>3. ClosedInv' /\ NoMixedMessage'
    BY <2>1 DEF gameVars, WsInv, ClosedInv, NoMixedMessage
  <2>4. ConnectInv' /\ AttachedInv'
    BY <2>1 DEF gameVars, WsInv, ConnectInv, AttachedInv, OneSource
  <2> QED
    BY <2>2, <2>3, <2>4 DEF WsInv
<1> QED
  BY <1>1, GameNativeKeepsInv, GameStepKeepsInv, EventStepKeepsInv DEF Next, Unloaded

LEMMA WsInvariant == ("ConnectInClose" \notin Habits) /\ Spec => []WsInv
<1>1. SUFFICES ASSUME "ConnectInClose" \notin Habits PROVE Spec => []WsInv
  OBVIOUS
<1>2. WsInv /\ [Next]_vars => WsInv'
  BY <1>1, WsInvStep
<1> QED
  BY <1>2, WsInvInit, PTL DEF Spec

\* When a plugin connects its socket once, a registered connection always has
\* exactly one thing that will move it on, whatever the peer, the timers and the
\* natives do in whatever order.
THEOREM ConnectionHasOneSource == ("ConnectInClose" \notin Habits) /\ Spec => []ConnInv
<1>1. WsInv => ConnInv
  BY DEF WsInv, AttachedInv, ConnInv
<1> QED
  BY <1>1, WsInvariant, PTL

\* The event thread has let go of the object in the step that sends WS_CLOSED, so
\* the game thread may delete it after the callback.
THEOREM ObjectLetGo == ("ConnectInClose" \notin Habits) /\ Spec => []LetGo
<1>1. ASSUME WsInv PROVE LetGo
  <2> SUFFICES ASSUME obj = "freed" \/ evt = "closed" \/ Contains(events, "closed")
               PROVE  ~Held
    BY DEF LetGo
  <2>1. CASE gpc = "unloaded"
    <3>1. ~Contains(ops, "connect")
      BY <1>1, <2>1 DEF WsInv, ControlInv, Contains
    <3>2. ~conn.closeTimer /\ ~conn.pingTimer
      BY <1>1, <2>1 DEF WsInv, ControlInv, AttachedInv
    <3> QED
      BY <1>1, <2>1, <3>1, <3>2 DEF WsInv, ControlInv, Held
  <2>2. CASE gpc # "unloaded"
    <3>1. conn.closePushed
      BY <1>1, <2>2 DEF WsInv, ClosedInv
    <3>2. ~conn.reg /\ ~Contains(ops, "connect")
      BY <1>1, <3>1 DEF WsInv, AttachedInv, ConnectInv
    <3>3. /\ conn.easy = "none" /\ ~conn.poll /\ ~conn.recTimer
          /\ ~conn.closeTimer /\ ~conn.pingTimer
      BY <1>1, <2>2, <3>2 DEF WsInv, AttachedInv, OneSource
    <3> QED
      BY <1>1, <3>2, <3>3 DEF WsInv, ControlInv, Held
  <2> QED
    BY <2>1, <2>2
<1> QED
  BY <1>1, WsInvariant, PTL

\* WS_CLOSED is sent at most once, whichever of Close, unload, the peer, the
\* handshake timer and the reconnect timer sees the end of the connection.
THEOREM ClosedSentOnce == ("ConnectInClose" \notin Habits) /\ Spec => []ClosedOnce
<1>1. ASSUME WsInv PROVE ClosedOnce
  <2> DEFINE S == {i \in DOMAIN events : events[i] = "closed"}
  <2>1. CASE Contains(events, "closed")
    <3>1. PICK i \in DOMAIN events : events[i] = "closed"
      BY <2>1 DEF Contains
    <3>2. S = {i}
      BY <1>1, <3>1 DEF WsInv, ClosedInv, AtMostOne
    <3>3. Cardinality(S) = 1
      BY <3>2, FS_Singleton
    <3>4. evt # "closed" /\ obj # "freed"
      BY <1>1, <2>1 DEF WsInv, ClosedInv
    <3> QED
      BY <3>3, <3>4 DEF ClosedOnce
  <2>2. CASE ~Contains(events, "closed")
    <3>1. S = {}
      BY <2>2 DEF Contains
    <3>2. Cardinality(S) = 0
      BY <3>1, FS_EmptySet
    <3>3. ~(evt = "closed" /\ obj = "freed")
      BY <1>1 DEF WsInv, ClosedInv
    <3> QED
      BY <3>2, <3>3 DEF ClosedOnce
  <2> QED
    BY <2>1, <2>2
<1> QED
  BY <1>1, WsInvariant, PTL

\* However often the connection is lost in the middle of a message, a message
\* handed to the plugin holds frames of one connection only.
THEOREM MessagesUnmixed == ("ConnectInClose" \notin Habits) /\ Spec => []NoMixedMessage
<1>1. WsInv => NoMixedMessage
  BY DEF WsInv
<1> QED
  BY <1>1, WsInvariant, PTL
=============================================================================
