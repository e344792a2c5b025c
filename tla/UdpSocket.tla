------------------------------ MODULE UdpSocket ------------------------------
(***************************************************************************)
(* UDP sockets of async2 and the resolver they ask, from async2_UdpNew to  *)
(* the deletion of UdpSocket.  Threads and queues are those of TcpSocket:  *)
(* natives and dispatch on the GAME thread, uv_handle, state and           *)
(* udp_sockets_ on the EVENT thread.  The clients of the resolver that are *)
(* not in Sock are TCP sockets.                                            *)
(*                                                                         *)
(* Plugins are assumed to bind a socket once, to send on and to close what *)
(* they bound.                                                             *)
(***************************************************************************)
EXTENDS DnsResolver, SequencesExt

CONSTANTS
    Sock,       \* UdpSocket objects
    Names,      \* bound: the hosts plugins bind to and send to
    None,
    MaxOps,     \* bound: ops in udp_op_queue when a native adds one
    MaxEvents   \* bound: events in socket_done_queue when the peer or a native,
                \* through an error, adds one

ASSUME UdpAssumption ==
    /\ Sock \subseteq Client /\ None \notin Sock /\ Names \subseteq Host \cup {Literal}
    /\ MaxOps \in Nat /\ MaxEvents \in Nat

VARIABLES
    sock,     \* the UdpSocket objects, and what leads to them
    ops,      \* udp_op_queue
    events,   \* socket_done_queue
    flags,    \* pending flags of async_stop_, async_udp_op_ and async_dns_op_, the
              \* last with the SET_TIMEOUTs in dns_op_queue; "stopping" is uv_stop
    loaded,   \* the plugin is in g_plugin_contexts
    gpc,      \* game thread: control
    evt,      \* the socket whose UDP_CLOSED is being dispatched
    closing,  \* socket whose handle_closed is set and whose CLOSE op is to come
    todo,     \* handles OnPluginUnloaded has yet to close
    epc,      \* event thread: control; "undefined" after a use of freed memory
    esock     \* event thread: the socket OnUdpClosed works on

gameVars == <<loaded, gpc, evt, closing, todo>>
loopVars == <<epc, esock>>
vars == <<dnsVars, sock, ops, events, flags, gameVars, loopVars>>

(***************************************************************************)
(* obj: memory.  uv: what uv_handle points to.  closing: uv_close was      *)
(* called on it.  reg: in udp_sockets_.  user: the plugin called Bind.     *)
(***************************************************************************)
Unused == [obj |-> "none", hclosed |-> FALSE, st |-> "CREATED", uv |-> "none",
           closing |-> FALSE, reg |-> FALSE, user |-> "new"]

Event(t, s) == [type |-> t, s |-> s]
Op(t, s, h) == [type |-> t, s |-> s, host |-> h]

Sockets ==
    [obj : {"none", "live", "freed"}, hclosed : BOOLEAN,
     st : {"CREATED", "BOUND", "CLOSING", "CLOSED"}, uv : {"none", "idle", "receiving"},
     closing : BOOLEAN, reg : BOOLEAN, user : {"new", "bound"}]
Ops == [type : {"bind", "send", "option", "close"}, s : Sock, host : Host \cup {Literal}]
Events == [type : {"data", "error", "closed"}, s : Sock]

TypeOK ==
    /\ DnsTypeOK
    /\ sock \in [Sock -> Sockets]
    /\ ops \in Seq(Ops)
    /\ events \in Seq(Events)
    /\ flags \subseteq {"stop", "udp", "dns", "stopping"}
    /\ loaded \in BOOLEAN
    /\ gpc \in {"idle", "callback", "joining", "unloaded"}
    /\ evt \in Sock \cup {None} /\ closing \in Sock \cup {None}
    /\ todo \subseteq Sock
    /\ epc \in {"poll", "draining", "store", "erase", "undefined", "exited"}
    /\ esock \in Sock \cup {None}

Init ==
    /\ DnsInit
    /\ sock = [s \in Sock |-> Unused]
    /\ ops = <<>> /\ events = <<>> /\ flags = {}
    /\ loaded = TRUE /\ gpc = "idle" /\ evt = None /\ closing = None /\ todo = {}
    /\ epc = "poll" /\ esock = None

-----------------------------------------------------------------------------
(* Game thread                                                             *)

Running == loaded /\ gpc \in {"idle", "callback"} /\ closing = None /\ todo = {}

\* The push waits while OnAsyncUdpOp holds the lock of the queue
EnqueueUdpOp(op) ==
    /\ epc # "draining"
    /\ ops' = Append(ops, op)
    /\ flags' = flags \cup {"udp"}

Enqueues(op) ==
    /\ Running /\ sock[op.s].obj = "live" /\ ~sock[op.s].hclosed
    /\ Len(ops) < MaxOps /\ Len(events) < MaxEvents
    /\ EnqueueUdpOp(op)
    /\ sock' = [sock EXCEPT ![op.s].user = "bound"]
    /\ UNCHANGED <<dnsVars, events, gameVars, loopVars>>

Native_UdpNew(s) ==
    /\ Running /\ sock[s].obj = "none"
    /\ sock' = [sock EXCEPT ![s].obj = "live"]
    /\ UNCHANGED <<dnsVars, ops, events, flags, gameVars, loopVars>>

Native_UdpBind(s, h) == sock[s].user = "new" /\ Enqueues(Op("bind", s, h))

\* To a literal address nothing is looked up, and nothing here changes
Native_UdpSend(s, h) ==
    h # Literal /\ sock[s].user = "bound" /\ Enqueues(Op("send", s, h))

\* Options 2 and 3, which are routed to the event thread
Native_UdpSetOption(s) == sock[s].user = "bound" /\ Enqueues(Op("option", s, Literal))

\* handle_closed is set at once, the CLOSE op follows
Native_UdpClose(s) ==
    /\ Running /\ sock[s].obj = "live"
    /\ sock[s].user = "bound" /\ ~sock[s].hclosed
    /\ sock' = [sock EXCEPT ![s].hclosed = TRUE]
    /\ closing' = s
    /\ UNCHANGED <<dnsVars, ops, events, flags, loaded, gpc, evt, todo, loopVars>>

EnqueueClose ==
    /\ closing # None
    /\ EnqueueUdpOp(Op("close", closing, Literal))
    /\ closing' = None
    /\ UNCHANGED <<dnsVars, sock, events, loaded, gpc, evt, todo, loopVars>>

Native_DnsSetTimeout ==
    /\ Running
    /\ flags' = flags \cup {"dns"}
    /\ UNCHANGED <<dnsVars, sock, ops, events, gameVars, loopVars>>

\* The two that change the cache under cache_mutex_, whatever the other thread does
Native_DnsCache ==
    /\ Running
    /\ FlushCache \/ \E t \in Ttls \cup {-1} : SetCacheTtl(t)
    /\ UNCHANGED <<sock, ops, events, flags, gameVars, loopVars>>

OnPluginUnloaded ==
    /\ loaded /\ gpc = "idle" /\ closing = None
    /\ loaded' = FALSE
    /\ todo' = {s \in Sock : sock[s].obj = "live"}
    /\ UNCHANGED <<dnsVars, sock, ops, events, flags, gpc, evt, closing, loopVars>>

CloseNext(s) ==
    /\ closing = None
    /\ s \in todo
    /\ sock' = [sock EXCEPT ![s].hclosed = TRUE]
    /\ closing' = s
    /\ todo' = todo \ {s}
    /\ UNCHANGED <<dnsVars, ops, events, flags, loaded, gpc, evt, loopVars>>

\* DispatchSocketEvent.  The callback for data or an error, which a closed socket
\* does not get, is left to the natives called before the next event; that for a
\* close comes before the rest.
DispatchSocketEvent ==
    /\ gpc = "idle" /\ closing = None /\ todo = {}
    /\ events # <<>>
    /\ events' = Tail(events)
    /\ IF Head(events).type = "closed"
       THEN gpc' = "callback" /\ evt' = Head(events).s
       ELSE UNCHANGED <<gpc, evt>>
    /\ UNCHANGED <<dnsVars, sock, ops, flags, loaded, closing, todo, loopVars>>

\* The rest of DispatchSocketEvent: FreeHandle after a close event
DispatchReturn ==
    /\ gpc = "callback" /\ closing = None
    /\ gpc' = "idle" /\ evt' = None
    /\ sock' = [sock EXCEPT ![evt].obj = "freed"]
    /\ UNCHANGED <<dnsVars, ops, events, flags, loaded, closing, todo, loopVars>>

SDK_OnUnload ==
    /\ gpc = "idle" /\ closing = None /\ todo = {}
    /\ gpc' = "joining"
    /\ flags' = flags \cup {"stop"}
    /\ UNCHANGED <<dnsVars, sock, ops, events, loaded, evt, closing, todo, loopVars>>

\* EventLoop::Stop after the join, and CleanHandles.  The registered sockets lose
\* their uv_handle before Shutdown fails the queries; what those report is
\* drained with the rest.
StopJoined ==
    /\ gpc = "joining" /\ epc = "exited"
    /\ gpc' = "unloaded"
    /\ Shutdown
    /\ sock' = [s \in Sock |->
                  [sock[s] EXCEPT !.uv = IF sock[s].reg THEN "none" ELSE @,
                                  !.obj = IF @ = "live" THEN "freed" ELSE @]]
    /\ ops' = <<>> /\ events' = <<>>
    /\ UNCHANGED <<flags, loaded, evt, closing, todo, loopVars>>

-----------------------------------------------------------------------------
(* Event thread: the callbacks of Resolve                                  *)

Out(r, es) == [r |-> r, es |-> es]

\* The callback finds the socket by its handle id.  Bind makes a uv_handle; it
\* stays, without receiving, when the address cannot be bound.
BindResolved(r, ok) ==
    IF ~r.reg \/ r.hclosed THEN {Out(r, <<>>)}
    ELSE IF ~ok THEN {Out(r, <<"error">>)}
    ELSE {Out([r EXCEPT !.uv = "idle"], <<"error">>),
          Out([r EXCEPT !.uv = "receiving", !.st = "BOUND"], <<>>)}

\* The datagram is with libuv, or dropped: neither is reported
SendResolved(r, ok) ==
    {Out(r, IF ~r.reg \/ r.hclosed \/ r.uv = "none" \/ ok THEN <<>> ELSE <<"error">>)}

Resolved(q, r, ok) ==
    IF q.for = "bind" THEN BindResolved(r, ok) ELSE SendResolved(r, ok)

Apply(s, o) ==
    /\ sock' = [sock EXCEPT ![s] = o.r]
    /\ events' = events \o [i \in DOMAIN o.es |-> Event(o.es[i], s)]

CallBack(q, ok) ==
    IF q.who \in Sock
    THEN \E o \in Resolved(q, sock[q.who], ok) : Apply(q.who, o)
    ELSE UNCHANGED <<sock, events>>

-----------------------------------------------------------------------------
(* Event thread: the ops                                                   *)

OnAsyncStop ==
    /\ epc = "poll" /\ "stop" \in flags
    /\ flags' = (flags \ {"stop"}) \cup {"stopping"}
    /\ UNCHANGED <<dnsVars, sock, ops, events, gameVars, loopVars>>

\* Cancelled queries call back with an error, none of which asks again
OnAsyncDnsOp ==
    /\ epc = "poll" /\ "dns" \in flags
    /\ flags' = flags \ {"dns"}
    /\ \E ok \in BOOLEAN : Reinit(ok)
    /\ LET told == {q \in queries : q.who \in Sock
                      /\ \E o \in Resolved(q, sock[q.who], FALSE) : o.es # <<>>}
           asked == SetToSeq(told)
       IN events' = events \o [i \in DOMAIN asked |-> Event("error", asked[i].who)]
    /\ UNCHANGED <<sock, ops, gameVars, loopVars>>

OnAsyncUdpOpEnter ==
    /\ epc = "poll" /\ "udp" \in flags
    /\ epc' = "draining"
    /\ flags' = flags \ {"udp"}
    /\ UNCHANGED <<dnsVars, sock, ops, events, gameVars, esock>>

OnAsyncUdpOpExit ==
    /\ epc = "draining" /\ ops = <<>>
    /\ epc' = "poll"
    /\ UNCHANGED <<dnsVars, sock, ops, events, flags, gameVars, esock>>

TakeOp(t, s) ==
    /\ epc = "draining" /\ ops # <<>> /\ Head(ops).type = t /\ Head(ops).s = s
    /\ ops' = Tail(ops)
    /\ UNCHANGED <<flags, gameVars, loopVars>>

\* Variant: a socket closed meanwhile is not registered.
ProcessUdpBindSkipsClosed(s) ==
    /\ TakeOp("bind", s)
    /\ LET r == [sock[s] EXCEPT !.reg = TRUE]
           h == Head(ops).host
       IN IF r.hclosed
          THEN UNCHANGED <<sock, events, dnsVars>>
          ELSE IF Immediate(h)
          THEN (\E o \in BindResolved(r, TRUE) : Apply(s, o)) /\ UNCHANGED dnsVars
          ELSE /\ ResolveMiss([who |-> s, for |-> "bind", host |-> h])
               /\ Apply(s, Out(r, <<>>))

\* A closed socket is registered all the same: its CLOSE op will find it
ProcessUdpBind(s) ==
    /\ TakeOp("bind", s)
    /\ LET r == [sock[s] EXCEPT !.reg = TRUE]
           h == Head(ops).host
       IN IF r.hclosed
          THEN Apply(s, Out(r, <<>>)) /\ UNCHANGED dnsVars
          ELSE IF Immediate(h)
          THEN (\E o \in BindResolved(r, TRUE) : Apply(s, o)) /\ UNCHANGED dnsVars
          ELSE /\ ResolveMiss([who |-> s, for |-> "bind", host |-> h])
               /\ Apply(s, Out(r, <<>>))

\* A datagram for a socket that is closed or not bound yet is dropped
ProcessUdpSend(s) ==
    /\ TakeOp("send", s)
    /\ UNCHANGED <<sock, events>>
    /\ LET r == sock[s]
           h == Head(ops).host
       IN IF ~r.reg \/ r.hclosed \/ r.uv = "none" \/ Immediate(h)
          THEN UNCHANGED dnsVars
          ELSE ResolveMiss([who |-> s, for |-> "send", host |-> h])

\* Buffer sizes are left out
ProcessUdpSetOption(s) == TakeOp("option", s) /\ UNCHANGED <<dnsVars, sock, events>>

\* Variant: a socket that is not in the table is reported closed, too.
ProcessUdpCloseUnknown(s) ==
    /\ TakeOp("close", s)
    /\ UNCHANGED dnsVars
    /\ LET r == sock[s]
       IN IF r.reg /\ r.st \in {"CLOSING", "CLOSED"}
          THEN UNCHANGED <<sock, events>>
          ELSE Apply(s, IF r.uv # "none"
                        THEN Out([r EXCEPT !.st = "CLOSING", !.closing = TRUE, !.uv = "idle"],
                                 <<>>)
                        ELSE Out([r EXCEPT !.st = "CLOSED", !.reg = FALSE], <<"closed">>))

ProcessUdpClose(s) ==
    /\ TakeOp("close", s)
    /\ UNCHANGED dnsVars
    /\ LET r == sock[s]
       IN IF ~r.reg \/ r.st \in {"CLOSING", "CLOSED"}
          THEN UNCHANGED <<sock, events>>
          ELSE Apply(s, IF r.uv # "none"
                        THEN Out([r EXCEPT !.st = "CLOSING", !.closing = TRUE, !.uv = "idle"],
                                 <<>>)
                        ELSE Out([r EXCEPT !.st = "CLOSED", !.reg = FALSE], <<"closed">>))

-----------------------------------------------------------------------------
(* Event thread: callbacks of libuv and of c-ares                          *)

InLoop == epc = "poll" /\ UNCHANGED <<ops, flags, gameVars, esock>>
Room == Len(events) < MaxEvents

\* OnUdpRead: a datagram, unless the socket was closed
UdpReadData(s) ==
    /\ InLoop /\ Room
    /\ sock[s].uv = "receiving" /\ ~sock[s].hclosed
    /\ Apply(s, Out(sock[s], <<"data">>))
    /\ UNCHANGED <<dnsVars, epc>>

\* OnUdpRead: an error is reported and receiving goes on
UdpReadError(s) ==
    /\ InLoop /\ Room
    /\ sock[s].uv = "receiving"
    /\ Apply(s, Out(sock[s], <<"error">>))
    /\ UNCHANGED <<dnsVars, epc>>

OnUdpClosedPushes(s) ==
    /\ epc = "poll"
    /\ sock[s].closing
    /\ Apply(s, Out([sock[s] EXCEPT !.st = "CLOSED", !.uv = "none", !.closing = FALSE],
                    <<"closed">>))
    /\ epc' = "erase" /\ esock' = s
    /\ UNCHANGED <<dnsVars, ops, flags, gameVars>>

\* Variant: the entry is left in the table.
OnUdpClosedErasesNothing ==
    /\ epc = "erase"
    /\ epc' = IF sock[esock].obj = "freed" THEN "undefined" ELSE "poll"
    /\ esock' = None
    /\ UNCHANGED <<dnsVars, sock, ops, events, flags, gameVars>>

\* handle_id is read from the object after the event was pushed.  When the game
\* thread has freed it by then, nothing is said of what the thread does next.
OnUdpClosedErases ==
    /\ epc = "erase"
    /\ epc' = IF sock[esock].obj = "freed" THEN "undefined" ELSE "poll"
    /\ sock' = [sock EXCEPT ![esock].reg = FALSE]
    /\ esock' = None
    /\ UNCHANGED <<dnsVars, ops, events, flags, gameVars>>

\* A TCP connect or listen looks a name up, one at a time
TcpResolve(c, h) ==
    /\ InLoop
    /\ ~Hit(h) /\ \A q \in queries : q.who # c
    /\ ResolveMiss([who |-> c, for |-> "connect", host |-> h])
    /\ UNCHANGED <<sock, events, epc>>

\* OnPollActivity: c-ares reads an answer for the cache, or one that is not
\* cached, or learns that there is none
OnPollActivity(q) ==
    /\ InLoop /\ polling
    /\ \/ CompleteToCache(q) /\ epc' = "store" /\ UNCHANGED <<sock, events>>
       \/ \E ok \in BOOLEAN :
             CompleteUncached(q, ok) /\ CallBack(q, ok) /\ UNCHANGED epc

\* OnTimer: an attempt has run out, and with it, sooner or later, a query
OnTimer(q) ==
    /\ InLoop /\ timer
    /\ CompleteUncached(q, FALSE)
    /\ CallBack(q, FALSE)
    /\ UNCHANGED epc

\* A timer left running by Reinit finds nothing to do
OnTimerIdle ==
    /\ InLoop /\ timer /\ queries = {}
    /\ UNCHANGED <<queries, cache, ttl, channel, polling, answer>>
    /\ UpdateTimer
    /\ UNCHANGED <<sock, events, epc>>

\* The rest of OnResolveComplete
ResolveStored ==
    /\ epc = "store"
    /\ StoreAnswer
    /\ CallBack(answer[1], TRUE)
    /\ epc' = "poll"
    /\ UNCHANGED <<ops, flags, gameVars, esock>>

\* A handle being closed is closed before the loop looks at uv_stop
EventExit ==
    /\ epc = "poll" /\ "stopping" \in flags
    /\ \A s \in Sock : ~sock[s].closing
    /\ epc' = "exited"
    /\ UNCHANGED <<dnsVars, sock, ops, events, flags, gameVars, esock>>

\* The clock matters only to what is cached
Time ==
    /\ DOMAIN cache # {} /\ gpc # "unloaded" /\ epc # "undefined"
    /\ Tick
    /\ UNCHANGED <<sock, ops, events, flags, gameVars, loopVars>>

Ended == (gpc = "unloaded" \/ epc = "undefined") /\ UNCHANGED vars

-----------------------------------------------------------------------------
GameNative(s) ==
    \/ Native_UdpNew(s) \/ Native_UdpSetOption(s) \/ Native_UdpClose(s)
    \/ \E h \in Names : Native_UdpBind(s, h) \/ Native_UdpSend(s, h)

GameStep == EnqueueClose \/ DispatchReturn \/ StopJoined \/ \E s \in Sock : CloseNext(s)

\* What every iteration of the loop gets to
EventWalk ==
    \/ OnAsyncStop \/ EventExit \/ OnAsyncUdpOpEnter \/ OnAsyncUdpOpExit
    \/ \E s \in Sock : \/ ProcessUdpBind(s) \/ ProcessUdpSend(s)
                       \/ ProcessUdpSetOption(s) \/ ProcessUdpClose(s)
                       \/ OnUdpClosedPushes(s)

Peer(s) == UdpReadData(s) \/ UdpReadError(s)

Next ==
    \/ \E s \in Sock : GameNative(s) \/ Peer(s)
    \/ Native_DnsSetTimeout \/ Native_DnsCache
    \/ GameStep \/ DispatchSocketEvent \/ OnPluginUnloaded \/ SDK_OnUnload
    \/ EventWalk \/ OnAsyncDnsOp \/ OnUdpClosedErases
    \/ \E c \in Client \ Sock, h \in Host : TcpResolve(c, h)
    \/ \E q \in Queries : OnPollActivity(q) \/ OnTimer(q)
    \/ OnTimerIdle \/ ResolveStored \/ Time \/ Ended

Spec == Init /\ [][Next]_vars

\* The game runs its frames and callbacks return, whatever natives the plugin
\* calls in between; the loop walks its async handles and, in every iteration,
\* runs due timers and close callbacks.  No server answers, and no peer sends.
\* c-ares ends the query whose attempts have run out; every query is among those
\* in the end.
Fairness ==
    /\ WF_vars(GameStep)
    /\ WF_vars(DispatchSocketEvent)
    /\ SF_vars(EventWalk)
    /\ WF_vars(OnUdpClosedErases \/ ResolveStored)
    /\ \A s \in Sock : SF_vars(\E h \in Host : OnTimer([who |-> s, for |-> "bind", host |-> h]))

FairSpec == Spec /\ Fairness

-----------------------------------------------------------------------------
(* Properties                                                              *)

\* The fields have their types, and the cache, whose clients are the sockets here,
\* keeps to its limit and gives out nothing too old (Resolve, OnResolveComplete).
CacheInv == TypeOK /\ CacheWithinLimit /\ CacheFresh

ClosedEvents(s) ==
    Cardinality({i \in DOMAIN events : events[i].type = "closed" /\ events[i].s = s})
        + (IF evt = s THEN 1 ELSE 0)

\* Once UDP_CLOSED is on its way to the game thread, which deletes the object
\* after dispatching it, no uv_handle and no BIND op leads to the object, and
\* udp_sockets_ does so only within OnUdpClosed, which erases it after the push
\* (a frame that runs in that window leads to "undefined").  A uv_handle belongs
\* to a registered socket always: Stop closes no other, and would wait for it.
LetGo ==
    \A s \in Sock :
        /\ gpc # "unloaded" /\ (ClosedEvents(s) > 0 \/ sock[s].obj = "freed") =>
              /\ sock[s].uv = "none" /\ ~sock[s].closing
              /\ \A i \in DOMAIN ops : ops[i].s = s => ops[i].type # "bind"
              /\ sock[s].reg => epc = "erase" /\ esock = s
        /\ sock[s].uv # "none" => sock[s].reg

\* UDP_CLOSED is sent once, though both Close and the unloading of the plugin ask
\* for it and a query may end in between.  A second one would free whatever has
\* the handle id by then.
ClosedOnce ==
    \A s \in Sock : ClosedEvents(s) + (IF sock[s].obj = "freed" THEN 1 ELSE 0) <= 1

\* A Bind is answered: the socket receives, or an error is reported, even when no
\* name server ever answers and the timeouts are changed meanwhile.  So is a Close,
\* by the plugin or by its unloading, whatever the resolver does: it ends with the
\* object freed.  The exceptions are a Reinit that failed, after which nothing is
\* resolved and nothing reported, and the unloading of the extension.
Answered ==
    \A s \in Sock :
        (sock[s].hclosed \/ \E i \in DOMAIN ops : ops[i].type = "bind" /\ ops[i].s = s)
            ~> \/ sock[s].user = "new" \/ sock[s].obj = "freed" \/ epc = "undefined"
               \/ /\ ~sock[s].hclosed
                  /\ \/ sock[s].st = "BOUND" \/ ~channel \/ gpc = "unloaded"
                     \/ \E i \in DOMAIN events : events[i] = Event("error", s)
=============================================================================
