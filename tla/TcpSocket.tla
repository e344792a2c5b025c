------------------------------ MODULE TcpSocket ------------------------------
(***************************************************************************)
(* TCP sockets of async2: clients, listeners and the sockets a listener    *)
(* accepts, from async2_TcpNew or the accept to the deletion of TcpSocket. *)
(*                                                                         *)
(* The GAME thread runs the natives and dispatches socket events; it sets  *)
(* handle_closed directly and sends the rest as TcpOps.  The EVENT thread  *)
(* owns uv_handle, state and tcp_sockets_.  The object is deleted by the   *)
(* game thread once it has dispatched TCP_CLOSED.                          *)
(*                                                                         *)
(* Plugins are assumed to connect a socket again only when an attempt on   *)
(* it failed and it was not bound, to bind a literal address, and to close *)
(* only what they connected, bound, listened on or accepted.               *)
(***************************************************************************)
EXTENDS Naturals, Sequences, FiniteSets

CONSTANTS
    Sock,       \* TcpSocket objects, each with a handle id of its own
    Created,    \* bound: the objects TcpNew makes; the others are for accepts
    None,
    MaxOps,     \* bound: ops in tcp_op_queue when a native adds one
    MaxEvents   \* bound: events in socket_done_queue when the peer or a native,
                \* through an error, adds one

ASSUME TcpAssumption ==
    /\ None \notin Sock /\ Created \subseteq Sock
    /\ MaxOps \in Nat /\ MaxEvents \in Nat

States == {"CREATED", "RESOLVING", "CONNECTING", "CONNECTED", "LISTENING",
           "CLOSING", "CLOSED"}
OpTypes == {"connect", "bind", "listen", "send", "option", "close", "accept"}
EventTypes == {"connected", "accepted", "data", "error", "closed"}

VARIABLES
    sock,     \* the TcpSocket objects, and what leads to them
    ops,      \* tcp_op_queue
    events,   \* socket_done_queue
    flags,    \* pending flags of async_stop_ and async_tcp_op_; "stopping" is
              \* uv_stop
    loaded,   \* the plugin is in g_plugin_contexts
    gpc, evt, \* game thread: control, and the event being dispatched
    closing,  \* socket whose handle_closed is set and whose CLOSE op is to come
    todo,     \* handles OnPluginUnloaded has yet to close
    epc,      \* event thread: control; "undefined" after a use of freed memory
    esock     \* event thread: the socket OnTcpClosed works on

gameVars == <<loaded, gpc, evt, closing, todo>>
loopVars == <<epc, esock>>
vars == <<sock, ops, events, flags, gameVars, loopVars>>

(***************************************************************************)
(* obj: memory.  id: the handle id is assigned.  uv: what uv_handle points *)
(* to.  closing: uv_close was called on it with OnTcpClosed.  creq, wreq:  *)
(* a connect or write request is with libuv.  res: DNS queries under way.  *)
(* reg: in tcp_sockets_.  cb: the callbacks in the object, "set" when they *)
(* are the plugin's latest.  user: what the plugin knows.                  *)
(***************************************************************************)
Unused == [obj |-> "none", id |-> FALSE, hclosed |-> FALSE, st |-> "CREATED",
           uv |-> "none", reading |-> FALSE, closing |-> FALSE, creq |-> FALSE,
           wreq |-> FALSE, res |-> {}, reg |-> FALSE, cb |-> "first", user |-> "new"]

NoEvent == [type |-> "none", s |-> None, hclosed |-> FALSE, client |-> None]
Event(t, s, hc) == [type |-> t, s |-> s, hclosed |-> hc, client |-> None]
Op(t, s) == [type |-> t, s |-> s, cb |-> "first"]

Sockets ==
    [obj : {"none", "live", "freed"}, id : BOOLEAN, hclosed : BOOLEAN,
     st : States, uv : {"none", "idle", "open", "listening"},
     reading : BOOLEAN, closing : BOOLEAN, creq : BOOLEAN,
     wreq : BOOLEAN, res : SUBSET {"connect", "listen"},
     reg : BOOLEAN, cb : {"first", "set"},
     user : {"new", "bound", "boundwait", "waiting", "failed", "open", "server"}]
Ops == [type : OpTypes, s : Sock, cb : {"first", "set"}]
Events == [type : EventTypes, s : Sock, hclosed : BOOLEAN, client : Sock \cup {None}]

TypeOK ==
    /\ sock \in [Sock -> Sockets]
    /\ ops \in Seq(Ops)
    /\ events \in Seq(Events)
    /\ flags \subseteq {"stop", "tcp", "stopping"}
    /\ loaded \in BOOLEAN
    /\ gpc \in {"idle", "callback", "joining", "unloaded"}
    /\ evt = NoEvent \/ evt \in Events
    /\ closing \in Sock \cup {None}
    /\ todo \subseteq Sock
    /\ epc \in {"poll", "draining", "erase", "undefined", "exited"}
    /\ esock \in Sock \cup {None}

Init ==
    /\ sock = [s \in Sock |-> Unused]
    /\ ops = <<>> /\ events = <<>> /\ flags = {}
    /\ loaded = TRUE /\ gpc = "idle" /\ evt = NoEvent /\ closing = None /\ todo = {}
    /\ epc = "poll" /\ esock = None

-----------------------------------------------------------------------------
(* Game thread                                                             *)

\* GetTcpSocket for a plugin that is running
InNative(s) ==
    /\ loaded /\ gpc \in {"idle", "callback"} /\ closing = None /\ todo = {}
    /\ sock[s].obj = "live" /\ sock[s].id

\* The push waits while OnAsyncTcpOp holds the lock of the queue
EnqueueTcpOp(op) ==
    /\ epc # "draining"
    /\ ops' = Append(ops, op)
    /\ flags' = flags \cup {"tcp"}

\* A native that only enqueues, and what the plugin then knows of the socket
Enqueues(op, user) ==
    /\ InNative(op.s)
    /\ Len(ops) < MaxOps /\ Len(events) < MaxEvents
    /\ EnqueueTcpOp(op)
    /\ sock' = [sock EXCEPT ![op.s].user = user]
    /\ UNCHANGED <<events, gameVars, loopVars>>

Native_TcpNew(s) ==
    /\ loaded /\ gpc \in {"idle", "callback"} /\ closing = None /\ todo = {}
    /\ s \in Created /\ sock[s].obj = "none"
    /\ sock' = [sock EXCEPT ![s].obj = "live", ![s].id = TRUE]
    /\ UNCHANGED <<ops, events, flags, gameVars, loopVars>>

\* Callbacks of a socket the plugin made are set before it is used
Native_TcpSetCallbacks(s) ==
    /\ InNative(s)
    /\ s \notin Created /\ sock[s].cb = "first"
    /\ sock' = [sock EXCEPT ![s].cb = "set"]
    /\ UNCHANGED <<ops, events, flags, gameVars, loopVars>>

Native_TcpConnect(s) ==
    /\ sock[s].user \in {"new", "bound", "failed"} /\ ~sock[s].hclosed
    /\ Enqueues(Op("connect", s), IF sock[s].user = "bound" THEN "boundwait" ELSE "waiting")

Native_TcpBind(s) == sock[s].user = "new" /\ Enqueues(Op("bind", s), "bound")

Native_TcpListen(s) == sock[s].user = "new" /\ Enqueues(Op("listen", s), "server")

\* One write per socket at a time
Native_TcpSend(s) ==
    /\ sock[s].user = "open" /\ ~sock[s].hclosed
    /\ ~sock[s].wreq /\ \A i \in DOMAIN ops : ops[i] # Op("send", s)
    /\ Enqueues(Op("send", s), sock[s].user)

Native_TcpSetOption(s) ==
    sock[s].user = "open" /\ ~sock[s].hclosed /\ Enqueues(Op("option", s), sock[s].user)

\* handle_closed is set at once, the CLOSE op follows.  A second CLOSE op comes
\* from OnPluginUnloaded.
Native_TcpClose(s) ==
    /\ InNative(s)
    /\ sock[s].user # "new" /\ ~sock[s].hclosed
    /\ sock' = [sock EXCEPT ![s].hclosed = TRUE]
    /\ closing' = s
    /\ UNCHANGED <<ops, events, flags, loaded, gpc, evt, todo, loopVars>>

EnqueueClose ==
    /\ closing # None
    /\ EnqueueTcpOp(Op("close", closing))
    /\ closing' = None
    /\ UNCHANGED <<sock, events, loaded, gpc, evt, todo, loopVars>>

OnPluginUnloaded ==
    /\ loaded /\ gpc = "idle" /\ closing = None
    /\ loaded' = FALSE
    /\ todo' = {s \in Sock : sock[s].obj = "live" /\ sock[s].id}
    /\ UNCHANGED <<sock, ops, events, flags, gpc, evt, closing, loopVars>>

CloseNext(s) ==
    /\ closing = None
    /\ s \in todo
    /\ sock' = [sock EXCEPT ![s].hclosed = TRUE]
    /\ closing' = s
    /\ todo' = todo \ {s}
    /\ UNCHANGED <<ops, events, flags, loaded, gpc, evt, loopVars>>

Dispatches(t) ==
    /\ gpc = "idle" /\ closing = None /\ todo = {}
    /\ events # <<>> /\ Head(events).type \in t
    /\ events' = Tail(events)
    /\ UNCHANGED <<loaded, closing, todo, loopVars>>

\* Of what a closed socket still reports, only the close is dispatched
DispatchSkip ==
    /\ Dispatches(EventTypes \ {"closed"})
    /\ Head(events).hclosed
    /\ UNCHANGED <<sock, ops, flags, gpc, evt>>

Learns(user, t) ==
    CASE t = "connected" -> "open"
      [] t = "error" /\ user = "waiting" -> "failed"
      [] OTHER -> user

\* DispatchSocketEvent up to the callback, which an unloaded plugin does not get
DispatchSocketEvent ==
    /\ Dispatches(EventTypes \ {"accepted"})
    /\ Head(events).type = "closed" \/ ~Head(events).hclosed
    /\ sock' = [sock EXCEPT ![Head(events).s].user = Learns(@, Head(events).type)]
    /\ gpc' = "callback" /\ evt' = Head(events)
    /\ UNCHANGED <<ops, flags>>

\* An accepted socket gets its handle, and an op that registers it and carries
\* the callbacks it has now; onAccept runs after that
DispatchAccepted ==
    /\ Dispatches({"accepted"})
    /\ LET c == Head(events).client
       IN /\ sock' = [sock EXCEPT ![c].id = TRUE, ![c].user = "open"]
          /\ EnqueueTcpOp([type |-> "accept", s |-> c, cb |-> sock[c].cb])
    /\ gpc' = "callback" /\ evt' = Head(events)

\* The handle table is full: the object goes, its uv_handle does not
DispatchAcceptedFails ==
    /\ Dispatches({"accepted"})
    /\ sock' = [sock EXCEPT ![Head(events).client].obj = "freed"]
    /\ UNCHANGED <<ops, flags, gpc, evt>>

\* The rest of DispatchSocketEvent: FreeHandle after a close event
DispatchReturn ==
    /\ gpc = "callback" /\ closing = None
    /\ gpc' = "idle" /\ evt' = NoEvent
    /\ sock' = IF evt.type = "closed" THEN [sock EXCEPT ![evt.s].obj = "freed"] ELSE sock
    /\ UNCHANGED <<ops, events, flags, loaded, closing, todo, loopVars>>

SDK_OnUnload ==
    /\ gpc = "idle" /\ closing = None /\ todo = {}
    /\ gpc' = "joining"
    /\ flags' = flags \cup {"stop"}
    /\ UNCHANGED <<sock, ops, events, loaded, evt, closing, todo, loopVars>>

\* EventLoop::Stop after the join, and CleanHandles: registered sockets lose
\* their uv_handle, queries are cancelled, the queues are drained
StopJoined ==
    /\ gpc = "joining" /\ epc = "exited"
    /\ gpc' = "unloaded"
    /\ sock' = [s \in Sock |->
                  [sock[s] EXCEPT !.uv = IF sock[s].reg THEN "none" ELSE @,
                                  !.res = {},
                                  !.obj = IF sock[s].id /\ @ = "live" THEN "freed" ELSE @]]
    /\ ops' = <<>> /\ events' = <<>>
    /\ UNCHANGED <<flags, loaded, evt, closing, todo, loopVars>>

-----------------------------------------------------------------------------
(* Event thread: what becomes of a socket r, and the events it reports     *)

Out(r, es) == [r |-> r, es |-> es]

\* uv_handle is made if there is none
WithHandle(r) == [r EXCEPT !.uv = IF @ = "none" THEN "idle" ELSE @]

\* CloseTcpHandle: uv_handle is cleared before libuv has closed it
CloseTcpHandle(r) == [r EXCEPT !.uv = "none"]

\* A resolver callback finds the socket by its handle id
Resolved(r, outcomes) == IF ~r.reg \/ r.hclosed THEN {Out(r, <<>>)} ELSE outcomes

\* The lookup, or uv_tcp_connect, fails; or the attempt begins
ConnectResolved(r) ==
    LET c == [WithHandle(r) EXCEPT !.st = "CONNECTING"]
    IN Resolved(r, {Out(r, <<"error">>), Out(c, <<"error">>),
                    Out([c EXCEPT !.creq = TRUE], <<>>)})

BindResolved(r) ==
    LET b == WithHandle(r)
    IN Resolved(r, {Out(r, <<"error">>), Out(CloseTcpHandle(b), <<"error">>), Out(b, <<>>)})

\* Listen always makes a handle
ListenResolved(r) ==
    Resolved(r, {Out(r, <<"error">>), Out(CloseTcpHandle(r), <<"error">>),
                 Out([r EXCEPT !.uv = "listening", !.st = "LISTENING"], <<>>)})

Apply(s, o) ==
    /\ sock' = [sock EXCEPT ![s] = o.r]
    /\ events' = events \o [i \in DOMAIN o.es |-> Event(o.es[i], s, o.r.hclosed)]

-----------------------------------------------------------------------------
(* Event thread: the ops                                                   *)

OnAsyncStop ==
    /\ epc = "poll" /\ "stop" \in flags
    /\ flags' = (flags \ {"stop"}) \cup {"stopping"}
    /\ UNCHANGED <<sock, ops, events, gameVars, loopVars>>

OnAsyncTcpOpEnter ==
    /\ epc = "poll" /\ "tcp" \in flags
    /\ epc' = "draining"
    /\ flags' = flags \ {"tcp"}
    /\ UNCHANGED <<sock, ops, events, gameVars, esock>>

OnAsyncTcpOpExit ==
    /\ epc = "draining" /\ ops = <<>>
    /\ epc' = "poll"
    /\ UNCHANGED <<sock, ops, events, flags, gameVars, esock>>

TakeOp(t, s) ==
    /\ epc = "draining" /\ ops # <<>> /\ Head(ops).type = t /\ Head(ops).s = s
    /\ ops' = Tail(ops)
    /\ UNCHANGED <<flags, gameVars, loopVars>>

\* emplace with socket_ptr
Registered(s) == [sock[s] EXCEPT !.reg = TRUE]

\* A closed socket is registered all the same: its CLOSE op will find it.
\* A literal or cached address is resolved at once, any other by a query.
Opens(t, s, r, outcomes) ==
    /\ TakeOp(t, s)
    /\ IF r.hclosed
       THEN Apply(s, Out(r, <<>>))
       ELSE \/ \E o \in outcomes : Apply(s, o)
            \/ t # "bind" /\ Apply(s, Out([r EXCEPT !.res = @ \cup {t}], <<>>))

\* Variant: a socket closed meanwhile is not registered.
ProcessTcpConnectSkipsClosed(s) ==
    LET r == Registered(s)
    IN IF r.hclosed
       THEN TakeOp("connect", s) /\ UNCHANGED <<sock, events>>
       ELSE Opens("connect", s, [r EXCEPT !.st = "RESOLVING"],
                  ConnectResolved([r EXCEPT !.st = "RESOLVING"]))

ProcessTcpConnect(s) ==
    LET g == Registered(s)
        r == IF g.hclosed THEN g ELSE [g EXCEPT !.st = "RESOLVING"]
    IN Opens("connect", s, r, ConnectResolved(r))

ProcessTcpBind(s) == Opens("bind", s, Registered(s), BindResolved(Registered(s)))

ProcessTcpListen(s) == Opens("listen", s, Registered(s), ListenResolved(Registered(s)))

\* The callbacks travel with the op; reading starts now that there is an id
ProcessTcpAcceptConfig(s) ==
    /\ TakeOp("accept", s)
    /\ LET r == [Registered(s) EXCEPT !.cb = Head(ops).cb]
       IN sock' = [sock EXCEPT ![s] = IF r.uv # "none" /\ ~r.hclosed
                                      THEN [r EXCEPT !.reading = TRUE] ELSE r]
    /\ UNCHANGED events

\* The data is with libuv, or could not be sent, or is dropped
ProcessTcpSend(s) ==
    /\ TakeOp("send", s)
    /\ LET r == sock[s]
       IN IF r.reg /\ ~r.hclosed /\ r.st = "CONNECTED" /\ r.uv # "none"
          THEN \E o \in {Out([r EXCEPT !.wreq = TRUE], <<>>), Out(r, <<"error">>)} : Apply(s, o)
          ELSE UNCHANGED <<sock, events>>

\* Chunk and buffer sizes are left out
ProcessTcpSetOption(s) == TakeOp("option", s) /\ UNCHANGED <<sock, events>>

CanClose(r) == r.reg /\ r.st \notin {"CLOSING", "CLOSED"}

\* Variant: a socket that is not in the table is reported closed, too.
ProcessTcpCloseUnknown(s) ==
    /\ TakeOp("close", s)
    /\ LET r == sock[s]
       IN IF r.reg /\ ~CanClose(r)
          THEN UNCHANGED <<sock, events>>
          ELSE Apply(s, IF r.uv # "none"
                        THEN Out([r EXCEPT !.st = "CLOSING", !.reading = FALSE,
                                           !.closing = TRUE], <<>>)
                        ELSE Out([r EXCEPT !.st = "CLOSED", !.reg = FALSE], <<"closed">>))

ProcessTcpClose(s) ==
    /\ TakeOp("close", s)
    /\ LET r == sock[s]
       IN IF ~CanClose(r)
          THEN UNCHANGED <<sock, events>>
          ELSE Apply(s, IF r.uv # "none"
                        THEN Out([r EXCEPT !.st = "CLOSING", !.reading = FALSE,
                                           !.closing = TRUE], <<>>)
                        ELSE Out([r EXCEPT !.st = "CLOSED", !.reg = FALSE], <<"closed">>))

-----------------------------------------------------------------------------
(* Event thread: callbacks of the resolver and of libuv                    *)

InLoop == epc = "poll" /\ UNCHANGED <<ops, flags, gameVars, loopVars>>
Room == Len(events) < MaxEvents

OnResolved(s, t) ==
    /\ InLoop /\ t \in sock[s].res
    /\ LET r == [sock[s] EXCEPT !.res = @ \ {t}]
       IN \E o \in (IF t = "connect" THEN ConnectResolved(r) ELSE ListenResolved(r)) :
             Apply(s, o)

\* libuv cancels the requests of a handle before its close callback
OnTcpConnected(s) ==
    /\ InLoop /\ sock[s].creq
    /\ LET r == [sock[s] EXCEPT !.creq = FALSE]
       IN IF r.hclosed
          THEN Apply(s, Out(r, <<>>))
          ELSE \/ Apply(s, Out(r, <<"error">>))
               \/ /\ ~r.closing
                  /\ Apply(s, Out([r EXCEPT !.st = "CONNECTED", !.uv = "open",
                                            !.reading = TRUE], <<"connected">>))

OnTcpWriteDone(s) ==
    /\ InLoop /\ sock[s].wreq
    /\ LET r == [sock[s] EXCEPT !.wreq = FALSE]
       IN \/ Apply(s, Out(r, <<>>))
          \/ ~r.hclosed /\ Apply(s, Out(r, <<"error">>))

\* OnTcpRead: a chunk, unless the socket was closed
TcpReadData(s) ==
    /\ InLoop /\ Room
    /\ sock[s].reading /\ ~sock[s].hclosed
    /\ Apply(s, Out(sock[s], <<"data">>))

\* Variant: reading does not stop.
TcpReadEofKeepsReading(s) ==
    /\ InLoop
    /\ sock[s].reading
    /\ Apply(s, Out([sock[s] EXCEPT !.st = "CLOSING", !.closing = TRUE], <<>>))

TcpReadEof(s) ==
    /\ InLoop
    /\ sock[s].reading
    /\ Apply(s, Out([sock[s] EXCEPT !.reading = FALSE, !.st = "CLOSING", !.closing = TRUE],
                    <<>>))

\* An error is reported and nothing else; libuv stops reading
TcpReadError(s) ==
    /\ InLoop
    /\ sock[s].reading
    /\ Apply(s, Out([sock[s] EXCEPT !.reading = FALSE], <<"error">>))

OnTcpNewConnection(s, c) ==
    /\ InLoop /\ Room
    /\ sock[s].uv = "listening" /\ ~sock[s].closing /\ ~sock[s].hclosed
    /\ c \notin Created /\ sock[c].obj = "none"
    /\ sock' = [sock EXCEPT ![c] = [Unused EXCEPT !.obj = "live", !.st = "CONNECTED",
                                                  !.uv = "open", !.cb = sock[s].cb]]
    /\ events' = Append(events, [Event("accepted", s, FALSE) EXCEPT !.client = c])

OnTcpClosedPushes(s) ==
    /\ epc = "poll"
    /\ sock[s].closing /\ ~sock[s].creq /\ ~sock[s].wreq
    /\ Apply(s, Out([sock[s] EXCEPT !.st = "CLOSED", !.uv = "none", !.closing = FALSE],
                    <<"closed">>))
    /\ epc' = "erase" /\ esock' = s
    /\ UNCHANGED <<ops, flags, gameVars>>

\* Variant: the entry is left in the table.
OnTcpClosedErasesNothing ==
    /\ epc = "erase"
    /\ epc' = IF sock[esock].obj = "freed" THEN "undefined" ELSE "poll"
    /\ esock' = None
    /\ UNCHANGED <<sock, ops, events, flags, gameVars>>

\* handle_id is read from the object after the event was pushed.  When the game
\* thread has freed it by then, nothing is said of what the thread does next.
OnTcpClosedErases ==
    /\ epc = "erase"
    /\ epc' = IF sock[esock].obj = "freed" THEN "undefined" ELSE "poll"
    /\ sock' = [sock EXCEPT ![esock].reg = FALSE]
    /\ esock' = None
    /\ UNCHANGED <<ops, events, flags, gameVars>>

\* Handles being closed are closed before the loop looks at uv_stop
EventExit ==
    /\ epc = "poll" /\ "stopping" \in flags
    /\ \A s \in Sock : ~sock[s].closing
    /\ epc' = "exited"
    /\ UNCHANGED <<sock, ops, events, flags, gameVars, esock>>

Ended == (gpc = "unloaded" \/ epc = "undefined") /\ UNCHANGED vars

-----------------------------------------------------------------------------
GameNative(s) ==
    \/ Native_TcpNew(s) \/ Native_TcpSetCallbacks(s) \/ Native_TcpConnect(s)
    \/ Native_TcpBind(s) \/ Native_TcpListen(s) \/ Native_TcpSend(s)
    \/ Native_TcpSetOption(s) \/ Native_TcpClose(s)

Dispatch ==
    DispatchSkip \/ DispatchSocketEvent \/ DispatchAccepted \/ DispatchAcceptedFails

GameStep == EnqueueClose \/ StopJoined \/ \E s \in Sock : CloseNext(s)

ProcessOp(s) ==
    \/ ProcessTcpConnect(s) \/ ProcessTcpBind(s) \/ ProcessTcpListen(s)
    \/ ProcessTcpAcceptConfig(s) \/ ProcessTcpSend(s) \/ ProcessTcpSetOption(s)
    \/ ProcessTcpClose(s)

EventWalk ==
    \/ OnAsyncStop \/ OnAsyncTcpOpEnter \/ OnAsyncTcpOpExit
    \/ \E s \in Sock : ProcessOp(s)

CloseCallbacks(s) == OnTcpConnected(s) \/ OnTcpWriteDone(s) \/ OnTcpClosedPushes(s)

Peer(s) ==
    \/ TcpReadData(s) \/ TcpReadEof(s) \/ TcpReadError(s)
    \/ \E t \in {"connect", "listen"} : OnResolved(s, t)
    \/ \E c \in Sock : OnTcpNewConnection(s, c)

Next ==
    \/ \E s \in Sock : GameNative(s) \/ Peer(s) \/ CloseCallbacks(s)
    \/ GameStep \/ Dispatch \/ DispatchReturn \/ OnPluginUnloaded \/ SDK_OnUnload
    \/ EventWalk \/ OnTcpClosedErases \/ EventExit \/ Ended

Spec == Init /\ [][Next]_vars

\* The game runs its frames and callbacks return, whatever natives the plugin
\* calls in between; the loop walks its async
\* handles and, in every iteration, cancels the requests of the handles being
\* closed and runs their close callbacks.  The peer and the resolver owe nothing.
Fairness ==
    /\ WF_vars(GameStep)
    /\ SF_vars(Dispatch)
    /\ WF_vars(DispatchReturn)
    /\ WF_vars(EventWalk)
    /\ SF_vars(\E s \in Sock : sock[s].closing /\ CloseCallbacks(s))
    /\ WF_vars(OnTcpClosedErases)
    /\ WF_vars(EventExit)

FairSpec == Spec /\ Fairness

-----------------------------------------------------------------------------
(* Properties                                                              *)

ClosedEvents(s) ==
    Cardinality({i \in DOMAIN events : events[i].type = "closed" /\ events[i].s = s})
        + (IF evt.type = "closed" /\ evt.s = s THEN 1 ELSE 0)

\* What leads the event thread to the object
Held(s) ==
    \/ sock[s].closing \/ sock[s].creq \/ sock[s].wreq \/ sock[s].reading
    \/ sock[s].uv = "listening"
    \/ \E i \in DOMAIN ops : ops[i].s = s /\ ops[i].type \in {"connect", "bind", "listen", "accept"}

\* Once TCP_CLOSED is on its way to the game thread, which deletes the object
\* after dispatching it, no libuv handle, request or registering op leads to the
\* object, and tcp_sockets_ does so only within OnTcpClosed, which erases it
\* after the push.  That window is the one exception: a frame that runs in it
\* leads to "undefined".
LetGo ==
    \A s \in Sock :
        gpc # "unloaded" /\ (ClosedEvents(s) > 0 \/ sock[s].obj = "freed") =>
            ~Held(s) /\ (sock[s].reg => epc = "erase" /\ esock = s)

\* TCP_CLOSED is sent once, whichever of EOF, Close, unload and a failed attempt
\* comes first.  A second one would free whatever has the handle id by then.
ClosedOnce ==
    \A s \in Sock : ClosedEvents(s) + (IF sock[s].obj = "freed" THEN 1 ELSE 0) <= 1

\* OnTcpConnected and OnTcpWriteDone reach the loop through sock->uv_handle, so
\* it must be there as long as a request is with libuv; and uv_close is called on
\* a handle once, when the socket enters CLOSING, after which nothing is read.
\* Stop clears uv_handle while requests are out and is excepted.
RequestsHaveHandle ==
    \A s \in Sock :
        gpc # "unloaded" =>
            /\ (sock[s].creq \/ sock[s].wreq \/ sock[s].closing) => sock[s].uv # "none"
            /\ sock[s].closing <=> sock[s].st = "CLOSING"
            /\ sock[s].closing => ~sock[s].reading

\* An accepted socket is read from only when it has its handle id and its entry
\* in the table, so that no event is reported for id 0 and a Close will find it.
ReadsOnlyRegistered ==
    \A s \in Sock : gpc # "unloaded" /\ sock[s].reading => sock[s].id /\ sock[s].reg

\* The fields have their types, requests have their handle, and what is read has
\* its id: what every libuv callback takes for granted of the socket it is given.
SocketInv == TypeOK /\ RequestsHaveHandle /\ ReadsOnlyRegistered

\* Closing a socket that was connected, bound, listened on or accepted, by Close
\* or by unloading the plugin, ends with the object freed, whatever the peer and
\* the resolver do.  (CLOSE finds nothing of a socket that was only created: its
\* object stays until the extension is unloaded.)
CloseAnswered ==
    \A s \in Sock :
        (sock[s].hclosed /\ sock[s].user # "new")
            ~> (sock[s].obj = "freed" \/ epc = "undefined")

\* What tcp.inc says of onAccept: "Set new callbacks on the client handle if
\* needed."
CallbacksKept == [][\A s \in Sock : sock[s].cb = "set" => sock'[s].cb = "set"]_vars
=============================================================================
