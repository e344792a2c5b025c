---------------------------- MODULE WsConnection ----------------------------
(***************************************************************************)
(* The life of one WebSocket of async2, from async2_WsNew to the deletion  *)
(* of its WsConnection.                                                    *)
(*                                                                         *)
(* The GAME thread runs the natives and dispatches socket events; it sets  *)
(* handle_closed directly and sends everything else as a WsOp.  The EVENT  *)
(* thread owns the connection: the curl attempt, the poll handle, the      *)
(* three timers and the entry in ws_connections_.  The object is deleted   *)
(* by the game thread after it dispatched WS_CLOSED, so the event thread   *)
(* must have let go of it by then.                                         *)
(*                                                                         *)
(* Sockets share nothing but the two queues, which are first in first out, *)
(* so one socket is modelled, with the ops and events that are its own.    *)
(***************************************************************************)
EXTENDS Integers, Sequences, FiniteSets

CONSTANTS
    Limits,     \* values a plugin passes to SetReconnect (-1 is unlimited)
    RecCap,     \* bound: attempts in a row when the limit is -1
    MaxOps,     \* bound: ops in ws_op_queue when a native adds one
    MaxEvents,  \* bound: events in socket_done_queue when the peer adds one, a
                \* send fails or a new attempt starts
    Habits      \* what plugins do beyond connecting a socket once

ASSUME WsAssumption ==
    /\ Limits \subseteq Int
    /\ RecCap \in Nat /\ MaxOps \in Nat /\ MaxEvents \in Nat
    /\ Habits \subseteq {"ConnectInClose", "CloseUnconnected"}

Contains(q, x) == \E i \in DOMAIN q : q[i] = x

States == {"CREATED", "CONNECTING", "CONNECTED", "CLOSING", "CLOSED", "RECONNECTING"}
OpTypes == {"connect", "send", "close", "ping_on", "ping_off"}
EventTypes == {"connected", "message", "mixed", "error", "pong", "closed"}

VARIABLES
    obj,      \* the WsConnection: "none", "live" or "freed"
    loaded,   \* the plugin is in g_plugin_contexts
    hclosed,  \* handle_closed
    maxRec,   \* max_reconnects
    pingOn,   \* ping_interval > 0
    conn,     \* the fields the event thread owns, and reg: in ws_connections_
    ops,      \* ws_op_queue
    events,   \* socket_done_queue
    flags,    \* pending flags of async_stop_ and async_ws_op_
    gpc, evt, \* game thread: control, and the event being dispatched
    epc,      \* event thread: control
    stopFlag, \* uv_stop was called
    asked     \* history: Connect was called

gameVars == <<obj, loaded, hclosed, maxRec, gpc, evt, asked>>
loopVars == <<epc, stopFlag>>
vars == <<gameVars, pingOn, conn, ops, events, flags, loopVars>>

\* easy: "multi" while the attempt runs (in ws_curl_handles_), "open" once
\* connected, "lost" when nobody is left to clean it up.
\* buf: what message_buf_ holds, frames of this connection or of an older one.
Fresh == [st |-> "CREATED", easy |-> "none", poll |-> FALSE, closeTimer |-> FALSE,
          pingTimer |-> FALSE, recTimer |-> FALSE, closeSent |-> FALSE,
          closePushed |-> FALSE, rec |-> 0, frag |-> FALSE, buf |-> "none", reg |-> FALSE]

Connection ==
    [st : States, easy : {"none", "multi", "open", "lost"}, poll : BOOLEAN,
     closeTimer : BOOLEAN, pingTimer : BOOLEAN, recTimer : BOOLEAN, closeSent : BOOLEAN,
     closePushed : BOOLEAN, rec : Nat, frag : BOOLEAN, buf : {"none", "this", "old"},
     reg : BOOLEAN]

TypeOK ==
    /\ obj \in {"none", "live", "freed"}
    /\ loaded \in BOOLEAN /\ hclosed \in BOOLEAN /\ pingOn \in BOOLEAN
    /\ maxRec \in Limits \cup {0}
    /\ conn \in Connection
    /\ ops \in Seq(OpTypes)
    /\ events \in Seq(EventTypes)
    /\ flags \subseteq {"stop", "ws"}
    /\ gpc \in {"idle", "callback", "joining", "unloaded"}
    /\ evt \in EventTypes \cup {"none"}
    /\ epc \in {"poll", "ws", "draining", "recv", "exited"}
    /\ stopFlag \in BOOLEAN /\ asked \in BOOLEAN

Init ==
    /\ obj = "none" /\ loaded = TRUE /\ hclosed = FALSE /\ maxRec = 0 /\ pingOn = FALSE
    /\ conn = Fresh
    /\ ops = <<>> /\ events = <<>> /\ flags = {}
    /\ gpc = "idle" /\ evt = "none" /\ epc = "poll" /\ stopFlag = FALSE /\ asked = FALSE

-----------------------------------------------------------------------------
(* Game thread                                                             *)

InNative == loaded /\ gpc \in {"idle", "callback"}

\* EnqueueWsOp.  The push waits while OnAsyncWsOp holds the lock of the queue.
EnqueueWsOp(op) ==
    /\ epc # "draining"
    /\ ops' = Append(ops, op)
    /\ flags' = flags \cup {"ws"}

Native_WsNew ==
    /\ InNative
    /\ obj = "none"
    /\ obj' = "live"
    /\ UNCHANGED <<loaded, hclosed, maxRec, gpc, evt, asked, pingOn, conn, ops, events,
                   flags, loopVars>>

Native_WsSetReconnect(n) ==
    /\ InNative
    /\ obj = "live"
    /\ n # maxRec
    /\ maxRec' = n
    /\ UNCHANGED <<obj, loaded, hclosed, gpc, evt, asked, pingOn, conn, ops, events,
                   flags, loopVars>>

\* A plugin connects a socket that it has not closed, once; a manual reconnect
\* calls Connect again from onClose.
Native_WsConnect ==
    /\ InNative
    /\ obj = "live"
    /\ \/ ~asked /\ ~hclosed
       \/ "ConnectInClose" \in Habits /\ gpc = "callback" /\ evt = "closed"
          /\ Len(ops) < MaxOps
    /\ EnqueueWsOp("connect")
    /\ asked' = TRUE
    /\ UNCHANGED <<obj, loaded, hclosed, maxRec, gpc, evt, pingOn, conn, events, loopVars>>

Native_WsSend ==
    /\ InNative
    /\ obj = "live" /\ Len(ops) < MaxOps
    /\ EnqueueWsOp("send")
    /\ UNCHANGED <<gameVars, pingOn, conn, events, loopVars>>

\* WsSetOption, WS_PING_INTERVAL: stored at once, and again by the event thread
Native_WsSetPing(on) ==
    /\ InNative
    /\ obj = "live" /\ Len(ops) < MaxOps
    /\ pingOn' = on
    /\ EnqueueWsOp(IF on THEN "ping_on" ELSE "ping_off")
    /\ UNCHANGED <<gameVars, conn, events, loopVars>>

Native_WsClose ==
    /\ InNative
    /\ obj = "live" /\ Len(ops) < MaxOps
    /\ asked \/ "CloseUnconnected" \in Habits
    /\ hclosed' = TRUE
    /\ EnqueueWsOp("close")
    /\ UNCHANGED <<obj, loaded, maxRec, gpc, evt, asked, pingOn, conn, events, loopVars>>

OnPluginUnloaded ==
    /\ gpc = "idle" /\ loaded
    /\ loaded' = FALSE
    /\ IF obj = "live"
       THEN hclosed' = TRUE /\ EnqueueWsOp("close")
       ELSE UNCHANGED <<hclosed, ops, flags>>
    /\ UNCHANGED <<obj, maxRec, gpc, evt, asked, pingOn, conn, events, loopVars>>

\* OnGameFrame and DispatchSocketEvent up to the callback
DispatchSocketEvent ==
    /\ gpc = "idle" /\ events # <<>>
    /\ gpc' = "callback"
    /\ evt' = Head(events)
    /\ events' = Tail(events)
    /\ UNCHANGED <<obj, loaded, hclosed, maxRec, asked, pingOn, conn, ops, flags, loopVars>>

\* The rest of DispatchSocketEvent: the handle goes after a close event
DispatchReturn ==
    /\ gpc = "callback"
    /\ gpc' = "idle" /\ evt' = "none"
    /\ obj' = IF evt = "closed" THEN "freed" ELSE obj
    /\ UNCHANGED <<loaded, hclosed, maxRec, asked, pingOn, conn, ops, events, flags, loopVars>>

SDK_OnUnload ==
    /\ gpc = "idle"
    /\ gpc' = "joining"
    /\ flags' = flags \cup {"stop"}
    /\ UNCHANGED <<obj, loaded, hclosed, maxRec, evt, asked, pingOn, conn, ops, events,
                   loopVars>>

\* EventLoop::Stop after the join, and CleanHandles: timers and poll handles of
\* registered connections are closed, the easy handles of ws_curl_handles_ are
\* cleaned up, the queues drained and the object deleted.
StopJoined ==
    /\ gpc = "joining" /\ epc = "exited"
    /\ gpc' = "unloaded"
    /\ conn' = [conn EXCEPT !.poll = FALSE, !.closeTimer = FALSE, !.pingTimer = FALSE,
                            !.recTimer = FALSE, !.reg = FALSE,
                            !.easy = IF @ = "open" THEN "lost" ELSE "none"]
    /\ ops' = <<>> /\ events' = <<>>
    /\ obj' = IF obj = "live" THEN "freed" ELSE obj
    /\ UNCHANGED <<loaded, hclosed, maxRec, evt, asked, pingOn, flags, loopVars>>

-----------------------------------------------------------------------------
(* Event thread: what happens to the connection c                          *)

WsStopTimers(c) ==
    [c EXCEPT !.closeTimer = FALSE, !.pingTimer = FALSE, !.recTimer = FALSE]

\* Variant: the reassembly of a message goes on after a reconnect.
WsCleanupKeepsBuffer(c, keep) ==
    IF keep
    THEN [WsStopTimers(c) EXCEPT !.poll = FALSE, !.easy = "none", !.closeSent = FALSE,
                                 !.buf = IF @ = "none" THEN @ ELSE "old",
                                 !.st = "RECONNECTING"]
    ELSE [WsStopTimers(c) EXCEPT !.poll = FALSE, !.easy = "none", !.st = "CLOSED",
                                 !.reg = FALSE]

\* Variant: the timers are left running.
WsCleanupKeepsTimers(c, keep) ==
    IF keep
    THEN [c EXCEPT !.poll = FALSE, !.easy = "none", !.closeSent = FALSE, !.frag = FALSE,
                   !.buf = "none", !.st = "RECONNECTING"]
    ELSE [c EXCEPT !.poll = FALSE, !.easy = "none", !.st = "CLOSED", !.reg = FALSE]

WsCleanup(c, keep) ==
    IF keep
    THEN [WsStopTimers(c) EXCEPT !.poll = FALSE, !.easy = "none", !.closeSent = FALSE,
                                 !.frag = FALSE, !.buf = "none", !.st = "RECONNECTING"]
    ELSE [WsStopTimers(c) EXCEPT !.poll = FALSE, !.easy = "none", !.st = "CLOSED",
                                 !.reg = FALSE]

\* PushWsClosedOnce for a connection that became c, after the events es
PushWsClosedOnce(c, es) ==
    /\ conn' = [c EXCEPT !.closePushed = TRUE]
    /\ events' = events \o es \o (IF c.closePushed THEN <<>> ELSE <<"closed">>)

WsShouldReconnect(c) ==
    /\ ~hclosed
    /\ c.st # "CLOSING"
    /\ maxRec # 0
    /\ maxRec > 0 => c.rec < maxRec

\* Variant: the reconnect timer is not armed.
WsStartReconnectIdle(c) == [WsCleanup(c, TRUE) EXCEPT !.rec = @ + 1]

WsStartReconnect(c) == [WsCleanup(c, TRUE) EXCEPT !.rec = @ + 1, !.recTimer = TRUE]

\* Both overloads; the close code is left out
WsDisconnectOrReconnect(c, es) ==
    IF WsShouldReconnect(c)
    THEN /\ maxRec < 0 => c.rec < RecCap
         /\ conn' = WsStartReconnect(c)
         /\ events' = events \o es
    ELSE PushWsClosedOnce(WsCleanup(c, FALSE), es)

\* WsInitCurl when curl_easy_init succeeds
WsInitCurl(c) == [c EXCEPT !.easy = "multi", !.st = "CONNECTING"]

-----------------------------------------------------------------------------
(* Event thread: the walk over the async handles and the ops               *)

BeginWalk ==
    /\ epc = "poll" /\ flags # {}
    /\ epc' = "ws"
    /\ stopFlag' = (stopFlag \/ "stop" \in flags)
    /\ flags' = flags \ {"stop"}
    /\ UNCHANGED <<gameVars, pingOn, conn, ops, events>>

OnAsyncWsOpEnter ==
    /\ epc = "ws"
    /\ epc' = IF "ws" \in flags THEN "draining" ELSE "poll"
    /\ flags' = flags \ {"ws"}
    /\ UNCHANGED <<gameVars, pingOn, conn, ops, events, stopFlag>>

OnAsyncWsOpExit ==
    /\ epc = "draining" /\ ops = <<>>
    /\ epc' = "poll"
    /\ UNCHANGED <<gameVars, pingOn, conn, ops, events, flags, stopFlag>>

\* The op at the head of the queue is taken off and handled
TakeOp(op) ==
    /\ epc = "draining" /\ ops # <<>> /\ Head(ops) = op
    /\ ops' = Tail(ops)
    /\ UNCHANGED <<gameVars, flags, loopVars>>

\* Registered even when it was closed meanwhile: its CLOSE op will find it
ProcessWsConnect ==
    /\ TakeOp("connect")
    /\ conn' = [(IF hclosed THEN conn ELSE WsInitCurl(conn)) EXCEPT !.reg = TRUE]
    /\ UNCHANGED <<pingOn, events>>

\* curl_easy_init failed: an error is reported, and the entry erased
ProcessWsConnectFails ==
    /\ TakeOp("connect")
    /\ ~hclosed
    /\ conn' = [conn EXCEPT !.reg = FALSE]
    /\ events' = Append(events, "error")
    /\ UNCHANGED pingOn

\* The frame is sent, or dropped, or fails
ProcessWsSend ==
    /\ TakeOp("send")
    /\ \/ UNCHANGED events
       \/ /\ conn.reg /\ ~hclosed /\ conn.easy # "none" /\ conn.st = "CONNECTED"
          /\ Len(events) < MaxEvents
          /\ events' = Append(events, "error")
    /\ UNCHANGED <<conn, pingOn>>

ProcessWsSetOption(on) ==
    /\ TakeOp(IF on THEN "ping_on" ELSE "ping_off")
    /\ IF conn.reg
       THEN /\ pingOn' = on
            /\ conn' = IF conn.st = "CONNECTED" THEN [conn EXCEPT !.pingTimer = on] ELSE conn
       ELSE UNCHANGED <<conn, pingOn>>
    /\ UNCHANGED events

\* Not registered, or already closing: nothing to do
ProcessWsCloseNothing ==
    /\ TakeOp("close")
    /\ ~conn.reg \/ conn.st \in {"CLOSING", "CLOSED"}
    /\ UNCHANGED <<conn, pingOn, events>>

CanHandshake(c) == c.easy # "none" /\ c.poll /\ c.st = "CONNECTED" /\ ~c.closeSent

\* Variant: no timer for the answer to the close frame.
ProcessWsCloseHandshakeNoTimer ==
    /\ TakeOp("close")
    /\ conn.reg /\ CanHandshake(conn)
    /\ conn' = [conn EXCEPT !.st = "CLOSING", !.closeSent = TRUE]
    /\ UNCHANGED <<pingOn, events>>

\* The closing handshake: a close frame, and a timer for the answer
ProcessWsCloseHandshake ==
    /\ TakeOp("close")
    /\ conn.reg /\ CanHandshake(conn)
    /\ conn' = [conn EXCEPT !.st = "CLOSING", !.closeSent = TRUE, !.closeTimer = TRUE]
    /\ UNCHANGED <<pingOn, events>>

\* A pending reconnect is cancelled; anything else is cleaned up
ProcessWsCloseNow ==
    /\ TakeOp("close")
    /\ conn.reg /\ conn.st \notin {"CLOSING", "CLOSED"} /\ ~CanHandshake(conn)
    /\ PushWsClosedOnce(IF conn.st = "RECONNECTING"
                        THEN [WsStopTimers(conn) EXCEPT !.st = "CLOSED", !.reg = FALSE]
                        ELSE WsCleanup(conn, FALSE), <<>>)
    /\ UNCHANGED pingOn

-----------------------------------------------------------------------------
(* Event thread: curl, the socket and the timers                           *)

\* CheckCompletedJobs, also called from within WsInitCurl
AttemptEnds ==
    /\ epc \in {"poll", "draining"}
    /\ conn.easy = "multi"
    /\ UNCHANGED <<gameVars, pingOn, ops, flags, loopVars>>

AttemptClosed ==
    /\ AttemptEnds
    /\ hclosed
    /\ PushWsClosedOnce([conn EXCEPT !.easy = "none", !.st = "CLOSED", !.reg = FALSE], <<>>)

AttemptConnected ==
    /\ AttemptEnds
    /\ ~hclosed
    /\ conn' = [conn EXCEPT !.easy = "open", !.poll = TRUE, !.st = "CONNECTED", !.rec = 0,
                            !.pingTimer = pingOn]
    /\ events' = Append(events, "connected")

AttemptFailed ==
    /\ AttemptEnds
    /\ ~hclosed
    /\ WsDisconnectOrReconnect([conn EXCEPT !.easy = "none"], <<"error">>)

\* Variant: the event is sent directly, and what the handshake holds is kept.
PollClosedBypass ==
    /\ epc = "poll" /\ conn.poll
    /\ hclosed
    /\ conn' = [conn EXCEPT !.poll = FALSE, !.easy = "none"]
    /\ events' = Append(events, "closed")
    /\ UNCHANGED <<gameVars, pingOn, ops, flags, loopVars>>

\* OnWsPollActivity: the socket of a closed connection, or in error, ends it
PollClosed ==
    /\ epc = "poll" /\ conn.poll
    /\ hclosed
    /\ PushWsClosedOnce(WsCleanup(conn, FALSE), <<>>)
    /\ UNCHANGED <<gameVars, pingOn, ops, flags, loopVars>>

PollError ==
    /\ epc = "poll" /\ conn.poll
    /\ ~hclosed
    /\ WsDisconnectOrReconnect(conn, <<"error">>)
    /\ UNCHANGED <<gameVars, pingOn, ops, flags, loopVars>>

PollReadable ==
    /\ epc = "poll" /\ conn.poll
    /\ ~hclosed
    /\ epc' = "recv"
    /\ UNCHANGED <<gameVars, pingOn, conn, ops, events, flags, stopFlag>>

\* One turn of the receive loop; pings are answered by curl and change nothing
Receives == epc = "recv" /\ UNCHANGED <<gameVars, pingOn, ops, flags, stopFlag>>
LeavesLoop == Receives /\ epc' = "poll"

RecvAgain == LeavesLoop /\ UNCHANGED <<conn, events>>

\* The peer is gone, or curl reports an error
RecvEnds(es) == LeavesLoop /\ WsDisconnectOrReconnect(conn, es)

\* A close frame is answered unless one was sent
RecvCloseFrame ==
    LeavesLoop /\ WsDisconnectOrReconnect([conn EXCEPT !.closeSent = TRUE], <<>>)

RecvPong ==
    /\ Receives
    /\ Len(events) < MaxEvents
    /\ events' = Append(events, "pong")
    /\ UNCHANGED <<conn, epc>>

\* A data frame of a connection closed meanwhile stops the loop
RecvDataClosed ==
    /\ LeavesLoop
    /\ hclosed
    /\ UNCHANGED <<conn, events>>

\* message_buf_ once the frame is added: a first frame clears it
Accumulated(c) == IF c.frag /\ c.buf = "old" THEN "old" ELSE "this"

RecvFragment ==
    /\ Receives
    /\ ~hclosed
    /\ conn' = [conn EXCEPT !.frag = TRUE, !.buf = Accumulated(conn)]
    /\ UNCHANGED <<events, epc>>

RecvMessage ==
    /\ Receives
    /\ ~hclosed
    /\ Len(events) < MaxEvents
    /\ events' = Append(events, IF Accumulated(conn) = "old" THEN "mixed" ELSE "message")
    /\ conn' = [conn EXCEPT !.frag = FALSE, !.buf = "none"]
    /\ UNCHANGED epc

\* max_message_size exceeded: closed with 1009, without a reconnect
RecvTooBig ==
    /\ LeavesLoop
    /\ ~hclosed
    /\ PushWsClosedOnce(WsCleanup([conn EXCEPT !.closeSent = TRUE], FALSE), <<"error">>)

OnWsCloseTimeout ==
    /\ epc = "poll"
    /\ conn.closeTimer
    /\ PushWsClosedOnce(WsCleanup(conn, FALSE), <<>>)
    /\ UNCHANGED <<gameVars, pingOn, ops, flags, loopVars>>

ReconnectFires ==
    /\ epc = "poll"
    /\ conn.recTimer
    /\ UNCHANGED <<gameVars, pingOn, ops, flags, loopVars>>

OnWsReconnectTimerClosed ==
    /\ ReconnectFires
    /\ hclosed
    /\ PushWsClosedOnce([conn EXCEPT !.recTimer = FALSE, !.st = "CLOSED", !.reg = FALSE], <<>>)

WsReconnect ==
    /\ ReconnectFires
    /\ ~hclosed
    /\ Len(events) < MaxEvents
    /\ conn' = WsInitCurl([conn EXCEPT !.recTimer = FALSE])
    /\ UNCHANGED events

WsReconnectFails ==
    /\ ReconnectFires
    /\ ~hclosed
    /\ PushWsClosedOnce([conn EXCEPT !.recTimer = FALSE, !.st = "CLOSED", !.reg = FALSE],
                        <<"error">>)

EventExit ==
    /\ epc = "poll" /\ stopFlag
    /\ epc' = "exited"
    /\ UNCHANGED <<gameVars, pingOn, conn, ops, events, flags, stopFlag>>

Unloaded == gpc = "unloaded" /\ UNCHANGED vars

-----------------------------------------------------------------------------
GameNative ==
    \/ Native_WsNew \/ Native_WsConnect \/ Native_WsSend \/ Native_WsClose
    \/ \E n \in Limits : Native_WsSetReconnect(n)
    \/ \E on \in BOOLEAN : Native_WsSetPing(on)

GameStep == DispatchSocketEvent \/ DispatchReturn \/ StopJoined

ProcessOp ==
    \/ ProcessWsConnect \/ ProcessWsConnectFails \/ ProcessWsSend
    \/ \E on \in BOOLEAN : ProcessWsSetOption(on)
    \/ ProcessWsCloseNothing \/ ProcessWsCloseHandshake \/ ProcessWsCloseNow

EventWalk == BeginWalk \/ OnAsyncWsOpEnter \/ OnAsyncWsOpExit \/ ProcessOp

AttemptDone == AttemptClosed \/ AttemptConnected \/ AttemptFailed

PollActivity == PollClosed \/ PollError \/ PollReadable

Recv ==
    \/ RecvAgain \/ RecvCloseFrame \/ RecvPong \/ RecvDataClosed
    \/ RecvFragment \/ RecvMessage \/ RecvTooBig
    \/ \E es \in {<<>>, <<"error">>} : RecvEnds(es)

OnWsReconnectTimer == OnWsReconnectTimerClosed \/ WsReconnect \/ WsReconnectFails

EventStep == EventWalk \/ AttemptDone \/ PollActivity \/ Recv \/ OnWsCloseTimeout
             \/ OnWsReconnectTimer \/ EventExit

Next == GameNative \/ OnPluginUnloaded \/ SDK_OnUnload \/ GameStep \/ EventStep \/ Unloaded

Spec == Init /\ [][Next]_vars

\* The game runs its frames and returns from callbacks, the event loop iterates,
\* an attempt ends (CURLOPT_CONNECTTIMEOUT_MS is set), and a socket runs dry.
\* Every iteration of the loop runs the timers that are due and what curl has to
\* report, however busy the async handles are: strong fairness.  The peer owes
\* nothing.
Fairness ==
    /\ WF_vars(GameStep)
    /\ WF_vars(EventWalk)
    /\ WF_vars(RecvAgain)
    /\ SF_vars(AttemptDone)
    /\ SF_vars(OnWsCloseTimeout)
    /\ SF_vars(OnWsReconnectTimer)
    /\ SF_vars(EventExit)

FairSpec == Spec /\ Fairness

-----------------------------------------------------------------------------
(* Properties                                                              *)

\* The event thread may still touch the connection
Held ==
    \/ conn.reg \/ conn.poll \/ conn.closeTimer \/ conn.pingTimer \/ conn.recTimer
    \/ conn.easy \in {"multi", "open"}
    \/ epc = "recv"
    \/ Contains(ops, "connect")

\* The game thread deletes the object once it has seen WS_CLOSED, and nothing
\* else tells the event thread.  So when that event is in the queue, is being
\* dispatched, or the object is gone, no timer, poll handle, curl attempt, table
\* entry or op leads to the object any more.
LetGo == obj = "freed" \/ evt = "closed" \/ Contains(events, "closed") => ~Held

\* WS_CLOSED is sent at most once, whichever of the racing paths sees the end.
ClosedOnce ==
    Cardinality({i \in DOMAIN events : events[i] = "closed"})
        + (IF evt = "closed" THEN 1 ELSE 0) + (IF obj = "freed" THEN 1 ELSE 0) <= 1

\* A registered connection has exactly one thing that will move it on: a curl
\* attempt, a poll handle or a reconnect timer, as its state says, or, if it was
\* closed before it was registered, its CLOSE op.  The close timer runs in the
\* closing handshake only.
OneSource ==
    gpc # "unloaded" /\ (conn.reg \/ conn.easy # "none" \/ conn.poll \/ conn.recTimer) =>
        /\ conn.reg
        /\ conn.st = "CREATED" => hclosed /\ Contains(ops, "close")
        /\ conn.st = "CONNECTING" <=> conn.easy = "multi"
        /\ conn.st \in {"CONNECTED", "CLOSING"} <=> conn.poll
        /\ conn.poll <=> conn.easy = "open"
        /\ conn.st = "RECONNECTING" <=> conn.recTimer
        /\ conn.st = "CLOSING" <=> conn.closeTimer
        /\ conn.pingTimer => conn.poll
        /\ conn.st # "CLOSED"

\* The fields have their types, and OneSource: by it, and by it alone, WsReconnect
\* and WsCleanup may tear down only what the state says is armed.
ConnInv == TypeOK /\ OneSource

\* Frames received before a reconnect never end up in a message received after.
NoMixedMessage == evt # "mixed" /\ ~Contains(events, "mixed")

\* Closing a registered connection, by Close or by unloading the plugin, ends
\* with its object freed, whatever the peer does.
CloseAnswered == (hclosed /\ conn.reg) ~> (obj = "freed")
=============================================================================
