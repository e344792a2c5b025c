--------------------------- MODULE HttpLifecycle ---------------------------
(***************************************************************************)
(* The life of an HTTP request of async2, shared by two threads.           *)
(*                                                                         *)
(* The GAME thread owns the handle table and runs the natives, the game    *)
(* frame hook, the plugin listener and the client listener.  The EVENT     *)
(* thread owns the curl multi handle, the retry timers and the set of      *)
(* active requests.  Raw HttpRequest pointers travel between them through  *)
(* pending_queue, cancel_queue and done_queue; a wake-up is a pending flag *)
(* of a uv_async_t, which the event thread visits in the order in which    *)
(* EventLoop::Start initialised them (stop, add, cancel).                  *)
(*                                                                         *)
(* A request is identified by its heap address (Addr), because that is all *)
(* the queues carry, and an address is handed out again after it is freed. *)
(* Handle ids are never reused here: their reuse is module HandleManager.  *)
(***************************************************************************)
EXTENDS Integers, Sequences, FiniteSets

CONSTANTS
    Addr,        \* heap addresses an HttpRequest may live at
    Plugin,      \* plugin contexts
    Client,      \* client indices > 0
    NULL,        \* no pointer, no plugin, no client
    MaxId,       \* bound: number of HttpNew calls
    RetryLimits, \* values a plugin passes to SetRetry (-1 is "unlimited")
    RetryCap,    \* bound: attempts of a request whose limit is -1
    CallbackOps  \* what a callback does to the request it was called for

ASSUME ConstantsAssumption ==
    /\ NULL \notin Addr \cup Plugin \cup Client
    /\ MaxId \in Nat
    /\ RetryLimits \subseteq Int
    /\ RetryCap \in Nat
    /\ CallbackOps \subseteq {"Close", "Execute", "Disconnect"}
    /\ IsFiniteSet(Addr)

Id == 1 .. MaxId
Codes == {"none", "ok", "err", "aborted"}   \* HttpRequest::curlcode
Outcomes == {"ok", "retryable", "err"}      \* 2xx-4xx, 429/5xx, transport error
AsyncHandles == {"stop", "add", "cancel"}

VARIABLES
    \* HandleManager: used_handles_ (pointer, closed, owner) and next_handle_
    ptr, hclosed, owner, nextId,
    \* HttpRequest fields by address; hid[a] = 0 when no request lives at a
    hid, ctx, cb, inEvent, closed, completed, retryWait, code, retries,
    maxRetries, client,
    \* extension.cpp: g_plugin_contexts, g_client_handles
    loaded, tracked,
    \* game thread: control, the vector of OnGameFrame, `this` of the callback,
    \* handles a listener still has to close
    gpc, batch, cur, todo,
    \* LockedQueues and uv_async_t::pending
    pendingQ, cancelQ, doneQ, flags,
    \* event thread: control, uv_loop stop flag, active_http_requests_,
    \* http_curl_handles_, retry_timers_
    epc, stopFlag, active, multi, timers,
    \* EventLoop::stats_*
    statPending, statActive, statCompleted, statRetries,
    \* history: Execute calls accepted, callbacks run per handle
    execs, fired

tableVars == <<ptr, hclosed, owner, nextId>>
reqVars   == <<hid, ctx, cb, inEvent, closed, completed, retryWait, code,
               retries, maxRetries, client>>
hostVars  == <<loaded, tracked>>
gameVars  == <<gpc, batch, cur, todo>>
queueVars == <<pendingQ, cancelQ, doneQ, flags>>
loopVars  == <<epc, stopFlag, active, multi, timers>>
statVars  == <<statPending, statActive, statCompleted, statRetries>>
histVars  == <<execs, fired>>
vars == <<tableVars, reqVars, hostVars, gameVars, queueVars, loopVars,
          statVars, histVars>>

RangeOf(q) == {q[i] : i \in DOMAIN q}

TypeOK ==
    /\ ptr \in [Id -> Addr \cup {NULL}]
    /\ hclosed \subseteq Id
    /\ owner \in [Id -> Plugin \cup {NULL}]
    /\ nextId \in 1 .. MaxId + 1
    /\ hid \in [Addr -> Id \cup {0}]
    /\ ctx \in [Addr -> Plugin \cup {NULL}]
    /\ cb \subseteq Addr
    /\ inEvent \subseteq Addr
    /\ closed \subseteq Addr
    /\ completed \subseteq Addr
    /\ retryWait \subseteq Addr
    /\ code \in [Addr -> Codes]
    /\ retries \in [Addr -> Nat]
    /\ maxRetries \in [Addr -> Int]
    /\ client \in [Addr -> Client \cup {NULL}]
    /\ loaded \subseteq Plugin
    /\ tracked \in [Client -> SUBSET Id]
    /\ gpc \in {"idle", "frame", "callback", "joining", "unloaded"}
    /\ batch \in Seq(Addr)
    /\ cur \in Addr \cup {NULL}
    /\ todo \subseteq Id
    /\ pendingQ \in Seq(Addr)
    /\ cancelQ \in Seq(Addr)
    /\ doneQ \in Seq(Addr)
    /\ flags \subseteq AsyncHandles
    /\ epc \in {"poll", "stop", "add", "adding", "cancel", "cancelling", "exited"}
    /\ stopFlag \in BOOLEAN
    /\ active \subseteq Addr
    /\ multi \subseteq Addr
    /\ timers \subseteq Addr
    /\ statPending \in Int
    /\ statActive \in Int
    /\ statCompleted \in Nat
    /\ statRetries \in Nat
    /\ execs \in Nat
    /\ fired \in [Id -> Nat]

Init ==
    /\ ptr = [i \in Id |-> NULL]
    /\ hclosed = {}
    /\ owner = [i \in Id |-> NULL]
    /\ nextId = 1
    /\ hid = [a \in Addr |-> 0]
    /\ ctx = [a \in Addr |-> NULL]
    /\ cb = {} /\ inEvent = {} /\ closed = {} /\ completed = {} /\ retryWait = {}
    /\ code = [a \in Addr |-> "none"]
    /\ retries = [a \in Addr |-> 0]
    /\ maxRetries = [a \in Addr |-> 0]
    /\ client = [a \in Addr |-> NULL]
    /\ loaded = Plugin
    /\ tracked = [c \in Client |-> {}]
    /\ gpc = "idle" /\ batch = <<>> /\ cur = NULL /\ todo = {}
    /\ pendingQ = <<>> /\ cancelQ = <<>> /\ doneQ = <<>> /\ flags = {}
    /\ epc = "poll" /\ stopFlag = FALSE
    /\ active = {} /\ multi = {} /\ timers = {}
    /\ statPending = 0 /\ statActive = 0 /\ statCompleted = 0 /\ statRetries = 0
    /\ execs = 0
    /\ fired = [i \in Id |-> 0]

-----------------------------------------------------------------------------
(* Game thread: helpers                                                    *)

\* A native, listener or hook runs to its end before the next one starts;
\* natives also run inside a callback.
InNative == gpc \in {"idle", "callback"} /\ todo = {}

\* HandleManager::GetHttpRequest: the id is in use and not marked closed.
GetHttpRequest(id) == ptr[id] # NULL /\ id \notin hclosed

\* The request the running callback was called for.
IsCurrent(id) == gpc = "callback" /\ ptr[id] = cur

\* Variant: the reverse index is not maintained.
UntrackNothing(id) == UNCHANGED tracked

\* extension.cpp UntrackClientHandle: the id leaves the list of its client
UntrackClientHandle(id) == tracked' = [c \in Client |-> tracked[c] \ {id}]

\* HandleManager::FreeHandle and ~HttpRequest: the table entry goes, and the
\* object with it.  Freed memory reads as the default field values.
FreeHandle(id) ==
    /\ ptr' = [ptr EXCEPT ![id] = NULL]
    /\ hclosed' = hclosed \ {id}
    /\ owner' = [owner EXCEPT ![id] = NULL]
    /\ LET S == {ptr[id]} \ {NULL} IN
       /\ hid' = [a \in Addr |-> IF a \in S THEN 0 ELSE hid[a]]
       /\ ctx' = [a \in Addr |-> IF a \in S THEN NULL ELSE ctx[a]]
       /\ cb' = cb \ S
       /\ inEvent' = inEvent \ S
       /\ closed' = closed \ S
       /\ completed' = completed \ S
       /\ retryWait' = retryWait \ S
       /\ code' = [a \in Addr |-> IF a \in S THEN "none" ELSE code[a]]
       /\ retries' = [a \in Addr |-> IF a \in S THEN 0 ELSE retries[a]]
       /\ maxRetries' = [a \in Addr |-> IF a \in S THEN 0 ELSE maxRetries[a]]
       /\ client' = [a \in Addr |-> IF a \in S THEN NULL ELSE client[a]]
    /\ UNCHANGED nextId

\* Variant: the cancellation is queued without waking the event thread.
CancelRequestSilent(a) ==
    cancelQ' = Append(cancelQ, a) /\ UNCHANGED flags

\* EventLoop::CancelRequest.  The push waits while OnAsyncCancel holds the lock.
CancelRequest(a) ==
    /\ epc # "cancelling"
    /\ cancelQ' = Append(cancelQ, a)
    /\ flags' = flags \cup {"cancel"}

\* Variant: in_event_thread is not looked at.
CloseRequestFrees(id) ==
    /\ UntrackClientHandle(id)
    /\ FreeHandle(id)
    /\ UNCHANGED <<loaded, queueVars, loopVars, statVars, histVars>>

\* The body shared by HttpClose, OnPluginUnloaded and OnClientDisconnecting:
\* a request the event thread holds is marked and cancelled, any other freed.
CloseRequest(id) ==
    /\ UntrackClientHandle(id)
    /\ IF ptr[id] \in inEvent
       THEN /\ closed' = closed \cup {ptr[id]}
            /\ hclosed' = hclosed \cup {id}
            /\ CancelRequest(ptr[id])
            /\ UNCHANGED <<ptr, owner, nextId, hid, ctx, cb, inEvent, completed,
                           retryWait, code, retries, maxRetries, client>>
       ELSE FreeHandle(id) /\ UNCHANGED <<cancelQ, flags>>
    /\ UNCHANGED <<loaded, pendingQ, doneQ, loopVars, statVars, histVars>>

-----------------------------------------------------------------------------
(* Game thread: natives                                                    *)

\* new HttpRequest at any free address, registered for the calling plugin
Native_HttpNew(p, a) ==
    /\ InNative
    /\ p \in loaded
    /\ hid[a] = 0
    /\ nextId <= MaxId
    /\ hid' = [hid EXCEPT ![a] = nextId]
    /\ ctx' = [ctx EXCEPT ![a] = p]
    /\ ptr' = [ptr EXCEPT ![nextId] = a]
    /\ owner' = [owner EXCEPT ![nextId] = p]
    /\ nextId' = nextId + 1
    /\ UNCHANGED <<hclosed, cb, inEvent, closed, completed, retryWait, code,
                   retries, maxRetries, client, hostVars, gameVars, queueVars,
                   loopVars, statVars, histVars>>

Native_SetRetry(id, n) ==
    /\ InNative
    /\ GetHttpRequest(id) /\ ptr[id] \notin inEvent
    /\ maxRetries' = [maxRetries EXCEPT ![ptr[id]] = n]
    /\ UNCHANGED <<tableVars, hid, ctx, cb, inEvent, closed, completed, retryWait,
                   code, retries, client, hostVars, gameVars, queueVars, loopVars,
                   statVars, histVars>>

\* The request follows client c from now on, or none: untrack the old, track c.
Native_SetOwner(id, c) ==
    /\ InNative
    /\ GetHttpRequest(id) /\ ptr[id] \notin inEvent
    /\ c # client[ptr[id]]
    /\ client' = [client EXCEPT ![ptr[id]] = c]
    /\ tracked' = [d \in Client |-> IF d = c THEN tracked[d] \cup {id}
                                    ELSE IF d = client[ptr[id]] THEN tracked[d] \ {id}
                                    ELSE tracked[d]]
    /\ UNCHANGED <<tableVars, hid, ctx, cb, inEvent, closed, completed, retryWait,
                   code, retries, maxRetries, loaded, gameVars, queueVars,
                   loopVars, statVars, histVars>>

\* Transfer to plugin p, or detach (p = NULL)
Native_SetHandlePlugin(id, p) ==
    /\ InNative
    /\ p \in loaded \cup {NULL}
    /\ GetHttpRequest(id)
    /\ owner' = [owner EXCEPT ![id] = p]
    /\ UNCHANGED <<ptr, hclosed, nextId, reqVars, hostVars, gameVars, queueVars,
                   loopVars, statVars, histVars>>

\* EventLoop::EnqueueRequest and PrepareForSend.  The push waits while
\* OnAsyncAdd holds the lock of pending_queue.
EnqueueRequest(a) ==
    /\ epc # "adding"
    /\ inEvent' = inEvent \cup {a}
    /\ statPending' = statPending + 1
    /\ pendingQ' = Append(pendingQ, a)
    /\ flags' = flags \cup {"add"}

\* hasCb is FALSE for INVALID_FUNCTION
Native_HttpExecute(id, hasCb) ==
    /\ InNative
    /\ GetHttpRequest(id) /\ ptr[id] \notin inEvent
    /\ IsCurrent(id) => "Execute" \in CallbackOps
    /\ cb' = IF hasCb THEN cb \cup {ptr[id]} ELSE cb \ {ptr[id]}
    /\ EnqueueRequest(ptr[id])
    /\ execs' = execs + 1
    /\ UNCHANGED <<tableVars, hid, ctx, closed, completed, retryWait, code, retries,
                   maxRetries, client, hostVars, gameVars, cancelQ, doneQ, loopVars,
                   statActive, statCompleted, statRetries, fired>>

Native_HttpClose(id) ==
    /\ InNative
    /\ GetHttpRequest(id)
    /\ IsCurrent(id) => "Close" \in CallbackOps
    /\ CloseRequest(id)
    /\ UNCHANGED gameVars

-----------------------------------------------------------------------------
(* Game thread: listeners                                                  *)

OnClientDisconnecting(c) ==
    /\ InNative
    /\ tracked[c] # {}
    /\ \A id \in tracked[c] : IsCurrent(id) => "Disconnect" \in CallbackOps
    /\ tracked' = [tracked EXCEPT ![c] = {}]
    /\ todo' = {id \in tracked[c] : GetHttpRequest(id)}
    /\ UNCHANGED <<tableVars, reqVars, loaded, gpc, batch, cur, queueVars, loopVars,
                   statVars, histVars>>

\* TakePluginHandles detaches every handle of the plugin, closed ones too
OnPluginUnloaded(p) ==
    /\ gpc = "idle" /\ todo = {}
    /\ p \in loaded
    /\ loaded' = loaded \ {p}
    /\ todo' = {id \in Id : owner[id] = p}
    /\ owner' = [id \in Id |-> IF owner[id] = p THEN NULL ELSE owner[id]]
    /\ UNCHANGED <<ptr, hclosed, nextId, reqVars, tracked, gpc, batch, cur, queueVars,
                   loopVars, statVars, histVars>>

OnPluginLoaded(p) ==
    /\ gpc = "idle" /\ todo = {}
    /\ p \notin loaded
    /\ loaded' = loaded \cup {p}
    /\ UNCHANGED <<tableVars, reqVars, tracked, gameVars, queueVars, loopVars,
                   statVars, histVars>>

\* One turn of the loops over the handles to close
CloseNext(id) ==
    /\ id \in todo
    /\ todo' = todo \ {id}
    /\ CloseRequest(id)
    /\ UNCHANGED <<gpc, batch, cur>>

-----------------------------------------------------------------------------
(* Game thread: the frame hook, completions and unloading                  *)

\* SignalPending repeats a wake-up; DrainCompleted takes the whole done_queue
OnGameFrame ==
    /\ gpc = "idle" /\ todo = {}
    /\ doneQ # <<>> \/ pendingQ # <<>>
    /\ flags' = IF pendingQ # <<>> THEN flags \cup {"add"} ELSE flags
    /\ batch' = doneQ
    /\ doneQ' = <<>>
    /\ gpc' = IF doneQ # <<>> THEN "frame" ELSE "idle"
    /\ UNCHANGED <<tableVars, reqVars, hostVars, cur, todo, pendingQ, cancelQ,
                   loopVars, statVars, histVars>>

\* GetSourcepawnFunction: the context is still loaded and the id is a function
HasFunction(a) == ctx[a] \in loaded /\ a \in cb

\* OnCompletedGameThread without a function to call: free at once
CompleteSilently ==
    /\ gpc = "frame" /\ batch # <<>>
    /\ ~HasFunction(Head(batch))
    /\ hid[Head(batch)] # 0
    /\ batch' = Tail(batch)
    /\ gpc' = IF Tail(batch) = <<>> THEN "idle" ELSE "frame"
    /\ UntrackClientHandle(hid[Head(batch)])
    /\ FreeHandle(hid[Head(batch)])
    /\ UNCHANGED <<loaded, cur, todo, queueVars, loopVars, statVars, histVars>>

\* OnCompletedGameThread up to func->Execute: a closed request reports 42
CompleteCallback ==
    /\ gpc = "frame" /\ batch # <<>>
    /\ HasFunction(Head(batch))
    /\ LET a == Head(batch) IN
       /\ cur' = a
       /\ inEvent' = inEvent \ {a}
       /\ code' = [code EXCEPT ![a] = IF a \in closed THEN "aborted" ELSE @]
       /\ fired' = [i \in Id |-> IF i = hid[a] THEN fired[i] + 1 ELSE fired[i]]
    /\ batch' = Tail(batch)
    /\ gpc' = "callback"
    /\ UNCHANGED <<tableVars, hid, ctx, cb, closed, completed, retryWait, retries,
                   maxRetries, client, hostVars, todo, queueVars, loopVars,
                   statVars, execs>>

\* Variant: the handle is not closed after its callback.
CallbackReturnKeeps ==
    /\ gpc = "callback" /\ todo = {}
    /\ cur' = NULL
    /\ gpc' = IF batch = <<>> THEN "idle" ELSE "frame"
    /\ UNCHANGED <<tableVars, reqVars, hostVars, batch, todo, queueVars, loopVars,
                   statVars, histVars>>

\* OnCompletedGameThread after the callback: this->handle_id is read again and
\* freed.  If `this` was freed meanwhile the id read is arbitrary.
CallbackReturn ==
    /\ gpc = "callback" /\ todo = {}
    /\ \E id \in IF hid[cur] # 0 THEN {hid[cur]} ELSE Id :
          UntrackClientHandle(id) /\ FreeHandle(id)
    /\ cur' = NULL
    /\ gpc' = IF batch = <<>> THEN "idle" ELSE "frame"
    /\ UNCHANGED <<loaded, batch, todo, queueVars, loopVars, statVars, histVars>>

\* The hooks are removed, then EventLoop::Stop wakes the event thread and joins
SDK_OnUnload ==
    /\ gpc = "idle" /\ todo = {}
    /\ gpc' = "joining"
    /\ flags' = flags \cup {"stop"}
    /\ UNCHANGED <<tableVars, reqVars, hostVars, batch, cur, todo, pendingQ, cancelQ,
                   doneQ, loopVars, statVars, histVars>>

\* The rest of EventLoop::Stop: timers and easy handles go, the handles of the
\* queued requests are freed; then CleanHandles frees what is left in the table.
StopJoined ==
    /\ gpc = "joining" /\ epc = "exited"
    /\ gpc' = "unloaded"
    /\ multi' = {} /\ timers' = {}
    /\ pendingQ' = <<>> /\ cancelQ' = <<>> /\ doneQ' = <<>>
    /\ ptr' = [i \in Id |-> NULL]
    /\ hclosed' = {}
    /\ owner' = [i \in Id |-> NULL]
    /\ LET S == RangeOf(ptr) IN
       /\ hid' = [a \in Addr |-> IF a \in S THEN 0 ELSE hid[a]]
       /\ inEvent' = inEvent \ S
    /\ UNCHANGED <<nextId, ctx, cb, closed, completed, retryWait, code, retries,
                   maxRetries, client, hostVars, batch, cur, todo, flags, epc,
                   stopFlag, active, statVars, histVars>>

-----------------------------------------------------------------------------
(* Event thread                                                            *)

\* Variant: the finished request stays in the active set.
FinishRequestStaysActive(a) ==
    /\ completed' = completed \cup {a}
    /\ statCompleted' = statCompleted + 1
    /\ doneQ' = Append(doneQ, a)
    /\ UNCHANGED active

\* Variant: the game thread is not told.
FinishRequestUndelivered(a) ==
    /\ completed' = completed \cup {a}
    /\ statCompleted' = statCompleted + 1
    /\ active' = active \ {a}
    /\ UNCHANGED doneQ

\* Completed, counted, out of the active set and pushed to done_queue
FinishRequest(a) ==
    /\ completed' = completed \cup {a}
    /\ statCompleted' = statCompleted + 1
    /\ active' = active \ {a}
    /\ doneQ' = Append(doneQ, a)

\* uv__async_io starts a walk over the async handles
BeginWalk ==
    /\ epc = "poll" /\ flags # {}
    /\ epc' = "stop"
    /\ UNCHANGED <<tableVars, reqVars, hostVars, gameVars, queueVars, stopFlag, active,
                   multi, timers, statVars, histVars>>

\* Variant: the walk ends at the stop handle.
OnAsyncStopAbandons ==
    /\ epc = "stop"
    /\ epc' = IF "stop" \in flags THEN "poll" ELSE "add"
    /\ flags' = flags \ {"stop"}
    /\ stopFlag' = (stopFlag \/ "stop" \in flags)
    /\ UNCHANGED <<tableVars, reqVars, hostVars, gameVars, pendingQ, cancelQ, doneQ,
                   active, multi, timers, statVars, histVars>>

\* The walk reaches a handle: its pending flag is cleared before the callback
OnAsyncStop ==
    /\ epc = "stop"
    /\ epc' = "add"
    /\ flags' = flags \ {"stop"}
    /\ stopFlag' = (stopFlag \/ "stop" \in flags)
    /\ UNCHANGED <<tableVars, reqVars, hostVars, gameVars, pendingQ, cancelQ, doneQ,
                   active, multi, timers, statVars, histVars>>

OnAsyncAddEnter ==
    /\ epc = "add"
    /\ epc' = IF "add" \in flags THEN "adding" ELSE "cancel"
    /\ flags' = flags \ {"add"}
    /\ UNCHANGED <<tableVars, reqVars, hostVars, gameVars, pendingQ, cancelQ, doneQ,
                   stopFlag, active, multi, timers, statVars, histVars>>

\* A request closed before it was picked up goes straight to done_queue; any
\* other is set up and added to curl_multi (ProcessCurlJob)
OnAsyncAdd ==
    /\ epc = "adding" /\ pendingQ # <<>>
    /\ pendingQ' = Tail(pendingQ)
    /\ statPending' = statPending - 1
    /\ LET a == Head(pendingQ) IN
       IF a \in closed
       THEN FinishRequest(a) /\ UNCHANGED <<multi, statActive>>
       ELSE /\ active' = active \cup {a}
            /\ multi' = multi \cup {a}
            /\ statActive' = statActive + 1
            /\ UNCHANGED <<completed, statCompleted, doneQ>>
    /\ UNCHANGED <<tableVars, hid, ctx, cb, inEvent, closed, retryWait, code, retries,
                   maxRetries, client, hostVars, gameVars, cancelQ, flags, epc,
                   stopFlag, timers, statRetries, histVars>>

OnAsyncAddExit ==
    /\ epc = "adding" /\ pendingQ = <<>>
    /\ epc' = "cancel"
    /\ UNCHANGED <<tableVars, reqVars, hostVars, gameVars, queueVars, stopFlag, active,
                   multi, timers, statVars, histVars>>

OnAsyncCancelEnter ==
    /\ epc = "cancel"
    /\ epc' = IF "cancel" \in flags THEN "cancelling" ELSE "poll"
    /\ flags' = flags \ {"cancel"}
    /\ UNCHANGED <<tableVars, reqVars, hostVars, gameVars, pendingQ, cancelQ, doneQ,
                   stopFlag, active, multi, timers, statVars, histVars>>

\* A pointer that is not in the active set is skipped, never dereferenced
OnAsyncCancelSkip ==
    /\ epc = "cancelling" /\ cancelQ # <<>>
    /\ Head(cancelQ) \notin active
    /\ cancelQ' = Tail(cancelQ)
    /\ UNCHANGED <<tableVars, reqVars, hostVars, gameVars, pendingQ, doneQ, flags,
                   loopVars, statVars, histVars>>

\* Variant: the active counter drops for a request on its retry timer as well.
TakeOffCounted(a) ==
    /\ timers' = timers \ {a}
    /\ multi' = multi \ {a}
    /\ statActive' = statActive - 1

\* A cancelled request leaves its retry timer, or else curl_multi
TakeOff(a) ==
    IF a \in retryWait
    THEN timers' = timers \ {a} /\ UNCHANGED <<multi, statActive>>
    ELSE /\ multi' = multi \ {a}
         /\ statActive' = statActive - 1
         /\ UNCHANGED timers

OnAsyncCancel ==
    /\ epc = "cancelling" /\ cancelQ # <<>>
    /\ LET a == Head(cancelQ) IN
       /\ a \in active
       /\ TakeOff(a)
       /\ retryWait' = retryWait \ {a}
       /\ FinishRequest(a)
    /\ cancelQ' = Tail(cancelQ)
    /\ UNCHANGED <<tableVars, hid, ctx, cb, inEvent, closed, code, retries, maxRetries,
                   client, hostVars, gameVars, pendingQ, flags, epc, stopFlag,
                   statPending, statRetries, histVars>>

OnAsyncCancelExit ==
    /\ epc = "cancelling" /\ cancelQ = <<>>
    /\ epc' = "poll"
    /\ UNCHANGED <<tableVars, reqVars, hostVars, gameVars, queueVars, stopFlag, active,
                   multi, timers, statVars, histVars>>

ShouldRetry(a, outcome) ==
    /\ maxRetries[a] # 0
    /\ maxRetries[a] > 0 => retries[a] < maxRetries[a]
    /\ a \notin closed
    /\ outcome # "ok"

\* CheckCompletedJobs, final: the transfer ended and is not retried
CurlDone(a, outcome) ==
    /\ epc = "poll"
    /\ a \in multi
    /\ ~ShouldRetry(a, outcome)
    /\ multi' = multi \ {a}
    /\ statActive' = statActive - 1
    /\ code' = [code EXCEPT ![a] = IF outcome = "err" THEN "err" ELSE "ok"]
    /\ FinishRequest(a)
    /\ UNCHANGED <<tableVars, hid, ctx, cb, inEvent, closed, retryWait, retries,
                   maxRetries, client, hostVars, gameVars, pendingQ, cancelQ, flags,
                   epc, stopFlag, timers, statPending, statRetries, histVars>>

\* Variant: attempts are counted down.
PrepareForRetryCountdown(a) ==
    /\ retries' = [retries EXCEPT ![a] = @ - 1]
    /\ code' = [code EXCEPT ![a] = "none"]
    /\ completed' = completed \ {a}
    /\ retryWait' = retryWait \cup {a}

PrepareForRetry(a) ==
    /\ retries' = [retries EXCEPT ![a] = @ + 1]
    /\ code' = [code EXCEPT ![a] = "none"]
    /\ completed' = completed \ {a}
    /\ retryWait' = retryWait \cup {a}

\* CheckCompletedJobs, retry: PrepareForRetry and a timer of its own
CurlRetry(a, outcome) ==
    /\ epc = "poll"
    /\ a \in multi
    /\ ShouldRetry(a, outcome)
    /\ maxRetries[a] < 0 => retries[a] < RetryCap
    /\ multi' = multi \ {a}
    /\ statActive' = statActive - 1
    /\ PrepareForRetry(a)
    /\ statRetries' = statRetries + 1
    /\ timers' = timers \cup {a}
    /\ UNCHANGED <<tableVars, hid, ctx, cb, inEvent, closed, maxRetries, client, hostVars,
                   gameVars, queueVars, epc, stopFlag, active, statPending,
                   statCompleted, histVars>>

ReaddToMulti(a) ==
    /\ multi' = multi \cup {a}
    /\ statActive' = statActive + 1
    /\ UNCHANGED <<completed, active, doneQ, statCompleted>>

\* Variant: a request closed during its retry wait is sent again.
AfterRetryWaitResends(a) == ReaddToMulti(a)

\* A completed request is left alone, a closed one finishes, any other goes
\* back to curl_multi
AfterRetryWait(a) ==
    CASE a \in completed ->
           UNCHANGED <<completed, active, doneQ, multi, statActive, statCompleted>>
      [] a \notin completed /\ a \in closed ->
           FinishRequest(a) /\ UNCHANGED <<multi, statActive>>
      [] OTHER -> ReaddToMulti(a)

\* The timer is gone in every case
OnRetryTimer(a) ==
    /\ epc = "poll"
    /\ a \in timers
    /\ timers' = timers \ {a}
    /\ retryWait' = IF a \in completed THEN retryWait ELSE retryWait \ {a}
    /\ AfterRetryWait(a)
    /\ UNCHANGED <<tableVars, hid, ctx, cb, inEvent, closed, code, retries, maxRetries,
                   client, hostVars, gameVars, pendingQ, cancelQ, flags, epc, stopFlag,
                   statPending, statRetries, histVars>>

\* uv_run returns at the end of an iteration that saw uv_stop
EventExit ==
    /\ epc = "poll" /\ stopFlag
    /\ epc' = "exited"
    /\ UNCHANGED <<tableVars, reqVars, hostVars, gameVars, queueVars, stopFlag, active,
                   multi, timers, statVars, histVars>>

\* The extension is gone: the only state the system may rest in for ever
Unloaded == gpc = "unloaded" /\ UNCHANGED vars

-----------------------------------------------------------------------------
GameNative ==
    \/ \E p \in Plugin, a \in Addr : Native_HttpNew(p, a)
    \/ \E id \in Id :
         \/ \E n \in RetryLimits : Native_SetRetry(id, n)
         \/ \E c \in Client \cup {NULL} : Native_SetOwner(id, c)
         \/ \E p \in Plugin \cup {NULL} : Native_SetHandlePlugin(id, p)
         \/ \E hasCb \in BOOLEAN : Native_HttpExecute(id, hasCb)
         \/ Native_HttpClose(id)

GameListener ==
    \/ \E c \in Client : OnClientDisconnecting(c)
    \/ \E p \in Plugin : OnPluginUnloaded(p) \/ OnPluginLoaded(p)

GameStep ==
    \/ \E id \in Id : CloseNext(id)
    \/ OnGameFrame
    \/ CompleteSilently
    \/ CompleteCallback
    \/ CallbackReturn
    \/ StopJoined

EventWalk ==
    \/ BeginWalk
    \/ OnAsyncStop
    \/ OnAsyncAddEnter \/ OnAsyncAdd \/ OnAsyncAddExit
    \/ OnAsyncCancelEnter \/ OnAsyncCancelSkip \/ OnAsyncCancel \/ OnAsyncCancelExit

TransferEnds(a) == \E o \in Outcomes : CurlDone(a, o) \/ CurlRetry(a, o)

Next ==
    \/ GameNative
    \/ GameListener
    \/ GameStep
    \/ SDK_OnUnload
    \/ EventWalk
    \/ \E a \in Addr : TransferEnds(a) \/ OnRetryTimer(a)
    \/ EventExit
    \/ Unloaded

Spec == Init /\ [][Next]_vars

\* Plugins, clients and unloading are free to do nothing.  The game runs its
\* frames and returns from its callbacks, the event loop iterates, a transfer
\* ends (CURLOPT_TIMEOUT_MS is always set) and a timer fires.
Fairness ==
    /\ WF_vars(GameStep)
    /\ WF_vars(EventWalk)
    /\ \A a \in Addr : WF_vars(TransferEnds(a)) /\ WF_vars(OnRetryTimer(a))
    /\ WF_vars(EventExit)

FairSpec == Spec /\ Fairness

-----------------------------------------------------------------------------
(* Properties                                                              *)

NoDuplicate(q) == \A i, j \in DOMAIN q : q[i] = q[j] => i = j

\* The places that hold a raw pointer to a request handed to the event thread
\* and not yet given back to OnCompletedGameThread.
Homes == RangeOf(pendingQ) \cup multi \cup timers \cup RangeOf(doneQ)
         \cup RangeOf(batch)

\* A request with in_event_thread set is in exactly one of pending_queue,
\* curl_multi, a retry timer, done_queue and the vector of OnGameFrame, once,
\* and nothing else is there.  The active set is what curl_multi and the timers
\* hold, and in_retry_wait, on which OnAsyncCancel decides where to look, says
\* exactly which requests have a timer.  A double push to done_queue (cancel
\* racing completion or the retry timer) or a request lost between two places
\* breaks it.
OneHome ==
    gpc # "unloaded" =>
        /\ NoDuplicate(pendingQ) /\ NoDuplicate(doneQ) /\ NoDuplicate(batch)
        /\ RangeOf(pendingQ) \cap (active \cup RangeOf(doneQ) \cup RangeOf(batch)) = {}
        /\ active \cap (RangeOf(doneQ) \cup RangeOf(batch)) = {}
        /\ RangeOf(doneQ) \cap RangeOf(batch) = {}
        /\ multi \cap timers = {}
        /\ active = multi \cup timers
        /\ retryWait = timers
        /\ timers \cap completed = {}
        /\ inEvent = Homes

\* No use after free: every pointer that the event thread, the frame loop, the
\* epilogue of a callback or EventLoop::Stop will dereference is a live request
\* that the handle table still owns.  Only cancel_queue may hold freed pointers,
\* and it is empty of them when the event thread has exited.
NoDanglingPointer ==
    /\ \A a \in Homes : hid[a] # 0
    /\ gpc = "callback" => hid[cur] # 0
    /\ epc = "exited" => \A a \in RangeOf(cancelQ) : hid[a] # 0
    /\ \A id \in Id : ptr[id] # NULL => hid[ptr[id]] = id
    /\ \A a \in Addr : hid[a] # 0 => ptr[hid[a]] = a

\* A queued request or cancellation always has its wake-up still to come: the
\* flag of its async handle is set, or the handler is emptying the queue.
NoLostWakeup ==
    /\ pendingQ # <<>> => "add" \in flags \/ epc = "adding"
    /\ cancelQ # <<>> => "cancel" \in flags \/ epc = "cancelling"

\* The counters shown by async2_GetHttpPoolStats: pending and active are exact,
\* and every accepted Execute is counted in exactly one of pending, active,
\* waiting for a retry, and completed.
StatsExact ==
    gpc # "unloaded" =>
        /\ statPending = Len(pendingQ)
        /\ statActive = Cardinality(multi)
        /\ execs = statPending + Cardinality(active) + statCompleted

\* SetRetry promises that "the callback only fires once", and the same holds
\* when a cancellation races the completion.
CallbackAtMostOnce == \A id \in Id : fired[id] <= 1

\* g_client_handles lists exactly the open requests that follow a client: a
\* stale id would cancel a stranger's request, a missing one would let a
\* request outlive its client.
ClientIndexExact ==
    gpc # "unloaded" =>
        \A c \in Client, id \in Id :
            /\ id \in tracked[c] => GetHttpRequest(id) /\ client[ptr[id]] = c
            /\ GetHttpRequest(id) /\ client[ptr[id]] = c => id \in tracked[c] \cup todo

\* A request that was closed is never sent (again): no step puts it into
\* curl_multi, neither from pending_queue nor from a retry timer.
ClosedNeverSent ==
    [][\A a \in Addr : a \in closed /\ hid'[a] = hid[a] /\ a \in multi' => a \in multi]_vars

\* Every accepted Execute ends: the callback has run or is not wanted, and the
\* handle and the request are freed, also when Close, a client disconnect, a
\* plugin unload or an extension unload interferes.
EveryExecuteEnds == \A id \in Id : (ptr[id] \in inEvent) ~> (ptr[id] = NULL)

\* Stopping: the stop flag is only raised by EventLoop::Stop, after which the
\* game thread pushes nothing more; because the walk visits the stop handle
\* first, the queues are emptied before uv_run can return.  This is why Stop may
\* dereference what it drains from pending_queue and cancel_queue: nothing.
StopOrder ==
    /\ "stop" \in flags \/ stopFlag => gpc \in {"joining", "unloaded"}
    /\ epc = "exited" => stopFlag
    /\ gpc = "unloaded" => epc = "exited"
    /\ stopFlag /\ epc \in {"poll", "stop", "exited"} => pendingQ = <<>> /\ cancelQ = <<>>
    /\ stopFlag /\ epc \in {"cancel", "cancelling"} => pendingQ = <<>>

\* Where the game thread is, and what it may touch there: between frames nothing
\* is left of the vector of OnGameFrame; a listener only closes handles that
\* exist; the request whose callback runs belongs to the game thread and is not
\* closed under it; handle ids beyond next_handle_ are unused.
GameControl ==
    /\ gpc = "frame" => batch # <<>>
    /\ gpc \in {"idle", "joining", "unloaded"} => batch = <<>>
    /\ gpc \notin {"idle", "callback"} => todo = {}
    /\ gpc = "callback" => /\ cur \in Addr \ inEvent
                            /\ \A id \in todo : ptr[id] # cur
    /\ \A id \in todo : ptr[id] # NULL
    /\ \A id \in Id : id >= nextId => ptr[id] = NULL
    /\ \A id \in Id : ptr[id] = NULL => owner[id] = NULL
    /\ gpc = "unloaded" => Homes = {}

\* What http.inc says: "Calling Close() inside the callback is safe (no-op,
\* returns 2)", so the request is still there when the callback returns.
CallbackKeepsRequest == gpc = "callback" => hid[cur] # 0
=============================================================================
