----------------------------- MODULE HttpProofs -----------------------------
(***************************************************************************)
(* Proofs about HttpLifecycle, for every set of addresses, plugins and     *)
(* clients and every bound.                                                *)
(***************************************************************************)
EXTENDS HttpLifecycle, FiniteSetTheorems, TLAPS

\* Freeing a handle, existing or not, leaves the table and the requests typed.
LEMMA FreeHandleType ==
    ASSUME TypeOK, NEW id, FreeHandle(id)
    PROVE  /\ ptr' \in [Id -> Addr \cup {NULL}]
           /\ hclosed' \subseteq Id
           /\ owner' \in [Id -> Plugin \cup {NULL}]
           /\ nextId' \in 1 .. MaxId + 1
           /\ hid' \in [Addr -> Id \cup {0}]
           /\ ctx' \in [Addr -> Plugin \cup {NULL}]
           /\ cb' \subseteq Addr
           /\ inEvent' \subseteq Addr
           /\ closed' \subseteq Addr
           /\ completed' \subseteq Addr
           /\ retryWait' \subseteq Addr
           /\ code' \in [Addr -> Codes]
           /\ retries' \in [Addr -> Nat]
           /\ maxRetries' \in [Addr -> Int]
           /\ client' \in [Addr -> Client \cup {NULL}]
<1> DEFINE S == {ptr[id]} \ {NULL}
<1>1. /\ ptr' \in [Id -> Addr \cup {NULL}]
      /\ hclosed' \subseteq Id
      /\ owner' \in [Id -> Plugin \cup {NULL}]
      /\ nextId' \in 1 .. MaxId + 1
  BY DEF TypeOK, FreeHandle
<1>2. /\ hid' = [a \in Addr |-> IF a \in S THEN 0 ELSE hid[a]]
      /\ ctx' = [a \in Addr |-> IF a \in S THEN NULL ELSE ctx[a]]
      /\ cb' = cb \ S
      /\ inEvent' = inEvent \ S
      /\ closed' = closed \ S
      /\ completed' = completed \ S
      /\ retryWait' = retryWait \ S
      /\ code' = [a \in Addr |-> IF a \in S THEN "none" ELSE code[a]]
      /\ retries' = [a \in Addr |-> IF a \in S THEN 0 ELSE retries[a]]
      /\ maxRetries' = [a \in Addr |-> IF a \in S THEN 0 ELSE maxRetries[a]]
      /\ client' = [a \in Addr |-> IF a \in S THEN NULL ELSE client[a]]
  BY Zenon DEF FreeHandle
<1> HIDE DEF S
<1>3. /\ hid' \in [Addr -> Id \cup {0}]
      /\ ctx' \in [Addr -> Plugin \cup {NULL}]
      /\ client' \in [Addr -> Client \cup {NULL}]
  BY <1>2 DEF TypeOK
<1>4. /\ cb' \subseteq Addr
      /\ inEvent' \subseteq Addr
      /\ closed' \subseteq Addr
      /\ completed' \subseteq Addr
      /\ retryWait' \subseteq Addr
  BY <1>2 DEF TypeOK
<1>5. /\ code' \in [Addr -> Codes]
      /\ retries' \in [Addr -> Nat]
      /\ maxRetries' \in [Addr -> Int]
  BY <1>2 DEF TypeOK, Codes
<1> QED
  BY <1>1, <1>3, <1>4, <1>5

\* Closing a request leaves everything typed that it touches.
LEMMA CloseRequestType ==
    ASSUME TypeOK, NEW id \in Id, CloseRequest(id), UNCHANGED <<gpc, batch, cur>>,
           todo' \subseteq Id
    PROVE  TypeOK'
<1> USE DEF tableVars, reqVars, loopVars, statVars, histVars
<1>1. tracked' \in [Client -> SUBSET Id]
  BY DEF TypeOK, CloseRequest, UntrackClientHandle
<1>2. CASE ptr[id] \in inEvent
  <2>1. ptr[id] \in Addr
    BY <1>2 DEF TypeOK
  <2>2. /\ closed' = closed \cup {ptr[id]}
        /\ hclosed' = hclosed \cup {id}
        /\ cancelQ' = Append(cancelQ, ptr[id])
    BY <1>2 DEF CloseRequest, CancelRequest
  <2>3. flags' \subseteq AsyncHandles
    BY <1>2 DEF TypeOK, CloseRequest, CancelRequest, AsyncHandles
  <2>4. UNCHANGED <<ptr, owner, nextId, hid, ctx, cb, inEvent, completed, retryWait, code,
                    retries, maxRetries, client, loaded, pendingQ, doneQ, loopVars,
                    statVars, histVars>>
    BY <1>2 DEF CloseRequest
  <2> QED
    BY <1>1, <2>1, <2>2, <2>3, <2>4, SMTT(30) DEF TypeOK
<1>3. CASE ptr[id] \notin inEvent
  <2>1. FreeHandle(id) /\ UNCHANGED <<cancelQ, flags>>
    BY <1>3 DEF CloseRequest
  <2>2. UNCHANGED <<loaded, pendingQ, doneQ, loopVars, statVars, histVars>>
    BY DEF CloseRequest
  <2> QED
    BY <1>1, <2>1, <2>2, FreeHandleType DEF TypeOK
<1> QED
  BY <1>2, <1>3

\* Type correctness of the request life cycle, whatever a callback does to the
\* request it was called for.
THEOREM TypeCorrect == Spec => []TypeOK
<1> USE DEF TypeOK
<1>1. Init => TypeOK
  <2> SUFFICES ASSUME Init PROVE TypeOK
    OBVIOUS
  <2>1. /\ tracked \in [Client -> SUBSET Id]
        /\ stopFlag \in BOOLEAN
        /\ hid \in [Addr -> Id \cup {0}]
    BY Zenon DEF Init
  <2>2. nextId \in 1 .. MaxId + 1
    BY ConstantsAssumption DEF ConstantsAssumption, Init
  <2>3. batch \in Seq(Addr) /\ pendingQ \in Seq(Addr) /\ cancelQ \in Seq(Addr) /\ doneQ \in Seq(Addr)
    BY DEF Init
  <2>4. QED
    BY <2>1, <2>2, <2>3 DEF Init, Codes
<1>2. TypeOK /\ [Next]_vars => TypeOK'
  <2> SUFFICES ASSUME TypeOK, [Next]_vars PROVE TypeOK'
    OBVIOUS
  <2> USE DEF tableVars, reqVars, hostVars, gameVars, queueVars, loopVars, statVars, histVars
  <2>1. ASSUME NEW p \in Plugin, NEW a \in Addr, Native_HttpNew(p, a) PROVE TypeOK'
    <3>1. nextId \in Id /\ nextId' \in 1 .. MaxId + 1
      BY <2>1, ConstantsAssumption DEF ConstantsAssumption, Native_HttpNew, Id
    <3>2. /\ ptr' \in [Id -> Addr \cup {NULL}] /\ owner' \in [Id -> Plugin \cup {NULL}]
          /\ hid' \in [Addr -> Id \cup {0}] /\ ctx' \in [Addr -> Plugin \cup {NULL}]
      BY <2>1, <3>1 DEF Native_HttpNew
    <3>3. UNCHANGED <<hclosed, cb, inEvent, closed, completed, retryWait, code, retries,
                      maxRetries, client, hostVars, gameVars, queueVars, loopVars,
                      statVars, histVars>>
      BY <2>1 DEF Native_HttpNew
    <3> QED
      BY <3>1, <3>2, <3>3
  <2>2. ASSUME NEW id \in Id, NEW n \in RetryLimits, Native_SetRetry(id, n) PROVE TypeOK'
    BY <2>2, ConstantsAssumption DEF ConstantsAssumption, Native_SetRetry
  <2>3. ASSUME NEW id \in Id, NEW c \in Client \cup {NULL}, Native_SetOwner(id, c) PROVE TypeOK'
    BY <2>3 DEF Native_SetOwner
  <2>4. ASSUME NEW id \in Id, NEW p \in Plugin \cup {NULL}, Native_SetHandlePlugin(id, p) PROVE TypeOK'
    BY <2>4 DEF Native_SetHandlePlugin
  <2>5. ASSUME NEW id \in Id, NEW hasCb \in BOOLEAN, Native_HttpExecute(id, hasCb) PROVE TypeOK'
    BY <2>5, SMTT(30) DEF Native_HttpExecute, EnqueueRequest, GetHttpRequest, AsyncHandles
  <2>6. ASSUME NEW id \in Id, Native_HttpClose(id) PROVE TypeOK'
    BY <2>6, CloseRequestType DEF Native_HttpClose
  <2>7. ASSUME NEW c \in Client, OnClientDisconnecting(c) PROVE TypeOK'
    BY <2>7 DEF OnClientDisconnecting
  <2>8. ASSUME NEW p \in Plugin, OnPluginUnloaded(p) PROVE TypeOK'
    BY <2>8 DEF OnPluginUnloaded
  <2>9. ASSUME NEW p \in Plugin, OnPluginLoaded(p) PROVE TypeOK'
    BY <2>9 DEF OnPluginLoaded
  <2>10. ASSUME NEW id \in Id, CloseNext(id) PROVE TypeOK'
    BY <2>10, CloseRequestType DEF CloseNext
  <2>11. ASSUME OnGameFrame PROVE TypeOK'
    <3>1. flags' \subseteq AsyncHandles
      BY <2>11 DEF OnGameFrame, AsyncHandles
    <3>2. batch' \in Seq(Addr) /\ doneQ' \in Seq(Addr)
      BY <2>11 DEF OnGameFrame
    <3> QED
      BY <2>11, <3>1, <3>2 DEF OnGameFrame
  <2>12. ASSUME CompleteSilently PROVE TypeOK'
    <3>1. batch' \in Seq(Addr)
      BY <2>12 DEF CompleteSilently
    <3>2. tracked' \in [Client -> SUBSET Id]
      BY <2>12 DEF CompleteSilently, UntrackClientHandle
    <3>3. FreeHandle(hid[Head(batch)])
      BY <2>12 DEF CompleteSilently
    <3> QED
      BY <2>12, <3>1, <3>2, <3>3, FreeHandleType DEF CompleteSilently
  <2>13. ASSUME CompleteCallback PROVE TypeOK'
    <3>1. Head(batch) \in Addr /\ batch' \in Seq(Addr) /\ cur' \in Addr
      BY <2>13 DEF CompleteCallback
    <3>2. code' \in [Addr -> Codes] /\ inEvent' \subseteq Addr
      BY <2>13, <3>1 DEF CompleteCallback, Codes
    <3>3. fired' \in [Id -> Nat] /\ gpc' = "callback"
      BY <2>13 DEF CompleteCallback
    <3>4. UNCHANGED <<tableVars, hid, ctx, cb, closed, completed, retryWait, retries,
                      maxRetries, client, hostVars, todo, queueVars, loopVars,
                      statVars, execs>>
      BY <2>13 DEF CompleteCallback
    <3> QED
      BY <3>1, <3>2, <3>3, <3>4
  <2>14. ASSUME CallbackReturn PROVE TypeOK'
    <3>1. PICK id : UntrackClientHandle(id) /\ FreeHandle(id)
      BY <2>14 DEF CallbackReturn
    <3>2. tracked' \in [Client -> SUBSET Id]
      BY <3>1 DEF UntrackClientHandle
    <3> QED
      BY <2>14, <3>1, <3>2, FreeHandleType DEF CallbackReturn
  <2>15. ASSUME StopJoined PROVE TypeOK'
    BY <2>15 DEF StopJoined
  <2>16. ASSUME SDK_OnUnload PROVE TypeOK'
    BY <2>16 DEF SDK_OnUnload, AsyncHandles
  <2>17. ASSUME EventWalk PROVE TypeOK'
    <3>1. CASE BeginWalk
      BY <3>1 DEF BeginWalk
    <3>2. CASE OnAsyncStop
      BY <3>2 DEF OnAsyncStop
    <3>3. CASE OnAsyncAddEnter
      BY <3>3 DEF OnAsyncAddEnter
    <3>4. CASE OnAsyncAdd
      <4>1. /\ Head(pendingQ) \in Addr
            /\ pendingQ' \in Seq(Addr)
        BY <3>4 DEF OnAsyncAdd
      <4> DEFINE Updated == /\ completed' \subseteq Addr /\ active' \subseteq Addr
                            /\ multi' \subseteq Addr /\ doneQ' \in Seq(Addr)
                            /\ statActive' \in Int /\ statCompleted' \in Nat
      <4>2. ASSUME Head(pendingQ) \in closed PROVE Updated
        <5>1. FinishRequest(Head(pendingQ)) /\ UNCHANGED <<multi, statActive>>
          BY <3>4, <4>2 DEF OnAsyncAdd
        <5> QED
          BY <4>1, <5>1, SMTT(30) DEF FinishRequest
      <4>3. ASSUME Head(pendingQ) \notin closed PROVE Updated
        BY <3>4, <4>1, <4>3, SMTT(30) DEF OnAsyncAdd
      <4>4. statPending' \in Int
        BY <3>4 DEF OnAsyncAdd
      <4>5. UNCHANGED <<tableVars, hid, ctx, cb, inEvent, closed, retryWait, code, retries,
                        maxRetries, client, hostVars, gameVars, cancelQ, flags, epc,
                        stopFlag, timers, statRetries, histVars>>
        BY <3>4 DEF OnAsyncAdd
      <4> QED
        BY <4>1, <4>2, <4>3, <4>4, <4>5
    <3>5. CASE OnAsyncAddExit
      BY <3>5 DEF OnAsyncAddExit
    <3>6. CASE OnAsyncCancelEnter
      BY <3>6 DEF OnAsyncCancelEnter
    <3>7. CASE OnAsyncCancelSkip
      BY <3>7, SMTT(30) DEF OnAsyncCancelSkip
    <3>8. CASE OnAsyncCancel
      <4>1. /\ Head(cancelQ) \in Addr
            /\ cancelQ' \in Seq(Addr)
        BY <3>8 DEF OnAsyncCancel
      <4>2. /\ completed' \subseteq Addr /\ active' \subseteq Addr
            /\ doneQ' \in Seq(Addr) /\ statCompleted' \in Nat
        BY <3>8, <4>1 DEF OnAsyncCancel, FinishRequest
      <4>3. /\ multi' \subseteq Addr /\ timers' \subseteq Addr /\ retryWait' \subseteq Addr
            /\ statActive' \in Int
        BY <3>8, <4>1, SMTT(30) DEF OnAsyncCancel, TakeOff
      <4> QED
        BY <3>8, <4>1, <4>2, <4>3 DEF OnAsyncCancel
    <3>9. CASE OnAsyncCancelExit
      BY <3>9 DEF OnAsyncCancelExit
    <3> QED
      BY <2>17, <3>1, <3>2, <3>3, <3>4, <3>5, <3>6, <3>7, <3>8, <3>9 DEF EventWalk
  <2>18. ASSUME NEW a \in Addr, NEW o \in Outcomes, CurlDone(a, o) PROVE TypeOK'
    BY <2>18, SMTT(30) DEF CurlDone, FinishRequest, Codes
  <2>19. ASSUME NEW a \in Addr, NEW o \in Outcomes, CurlRetry(a, o) PROVE TypeOK'
    BY <2>19, SMTT(30) DEF CurlRetry, PrepareForRetry, Codes
  <2>20. ASSUME NEW a \in Addr, OnRetryTimer(a) PROVE TypeOK'
    <3>1. /\ completed' \subseteq Addr /\ active' \subseteq Addr /\ multi' \subseteq Addr
          /\ doneQ' \in Seq(Addr)
          /\ statActive' \in Int /\ statCompleted' \in Nat
      <4>1. AfterRetryWait(a)
        BY <2>20 DEF OnRetryTimer
      <4>2. CASE a \in completed
        BY <4>1, <4>2 DEF AfterRetryWait
      <4>3. CASE a \notin completed /\ a \in closed
        <5>1. FinishRequest(a) /\ UNCHANGED <<multi, statActive>>
          BY <4>1, <4>3 DEF AfterRetryWait
        <5> QED
          BY <5>1 DEF FinishRequest
      <4>4. CASE a \notin completed /\ a \notin closed
        BY <4>1, <4>4, SMTT(30) DEF AfterRetryWait, ReaddToMulti
      <4> QED
        BY <4>2, <4>3, <4>4
    <3>2. retryWait' \subseteq Addr /\ timers' \subseteq Addr
      BY <2>20 DEF OnRetryTimer
    <3> QED
      BY <2>20, <3>1, <3>2 DEF OnRetryTimer
  <2>21. ASSUME EventExit PROVE TypeOK'
    BY <2>21 DEF EventExit
  <2>22. ASSUME UNCHANGED vars PROVE TypeOK'
    BY <2>22 DEF vars
  <2> QED
    BY <2>1, <2>2, <2>3, <2>4, <2>5, <2>6, <2>7, <2>8, <2>9, <2>10, <2>11, <2>12, <2>13, <2>14, <2>15, <2>16, <2>17, <2>18, <2>19, <2>20, <2>21, <2>22 DEF Next, GameNative, GameListener, GameStep, TransferEnds, Unloaded
<1>3. QED
  BY <1>1, <1>2, PTL DEF Spec

-----------------------------------------------------------------------------
(* Sequences without duplicates, as the queues are used: append, head, tail  *)

LEMMA RangeAppend ==
    ASSUME NEW S, NEW q \in Seq(S), NEW a \in S
    PROVE  RangeOf(Append(q, a)) = RangeOf(q) \cup {a}
<1>1. /\ DOMAIN q = 1 .. Len(q)
      /\ DOMAIN Append(q, a) = 1 .. Len(q) + 1
      /\ \A i \in 1 .. Len(q) : Append(q, a)[i] = q[i]
      /\ Append(q, a)[Len(q) + 1] = a
      /\ Len(q) \in Nat
  OBVIOUS
<1>2. ASSUME NEW x \in RangeOf(Append(q, a)) PROVE x \in RangeOf(q) \cup {a}
  BY <1>1 DEF RangeOf
<1>3. ASSUME NEW x \in RangeOf(q) PROVE x \in RangeOf(Append(q, a))
  <2>1. PICK i \in DOMAIN q : x = q[i]
    BY DEF RangeOf
  <2>2. i \in DOMAIN Append(q, a) /\ Append(q, a)[i] = x
    BY <1>1, <2>1
  <2> QED
    BY <2>2 DEF RangeOf
<1>4. a \in RangeOf(Append(q, a))
  BY <1>1 DEF RangeOf
<1> QED
  BY <1>2, <1>3, <1>4

LEMMA NoDuplicateAppend ==
    ASSUME NEW S, NEW q \in Seq(S), NEW a \in S, NoDuplicate(q), a \notin RangeOf(q)
    PROVE  NoDuplicate(Append(q, a))
  BY DEF NoDuplicate, RangeOf

LEMMA NoDuplicateTail ==
    ASSUME NEW S, NEW q \in Seq(S), q # <<>>, NoDuplicate(q)
    PROVE  /\ Head(q) \in RangeOf(q)
           /\ RangeOf(Tail(q)) = RangeOf(q) \ {Head(q)}
           /\ NoDuplicate(Tail(q))
<1>1. Head(q) \in RangeOf(q)
  BY DEF RangeOf
<1>2. NoDuplicate(Tail(q))
  BY DEF NoDuplicate
<1>3. ASSUME NEW x \in RangeOf(Tail(q)) PROVE x \in RangeOf(q) \ {Head(q)}
  BY DEF NoDuplicate, RangeOf
<1>4. ASSUME NEW x \in RangeOf(q) \ {Head(q)} PROVE x \in RangeOf(Tail(q))
  <2>1. PICK i \in DOMAIN q : x = q[i]
    BY DEF RangeOf
  <2>2. i # 1
    BY <2>1
  <2>3. i - 1 \in DOMAIN Tail(q) /\ Tail(q)[i - 1] = x
    BY <2>1, <2>2
  <2> QED
    BY <2>3 DEF RangeOf
<1> QED
  BY <1>1, <1>2, <1>3, <1>4

LEMMA EmptyQueue ==
    /\ RangeOf(<<>>) = {}
    /\ NoDuplicate(<<>>)
  BY DEF RangeOf, NoDuplicate

LEMMA RangeInSet ==
    ASSUME NEW S, NEW q \in Seq(S)
    PROVE  RangeOf(q) \subseteq S
  BY DEF RangeOf

-----------------------------------------------------------------------------
(* The invariant.  OneHome and NoDanglingPointer are what matters;           *)
(* NoLostWakeup and StopOrder are needed to know that cancel_queue is empty  *)
(* when the event thread exits, GameControl to know that what the game       *)
(* thread frees is not in any home.                                          *)

Safe ==
    /\ OneHome
    /\ NoDanglingPointer
    /\ NoLostWakeup
    /\ StopOrder
    /\ GameControl

\* The variables Safe speaks of
safeVars == <<ptr, hid, nextId, owner, inEvent, completed, retryWait, gameVars, queueVars,
              loopVars>>

\* The part of TypeOK the invariant needs
TypeCore ==
    /\ ptr \in [Id -> Addr \cup {NULL}]
    /\ hid \in [Addr -> Id \cup {0}]
    /\ nextId \in 1 .. MaxId + 1
    /\ owner \in [Id -> Plugin \cup {NULL}]
    /\ inEvent \subseteq Addr
    /\ completed \subseteq Addr
    /\ retryWait \subseteq Addr
    /\ gpc \in {"idle", "frame", "callback", "joining", "unloaded"}
    /\ batch \in Seq(Addr)
    /\ todo \subseteq Id
    /\ pendingQ \in Seq(Addr)
    /\ cancelQ \in Seq(Addr)
    /\ doneQ \in Seq(Addr)
    /\ active \subseteq Addr
    /\ multi \subseteq Addr
    /\ timers \subseteq Addr
    /\ epc \in {"poll", "stop", "add", "adding", "cancel", "cancelling", "exited"}
    /\ NULL \notin Addr
    /\ NULL \notin Plugin
    /\ Id \subseteq Nat \ {0}

LEMMA TypeCoreHolds == ASSUME TypeOK PROVE TypeCore
  BY ConstantsAssumption DEF ConstantsAssumption, TypeOK, TypeCore, Id

LEMMA SafeInit == Init => Safe
<1> SUFFICES ASSUME Init PROVE Safe
  OBVIOUS
<1>1. Homes = {}
  BY EmptyQueue DEF Init, Homes
<1>2. OneHome
  BY <1>1, EmptyQueue DEF Init, OneHome
<1>3. NoDanglingPointer
  BY <1>1, EmptyQueue DEF Init, NoDanglingPointer
<1>4. NoLostWakeup /\ StopOrder
  BY DEF Init, NoLostWakeup, StopOrder
<1>5. GameControl
  BY <1>1 DEF Init, GameControl
<1> QED
  BY <1>2, <1>3, <1>4, <1>5 DEF Safe

\* A step that touches none of the variables of Safe, but perhaps hands an
\* existing handle to another plugin
LEMMA SafeUnchanged ==
    ASSUME TypeCore, Safe,
           UNCHANGED <<ptr, hid, nextId, inEvent, completed, retryWait, gameVars, queueVars,
                       loopVars>>,
           \A id \in Id : ptr[id] = NULL => owner'[id] = NULL
    PROVE  Safe'
<1> USE DEF gameVars, queueVars, loopVars
<1>1. Homes' = Homes
  BY DEF Homes, RangeOf
<1>2. OneHome'
  BY <1>1 DEF Safe, OneHome, RangeOf, NoDuplicate
<1>3. NoDanglingPointer'
  BY <1>1 DEF Safe, NoDanglingPointer, RangeOf
<1>4. NoLostWakeup' /\ StopOrder'
  BY DEF Safe, NoLostWakeup, StopOrder
<1>5. GameControl'
  BY <1>1 DEF Safe, GameControl
<1> QED
  BY <1>2, <1>3, <1>4, <1>5 DEF Safe

LEMMA SafeNew ==
    ASSUME TypeCore, Safe, NEW p \in Plugin, NEW a \in Addr, Native_HttpNew(p, a)
    PROVE  Safe'
<1> USE DEF gameVars, queueVars, loopVars
<1>0. nextId \in Id
  BY ConstantsAssumption DEF ConstantsAssumption, Native_HttpNew, TypeCore, Id
<1>1. Homes' = Homes
  BY DEF Native_HttpNew, Homes, RangeOf
<1>2. OneHome'
  BY <1>1 DEF Native_HttpNew, Safe, OneHome, RangeOf, NoDuplicate
<1>3. NoDanglingPointer'
  <2>1. /\ \A b \in Homes : hid'[b] # 0
        /\ gpc = "callback" => hid'[cur] # 0
        /\ \A b \in RangeOf(cancelQ) : epc = "exited" => hid'[b] # 0
    BY <1>0, RangeInSet DEF Native_HttpNew, Safe, NoDanglingPointer, TypeCore, GameControl
  <2>2. ptr[nextId] = NULL
    BY <1>0 DEF Safe, GameControl, TypeCore
  <2>3. \A id \in Id : ptr'[id] # NULL => hid'[ptr'[id]] = id
    BY <1>0, <2>2 DEF Native_HttpNew, Safe, NoDanglingPointer, TypeCore
  <2>4. \A b \in Addr : hid'[b] # 0 => ptr'[hid'[b]] = b
    BY <1>0, <2>2 DEF Native_HttpNew, Safe, NoDanglingPointer, TypeCore
  <2> QED
    BY <1>1, <2>1, <2>3, <2>4 DEF Native_HttpNew, NoDanglingPointer, RangeOf
<1>4. NoLostWakeup' /\ StopOrder'
  BY DEF Native_HttpNew, Safe, NoLostWakeup, StopOrder
<1>5. GameControl'
  BY <1>0, <1>1 DEF Native_HttpNew, Safe, GameControl, NoDanglingPointer, TypeCore, InNative
<1> QED
  BY <1>2, <1>3, <1>4, <1>5 DEF Safe

LEMMA SafeExecute ==
    ASSUME TypeCore, Safe, CallbackOps = {}, NEW id \in Id, NEW hasCb \in BOOLEAN,
           Native_HttpExecute(id, hasCb)
    PROVE  Safe'
<1> USE DEF gameVars, loopVars, tableVars
<1> DEFINE a == ptr[id]
<1>0. /\ a \in Addr /\ a \notin inEvent /\ hid[a] = id
      /\ gpc \in {"idle", "callback"} /\ ~(gpc = "callback" /\ a = cur)
  BY DEF Native_HttpExecute, GetHttpRequest, InNative, IsCurrent, Safe, NoDanglingPointer,
         TypeCore
<1>1. /\ inEvent' = inEvent \cup {a}
      /\ pendingQ' = Append(pendingQ, a)
      /\ flags' = flags \cup {"add"}
      /\ UNCHANGED <<ptr, hid, nextId, owner, completed, retryWait, gameVars, cancelQ, doneQ,
                     loopVars>>
  BY DEF Native_HttpExecute, EnqueueRequest
<1> HIDE DEF a
<1>2. OneHome /\ inEvent = Homes
  BY <1>0 DEF Safe, OneHome
<1>3. RangeOf(pendingQ') = RangeOf(pendingQ) \cup {a} /\ NoDuplicate(pendingQ')
  BY <1>0, <1>1, <1>2, RangeAppend, NoDuplicateAppend DEF TypeCore, OneHome, Homes
<1>4. Homes' = Homes \cup {a}
  BY <1>1, <1>3 DEF Homes
<1>5. OneHome'
  BY <1>0, <1>1, <1>2, <1>3, <1>4 DEF OneHome, Homes
<1>6. NoDanglingPointer'
  BY <1>0, <1>1, <1>4 DEF Safe, NoDanglingPointer, TypeCore
<1>7. NoLostWakeup'
  BY <1>1 DEF Safe, NoLostWakeup
<1>8. StopOrder'
  BY <1>0, <1>1 DEF Safe, StopOrder
<1>9. GameControl'
  BY <1>0, <1>1, <1>4 DEF Safe, GameControl
<1> QED
  BY <1>5, <1>6, <1>7, <1>8, <1>9 DEF Safe

\* Freeing a handle whose request is in no home
LEMMA SafeFree ==
    ASSUME TypeCore, Safe, NEW id \in Id, ptr[id] # NULL, ptr[id] \notin inEvent,
           gpc # "unloaded", FreeHandle(id),
           UNCHANGED <<queueVars, loopVars>>,
           gpc' = "callback" => gpc = "callback" /\ cur' = cur /\ ptr[id] # cur,
           gpc' \in {"idle", "frame", "callback", "joining"},
           RangeOf(batch') = RangeOf(batch) /\ NoDuplicate(batch'),
           gpc' = "frame" => batch' # <<>>,
           gpc' \in {"idle", "joining"} => batch' = <<>>,
           todo' \subseteq todo \ {id}, gpc' \notin {"idle", "callback"} => todo' = {},
           gpc' = "joining" <=> gpc = "joining"
    PROVE  Safe'
<1> USE DEF queueVars, loopVars
<1> DEFINE a == ptr[id]
<1>0. /\ a \in Addr /\ a \notin inEvent /\ hid[a] = id
  BY DEF Safe, NoDanglingPointer, TypeCore
<1>1. /\ ptr' = [ptr EXCEPT ![id] = NULL]
      /\ owner' = [owner EXCEPT ![id] = NULL]
      /\ hid' = [b \in Addr |-> IF b = a THEN 0 ELSE hid[b]]
      /\ inEvent' = inEvent \ {a}
      /\ completed' = completed \ {a}
      /\ retryWait' = retryWait \ {a}
      /\ nextId' = nextId
  BY DEF FreeHandle
<1> HIDE DEF a
<1>2. OneHome /\ inEvent = Homes
  BY DEF Safe, OneHome
<1>3. Homes' = Homes
  BY DEF Homes
<1>4. OneHome'
  BY <1>0, <1>1, <1>2, <1>3 DEF OneHome, Homes
<1>5. NoDanglingPointer'
  <2>1. \A b \in Homes' : hid'[b] # 0
    BY <1>0, <1>1, <1>2, <1>3 DEF Safe, NoDanglingPointer, TypeCore
  <2>2. gpc' = "callback" => hid'[cur'] # 0
    BY <1>0, <1>1 DEF Safe, NoDanglingPointer, GameControl, a
  <2>3. epc' = "exited" => cancelQ' = <<>>
    BY DEF Safe, StopOrder
  <2>4. \A i \in Id : ptr'[i] # NULL => hid'[ptr'[i]] = i
    BY <1>0, <1>1 DEF Safe, NoDanglingPointer, TypeCore
  <2>5. \A b \in Addr : hid'[b] # 0 => ptr'[hid'[b]] = b
    BY <1>0, <1>1 DEF Safe, NoDanglingPointer, TypeCore
  <2> QED
    BY <2>1, <2>2, <2>3, <2>4, <2>5, EmptyQueue DEF NoDanglingPointer
<1>6. NoLostWakeup' /\ StopOrder'
  BY DEF Safe, NoLostWakeup, StopOrder
<1>7. GameControl'
  BY <1>0, <1>1, <1>3 DEF Safe, GameControl, TypeCore, a
<1> QED
  BY <1>4, <1>5, <1>6, <1>7 DEF Safe

\* CloseRequest on an existing handle that is not the one being called back
LEMMA SafeCloseRequest ==
    ASSUME TypeCore, Safe, NEW id \in Id, ptr[id] # NULL, gpc \in {"idle", "callback"},
           ~IsCurrent(id), CloseRequest(id), UNCHANGED <<gpc, batch, cur>>,
           todo' \subseteq todo \ {id}
    PROVE  Safe'
<1>1. CASE ptr[id] \in inEvent
  <2> USE DEF loopVars
  <2>0. ptr[id] \in Addr
    BY <1>1 DEF TypeCore
  <2>1. /\ cancelQ' = Append(cancelQ, ptr[id])
        /\ flags' = flags \cup {"cancel"}
        /\ UNCHANGED <<ptr, hid, nextId, owner, inEvent, completed, retryWait, gpc, batch, cur,
                       pendingQ, doneQ, loopVars>>
    BY <1>1 DEF CloseRequest, CancelRequest
  <2>2. Homes' = Homes
    BY <2>1 DEF Homes
  <2>3. OneHome'
    BY <2>1, <2>2 DEF Safe, OneHome
  <2>4. epc # "exited"
    BY DEF Safe, StopOrder
  <2>5. NoDanglingPointer'
    BY <2>1, <2>2, <2>4 DEF Safe, NoDanglingPointer
  <2>6. NoLostWakeup'
    BY <2>1 DEF Safe, NoLostWakeup
  <2>7. StopOrder'
    BY <2>1 DEF Safe, StopOrder
  <2>8. GameControl'
    BY <2>1, <2>2 DEF Safe, GameControl
  <2> QED
    BY <2>3, <2>5, <2>6, <2>7, <2>8 DEF Safe
<1>2. CASE ptr[id] \notin inEvent
  <2>1. FreeHandle(id) /\ UNCHANGED <<queueVars, loopVars>>
    BY <1>2 DEF CloseRequest, queueVars
  <2>2. NoDuplicate(batch) /\ (gpc = "idle" => batch = <<>>)
    BY DEF Safe, OneHome, GameControl
  <2> QED
    BY <1>2, <2>1, <2>2, SafeFree DEF IsCurrent
<1> QED
  BY <1>1, <1>2

LEMMA SafeClose ==
    ASSUME TypeCore, Safe, CallbackOps = {}, NEW id \in Id, Native_HttpClose(id)
    PROVE  Safe'
<1>1. /\ ptr[id] # NULL /\ gpc \in {"idle", "callback"} /\ ~IsCurrent(id)
      /\ CloseRequest(id) /\ UNCHANGED <<gpc, batch, cur>> /\ todo' = {} /\ todo = {}
  BY DEF Native_HttpClose, InNative, GetHttpRequest, gameVars
<1> QED
  BY <1>1, SafeCloseRequest

LEMMA SafeCloseNext ==
    ASSUME TypeCore, Safe, NEW id \in Id, CloseNext(id)
    PROVE  Safe'
<1>1. /\ ptr[id] # NULL /\ gpc \in {"idle", "callback"} /\ ~IsCurrent(id)
  BY DEF CloseNext, Safe, GameControl, IsCurrent
<1>2. /\ CloseRequest(id) /\ UNCHANGED <<gpc, batch, cur>> /\ todo' = todo \ {id}
  BY DEF CloseNext
<1> QED
  BY <1>1, <1>2, SafeCloseRequest

\* The listeners only decide which handles are to be closed
LEMMA SafeListener ==
    ASSUME TypeCore, Safe, NEW S \in SUBSET Id, todo' = S,
           \A id \in S : ptr[id] # NULL /\ ~IsCurrent(id),
           gpc \in {"idle", "callback"},
           UNCHANGED <<ptr, hid, nextId, inEvent, completed, retryWait, gpc, batch, cur,
                       queueVars, loopVars>>,
           \A id \in Id : ptr[id] = NULL => owner'[id] = NULL
    PROVE  Safe'
<1> USE DEF queueVars, loopVars
<1>1. Homes' = Homes
  BY DEF Homes
<1>2. OneHome'
  BY <1>1 DEF Safe, OneHome
<1>3. NoDanglingPointer'
  BY <1>1 DEF Safe, NoDanglingPointer
<1>4. NoLostWakeup' /\ StopOrder'
  BY DEF Safe, NoLostWakeup, StopOrder
<1>5. GameControl'
  BY <1>1 DEF Safe, GameControl, IsCurrent
<1> QED
  BY <1>2, <1>3, <1>4, <1>5 DEF Safe

LEMMA SafeDisconnect ==
    ASSUME TypeCore, TypeOK, Safe, CallbackOps = {}, NEW c \in Client, OnClientDisconnecting(c)
    PROVE  Safe'
<1> DEFINE S == {id \in tracked[c] : GetHttpRequest(id)}
<1>1. S \in SUBSET Id /\ todo' = S /\ gpc \in {"idle", "callback"}
  BY DEF OnClientDisconnecting, TypeOK, InNative
<1>2. \A id \in S : ptr[id] # NULL /\ ~IsCurrent(id)
  BY DEF OnClientDisconnecting, GetHttpRequest
<1>3. /\ UNCHANGED <<ptr, hid, nextId, inEvent, completed, retryWait, gpc, batch, cur,
                     queueVars, loopVars>>
      /\ owner' = owner
  BY DEF OnClientDisconnecting, tableVars, reqVars
<1>4. \A id \in Id : ptr[id] = NULL => owner'[id] = NULL
  BY <1>3 DEF Safe, GameControl
<1> QED
  BY <1>1, <1>2, <1>3, <1>4, SafeListener

LEMMA SafePluginUnloaded ==
    ASSUME TypeCore, Safe, NEW p \in Plugin, OnPluginUnloaded(p)
    PROVE  Safe'
<1> DEFINE S == {id \in Id : owner[id] = p}
<1>1. S \in SUBSET Id /\ todo' = S /\ gpc = "idle"
  BY DEF OnPluginUnloaded
<1>2. \A id \in S : ptr[id] # NULL /\ ~IsCurrent(id)
  BY <1>1 DEF Safe, GameControl, TypeCore, IsCurrent
<1>3. UNCHANGED <<ptr, hid, nextId, inEvent, completed, retryWait, gpc, batch, cur,
                  queueVars, loopVars>>
  BY DEF OnPluginUnloaded, reqVars
<1>4. \A id \in Id : ptr[id] = NULL => owner'[id] = NULL
  BY DEF OnPluginUnloaded, Safe, GameControl
<1> QED
  BY <1>1, <1>2, <1>3, <1>4, SafeListener

LEMMA SafeGameFrame ==
    ASSUME TypeCore, Safe, OnGameFrame
    PROVE  Safe'
<1>1. /\ gpc = "idle" /\ batch = <<>> /\ todo = {} /\ todo' = {}
      /\ batch' = doneQ /\ doneQ' = <<>>
      /\ gpc' = IF doneQ # <<>> THEN "frame" ELSE "idle"
      /\ flags' = IF pendingQ # <<>> THEN flags \cup {"add"} ELSE flags
      /\ UNCHANGED <<ptr, hid, nextId, owner, inEvent, completed, retryWait, cur, pendingQ,
                     cancelQ, epc, stopFlag, active, multi, timers>>
  BY DEF OnGameFrame, Safe, GameControl, tableVars, reqVars, loopVars
<1>2. Homes' = Homes
  BY <1>1, EmptyQueue DEF Homes
<1>3. OneHome'
  BY <1>1, <1>2, EmptyQueue DEF Safe, OneHome
<1>4. NoDanglingPointer'
  BY <1>1, <1>2 DEF Safe, NoDanglingPointer
<1>5. NoLostWakeup' /\ StopOrder'
  BY <1>1 DEF Safe, NoLostWakeup, StopOrder
<1>6. GameControl'
  BY <1>1, <1>2 DEF Safe, GameControl
<1> QED
  BY <1>3, <1>4, <1>5, <1>6 DEF Safe

LEMMA SafeCompleteSilently ==
    ASSUME TypeCore, Safe, CompleteSilently
    PROVE  Safe'
<1> DEFINE a == Head(batch)
           id == hid[a]
<1>0. /\ gpc = "frame" /\ batch # <<>> /\ todo = {} /\ todo' = {}
      /\ batch' = Tail(batch) /\ gpc' = IF Tail(batch) = <<>> THEN "idle" ELSE "frame"
      /\ FreeHandle(id)
      /\ UNCHANGED <<pendingQ, cancelQ, doneQ, flags, epc, stopFlag, active, multi, timers>>
  BY DEF CompleteSilently, Safe, GameControl, queueVars, loopVars
<1>1. /\ OneHome /\ inEvent = Homes /\ NoDuplicate(batch)
      /\ RangeOf(batch) \cap (RangeOf(pendingQ) \cup active \cup RangeOf(doneQ)) = {}
      /\ retryWait = timers /\ active = multi \cup timers
  BY <1>0 DEF Safe, OneHome
<1>2. /\ a \in RangeOf(batch) /\ RangeOf(Tail(batch)) = RangeOf(batch) \ {a}
      /\ NoDuplicate(Tail(batch))
  BY <1>0, <1>1, NoDuplicateTail DEF TypeCore
<1>3. a \in Addr /\ id \in Id /\ ptr[id] = a
  BY <1>1, <1>2, RangeInSet DEF Safe, NoDanglingPointer, TypeCore, Homes
<1>4. /\ ptr' = [ptr EXCEPT ![id] = NULL]
      /\ owner' = [owner EXCEPT ![id] = NULL]
      /\ hid' = [b \in Addr |-> IF b = a THEN 0 ELSE hid[b]]
      /\ inEvent' = inEvent \ {a}
      /\ completed' = completed \ {a}
      /\ retryWait' = retryWait \ {a}
      /\ nextId' = nextId
  BY <1>0, <1>3 DEF FreeHandle, TypeCore
<1>5. RangeOf(batch') = RangeOf(batch) \ {a} /\ NoDuplicate(batch')
  BY <1>0, <1>2
<1> HIDE DEF a, id
<1>6. Homes' = Homes \ {a}
  BY <1>0, <1>1, <1>2, <1>5 DEF Homes
<1>7. OneHome'
  BY <1>0, <1>1, <1>2, <1>4, <1>5, <1>6 DEF OneHome
<1>8. NoDanglingPointer'
  <2>1. \A b \in Homes' : hid'[b] # 0
    BY <1>1, <1>4, <1>6 DEF Safe, NoDanglingPointer, TypeCore
  <2>2. epc' = "exited" => cancelQ' = <<>>
    BY <1>0 DEF Safe, StopOrder
  <2>3. \A i \in Id : ptr'[i] # NULL => hid'[ptr'[i]] = i
    BY <1>3, <1>4 DEF Safe, NoDanglingPointer, TypeCore
  <2>4. \A b \in Addr : hid'[b] # 0 => ptr'[hid'[b]] = b
    BY <1>3, <1>4 DEF Safe, NoDanglingPointer, TypeCore, id
  <2> QED
    BY <1>0, <2>1, <2>2, <2>3, <2>4, EmptyQueue DEF NoDanglingPointer
<1>9. NoLostWakeup' /\ StopOrder'
  BY <1>0 DEF Safe, NoLostWakeup, StopOrder
<1>10. GameControl'
  BY <1>0, <1>3, <1>4 DEF Safe, GameControl, TypeCore
<1> QED
  BY <1>7, <1>8, <1>9, <1>10 DEF Safe

LEMMA SafeCompleteCallback ==
    ASSUME TypeCore, Safe, CompleteCallback
    PROVE  Safe'
<1> DEFINE a == Head(batch)
<1>0. /\ gpc = "frame" /\ batch # <<>> /\ todo = {} /\ todo' = {}
      /\ batch' = Tail(batch) /\ gpc' = "callback" /\ cur' = a /\ inEvent' = inEvent \ {a}
      /\ UNCHANGED <<ptr, hid, nextId, owner, completed, retryWait, pendingQ, cancelQ, doneQ,
                     flags, epc, stopFlag, active, multi, timers>>
  BY DEF CompleteCallback, Safe, GameControl, queueVars, loopVars, tableVars
<1>1. /\ OneHome /\ inEvent = Homes /\ NoDuplicate(batch)
      /\ RangeOf(batch) \cap (RangeOf(pendingQ) \cup active \cup RangeOf(doneQ)) = {}
      /\ active = multi \cup timers
  BY <1>0 DEF Safe, OneHome
<1>2. /\ a \in RangeOf(batch) /\ RangeOf(Tail(batch)) = RangeOf(batch) \ {a}
      /\ NoDuplicate(Tail(batch))
  BY <1>0, <1>1, NoDuplicateTail DEF TypeCore
<1>3. a \in Addr /\ hid[a] # 0
  BY <1>1, <1>2, RangeInSet DEF Safe, NoDanglingPointer, TypeCore, Homes
<1>5. RangeOf(batch') = RangeOf(batch) \ {a} /\ NoDuplicate(batch')
  BY <1>0, <1>2
<1> HIDE DEF a
<1>6. Homes' = Homes \ {a}
  BY <1>0, <1>1, <1>2, <1>5 DEF Homes
<1>7. OneHome'
  BY <1>0, <1>1, <1>2, <1>5, <1>6 DEF OneHome
<1>8. NoDanglingPointer'
  BY <1>0, <1>3, <1>6 DEF Safe, NoDanglingPointer
<1>9. NoLostWakeup' /\ StopOrder'
  BY <1>0 DEF Safe, NoLostWakeup, StopOrder
<1>10. GameControl'
  BY <1>0, <1>3 DEF Safe, GameControl
<1> QED
  BY <1>7, <1>8, <1>9, <1>10 DEF Safe

LEMMA SafeCallbackReturn ==
    ASSUME TypeCore, Safe, CallbackReturn
    PROVE  Safe'
<1>0. /\ gpc = "callback" /\ todo = {} /\ UNCHANGED <<batch, todo, queueVars, loopVars>>
      /\ gpc' = IF batch = <<>> THEN "idle" ELSE "frame"
  BY DEF CallbackReturn
<1>1. /\ cur \in Addr /\ cur \notin inEvent /\ hid[cur] \in Id /\ ptr[hid[cur]] = cur
  BY <1>0 DEF Safe, GameControl, NoDanglingPointer, TypeCore
<1>2. FreeHandle(hid[cur])
  BY <1>1 DEF CallbackReturn, TypeCore
<1>3. NoDuplicate(batch) /\ cur # NULL
  BY <1>0, <1>1 DEF Safe, OneHome, TypeCore
<1> QED
  BY <1>0, <1>1, <1>2, <1>3, SafeFree

LEMMA SafeStopJoined ==
    ASSUME TypeCore, Safe, StopJoined
    PROVE  Safe'
<1>0. /\ gpc' = "unloaded" /\ multi' = {} /\ timers' = {} /\ epc = "exited" /\ epc' = "exited"
      /\ pendingQ' = <<>> /\ cancelQ' = <<>> /\ doneQ' = <<>> /\ batch' = <<>> /\ todo' = {}
      /\ ptr' = [i \in Id |-> NULL] /\ owner' = [i \in Id |-> NULL]
      /\ stopFlag' = stopFlag /\ nextId' = nextId
      /\ hid' = [b \in Addr |-> IF b \in RangeOf(ptr) THEN 0 ELSE hid[b]]
  BY DEF StopJoined, Safe, GameControl
<1>1. Homes' = {}
  BY <1>0, EmptyQueue DEF Homes
<1>2. \A b \in Addr : hid'[b] = 0
  BY <1>0 DEF RangeOf, Safe, NoDanglingPointer, TypeCore
<1>3. OneHome' /\ NoDanglingPointer'
  BY <1>0, <1>1, <1>2, EmptyQueue DEF OneHome, NoDanglingPointer
<1>4. NoLostWakeup' /\ StopOrder'
  BY <1>0 DEF Safe, NoLostWakeup, StopOrder
<1>5. GameControl'
  BY <1>0, <1>1 DEF GameControl
<1> QED
  BY <1>3, <1>4, <1>5 DEF Safe

LEMMA SafeOnUnload ==
    ASSUME TypeCore, Safe, SDK_OnUnload
    PROVE  Safe'
<1> USE DEF loopVars, tableVars, reqVars
<1>0. /\ gpc = "idle" /\ gpc' = "joining" /\ todo = {} /\ flags' = flags \cup {"stop"}
      /\ UNCHANGED <<ptr, hid, nextId, owner, inEvent, completed, retryWait, batch, cur, todo,
                     pendingQ, cancelQ, doneQ, loopVars>>
  BY DEF SDK_OnUnload
<1>1. Homes' = Homes
  BY <1>0 DEF Homes
<1>2. OneHome'
  BY <1>0, <1>1 DEF Safe, OneHome
<1>3. NoDanglingPointer'
  BY <1>0, <1>1 DEF Safe, NoDanglingPointer
<1>4. NoLostWakeup' /\ StopOrder'
  BY <1>0 DEF Safe, NoLostWakeup, StopOrder
<1>5. GameControl'
  BY <1>0, <1>1 DEF Safe, GameControl
<1> QED
  BY <1>2, <1>3, <1>4, <1>5 DEF Safe

\* Steps of the event thread that only move its control point
LEMMA SafeControl ==
    ASSUME TypeCore, Safe,
           \/ BeginWalk \/ OnAsyncStop \/ OnAsyncAddEnter \/ OnAsyncAddExit
           \/ OnAsyncCancelEnter \/ OnAsyncCancelExit \/ EventExit
    PROVE  Safe'
<1> USE DEF tableVars, reqVars, gameVars, queueVars
<1>0. UNCHANGED <<ptr, hid, nextId, owner, inEvent, completed, retryWait, gpc, batch, cur, todo,
                  pendingQ, cancelQ, doneQ, active, multi, timers>>
  BY DEF BeginWalk, OnAsyncStop, OnAsyncAddEnter, OnAsyncAddExit, OnAsyncCancelEnter,
         OnAsyncCancelExit, EventExit
<1>1. Homes' = Homes
  BY <1>0 DEF Homes
<1>2. OneHome'
  BY <1>0, <1>1 DEF Safe, OneHome
<1>3. NoLostWakeup'
  BY DEF BeginWalk, OnAsyncStop, OnAsyncAddEnter, OnAsyncAddExit, OnAsyncCancelEnter,
         OnAsyncCancelExit, EventExit, Safe, NoLostWakeup
<1>4. StopOrder'
  <2>1. CASE BeginWalk
    BY <2>1 DEF BeginWalk, Safe, StopOrder
  <2>2. CASE OnAsyncStop
    BY <2>2 DEF OnAsyncStop, Safe, StopOrder
  <2>3. CASE OnAsyncAddEnter
    BY <2>3 DEF OnAsyncAddEnter, Safe, NoLostWakeup, StopOrder
  <2>4. CASE OnAsyncAddExit
    BY <2>4 DEF OnAsyncAddExit, Safe, StopOrder
  <2>5. CASE OnAsyncCancelEnter
    BY <2>5 DEF OnAsyncCancelEnter, Safe, NoLostWakeup, StopOrder
  <2>6. CASE OnAsyncCancelExit
    BY <2>6 DEF OnAsyncCancelExit, Safe, StopOrder
  <2>7. CASE EventExit
    BY <2>7 DEF EventExit, Safe, StopOrder
  <2> QED
    BY <2>1, <2>2, <2>3, <2>4, <2>5, <2>6, <2>7
<1>5. epc' = "exited" => RangeOf(cancelQ') = {}
  BY <1>4, EmptyQueue DEF StopOrder
<1>6. NoDanglingPointer'
  BY <1>0, <1>1, <1>5 DEF Safe, NoDanglingPointer
<1>7. GameControl'
  BY <1>0, <1>1 DEF Safe, GameControl
<1> QED
  BY <1>2, <1>3, <1>4, <1>6, <1>7 DEF Safe

\* Steps of the event thread that move one request to another home: the part of
\* Safe that is not OneHome follows when no request enters or leaves the homes.
LEMMA SafeMove ==
    ASSUME TypeCore, Safe, OneHome', gpc # "unloaded", epc # "exited", Homes' = Homes,
           UNCHANGED <<ptr, hid, nextId, owner, inEvent, gameVars, flags, epc, stopFlag>>,
           pendingQ' = pendingQ \/ (epc = "adding" /\ pendingQ # <<>>),
           cancelQ' = cancelQ \/ (epc = "cancelling" /\ cancelQ # <<>>)
    PROVE  Safe'
<1> USE DEF gameVars
<1>1. NoDanglingPointer'
  BY DEF Safe, NoDanglingPointer
<1>2. NoLostWakeup'
  BY DEF Safe, NoLostWakeup
<1>3. StopOrder'
  BY DEF Safe, StopOrder
<1>4. GameControl'
  BY DEF Safe, GameControl
<1> QED
  BY <1>1, <1>2, <1>3, <1>4 DEF Safe

\* The push to done_queue
LEMMA FinishQueue ==
    ASSUME TypeCore, OneHome, gpc # "unloaded", NEW a \in Addr,
           a \notin RangeOf(doneQ), FinishRequest(a)
    PROVE  RangeOf(doneQ') = RangeOf(doneQ) \cup {a} /\ NoDuplicate(doneQ')
  BY RangeAppend, NoDuplicateAppend DEF TypeCore, OneHome, FinishRequest

LEMMA SafeAdd ==
    ASSUME TypeCore, Safe, OnAsyncAdd
    PROVE  Safe'
<1> DEFINE a == Head(pendingQ)
<1>0. /\ epc = "adding" /\ pendingQ # <<>> /\ pendingQ' = Tail(pendingQ)
      /\ UNCHANGED <<ptr, hid, nextId, owner, inEvent, retryWait, gameVars, cancelQ, flags,
                     epc, stopFlag, timers>>
  BY DEF OnAsyncAdd, tableVars
<1>1. gpc # "unloaded"
  BY <1>0 DEF Safe, StopOrder
<1>2. OneHome /\ inEvent = Homes
  BY <1>1 DEF Safe, OneHome
<1>3. /\ a \in RangeOf(pendingQ) /\ a \in Addr
      /\ RangeOf(pendingQ') = RangeOf(pendingQ) \ {a} /\ NoDuplicate(pendingQ')
  BY <1>0, <1>1, <1>2, NoDuplicateTail DEF TypeCore, OneHome
<1>4. a \notin active /\ a \notin RangeOf(doneQ) /\ a \notin RangeOf(batch)
  BY <1>1, <1>2, <1>3 DEF OneHome
<1>5. CASE a \in closed
  <2>1. FinishRequest(a) /\ multi' = multi
    BY <1>5 DEF OnAsyncAdd
  <2>2. RangeOf(doneQ') = RangeOf(doneQ) \cup {a} /\ NoDuplicate(doneQ')
    BY <1>1, <1>2, <1>3, <1>4, <2>1, FinishQueue
  <2>3. active' = active \ {a} /\ completed' = completed \cup {a}
    BY <2>1 DEF FinishRequest
  <2> HIDE DEF a
  <2>4. Homes' = Homes
    BY <1>0, <1>3, <2>1, <2>2 DEF Homes, gameVars
  <2>5. OneHome'
    BY <1>0, <1>1, <1>2, <1>3, <1>4, <2>1, <2>2, <2>3, <2>4 DEF OneHome, gameVars
  <2> QED
    BY <1>0, <1>1, <2>4, <2>5, SafeMove
<1>6. CASE a \notin closed
  <2>1. /\ active' = active \cup {a} /\ multi' = multi \cup {a}
        /\ UNCHANGED <<completed, doneQ>>
    BY <1>6 DEF OnAsyncAdd
  <2> HIDE DEF a
  <2>4. Homes' = Homes
    BY <1>0, <1>3, <2>1 DEF Homes, gameVars
  <2>5. OneHome'
    BY <1>0, <1>1, <1>2, <1>3, <1>4, <2>1, <2>4 DEF OneHome, gameVars
  <2> QED
    BY <1>0, <1>1, <2>4, <2>5, SafeMove
<1> QED
  BY <1>5, <1>6

LEMMA SafeCancelSkip ==
    ASSUME TypeCore, Safe, OnAsyncCancelSkip
    PROVE  Safe'
<1> USE DEF tableVars, reqVars, gameVars, loopVars
<1>0. /\ epc = "cancelling" /\ cancelQ # <<>>
      /\ UNCHANGED <<ptr, hid, nextId, owner, inEvent, completed, retryWait, gameVars,
                     pendingQ, doneQ, flags, loopVars>>
  BY DEF OnAsyncCancelSkip
<1>1. Homes' = Homes /\ gpc # "unloaded"
  BY <1>0 DEF Homes, Safe, StopOrder
<1>2. OneHome'
  BY <1>0, <1>1 DEF Safe, OneHome
<1> QED
  BY <1>0, <1>1, <1>2, SafeMove

LEMMA SafeCancel ==
    ASSUME TypeCore, Safe, OnAsyncCancel
    PROVE  Safe'
<1> DEFINE a == Head(cancelQ)
<1>0. /\ epc = "cancelling" /\ cancelQ # <<>> /\ a \in active
      /\ retryWait' = retryWait \ {a} /\ TakeOff(a) /\ FinishRequest(a)
      /\ UNCHANGED <<ptr, hid, nextId, owner, inEvent, gameVars, pendingQ, flags, epc,
                     stopFlag>>
  BY DEF OnAsyncCancel, tableVars
<1> HIDE DEF a
<1>1. gpc # "unloaded"
  BY <1>0 DEF Safe, StopOrder
<1>2. OneHome /\ inEvent = Homes /\ a \in Addr
  BY <1>0, <1>1 DEF Safe, OneHome, TypeCore
<1>3. /\ a \notin RangeOf(pendingQ) /\ a \notin RangeOf(doneQ) /\ a \notin RangeOf(batch)
  BY <1>0, <1>1, <1>2 DEF OneHome
<1>4. RangeOf(doneQ') = RangeOf(doneQ) \cup {a} /\ NoDuplicate(doneQ')
  BY <1>0, <1>1, <1>2, <1>3, FinishQueue
<1>5. active' = active \ {a} /\ completed' = completed \cup {a}
  BY <1>0 DEF FinishRequest
<1>6. multi' = multi \ {a} /\ timers' = timers \ {a}
  BY <1>0, <1>1, <1>2 DEF TakeOff, OneHome
<1>7. Homes' = Homes
  BY <1>0, <1>1, <1>2, <1>4, <1>6 DEF Homes, gameVars, OneHome
<1>8. OneHome'
  BY <1>0, <1>1, <1>2, <1>3, <1>4, <1>5, <1>6, <1>7 DEF OneHome, gameVars
<1> QED
  BY <1>0, <1>1, <1>7, <1>8, SafeMove

LEMMA SafeCurlDone ==
    ASSUME TypeCore, Safe, NEW a \in Addr, NEW o \in Outcomes, CurlDone(a, o)
    PROVE  Safe'
<1>0. /\ epc = "poll" /\ a \in multi /\ multi' = multi \ {a} /\ FinishRequest(a)
      /\ UNCHANGED <<ptr, hid, nextId, owner, inEvent, retryWait, gameVars, pendingQ, cancelQ,
                     flags, epc, stopFlag, timers>>
  BY DEF CurlDone, tableVars
<1>1. gpc # "unloaded"
  BY <1>0 DEF Safe, StopOrder
<1>2. OneHome /\ inEvent = Homes
  BY <1>1 DEF Safe, OneHome
<1>3. /\ a \notin RangeOf(pendingQ) /\ a \notin RangeOf(doneQ) /\ a \notin RangeOf(batch)
      /\ a \notin timers
  BY <1>0, <1>1, <1>2 DEF OneHome
<1>4. RangeOf(doneQ') = RangeOf(doneQ) \cup {a} /\ NoDuplicate(doneQ')
  BY <1>0, <1>1, <1>2, <1>3, FinishQueue
<1>5. active' = active \ {a} /\ completed' = completed \cup {a}
  BY <1>0 DEF FinishRequest
<1>6. Homes' = Homes
  BY <1>0, <1>4 DEF Homes, gameVars
<1>7. OneHome'
  BY <1>0, <1>1, <1>2, <1>3, <1>4, <1>5, <1>6 DEF OneHome, gameVars
<1> QED
  BY <1>0, <1>1, <1>6, <1>7, SafeMove

LEMMA SafeCurlRetry ==
    ASSUME TypeCore, Safe, NEW a \in Addr, NEW o \in Outcomes, CurlRetry(a, o)
    PROVE  Safe'
<1>0. /\ epc = "poll" /\ a \in multi /\ multi' = multi \ {a} /\ timers' = timers \cup {a}
      /\ completed' = completed \ {a} /\ retryWait' = retryWait \cup {a}
      /\ UNCHANGED <<ptr, hid, nextId, owner, inEvent, gameVars, pendingQ, cancelQ, doneQ,
                     flags, epc, stopFlag, active>>
  BY DEF CurlRetry, PrepareForRetry, tableVars, queueVars
<1>1. gpc # "unloaded"
  BY <1>0 DEF Safe, StopOrder
<1>2. OneHome
  BY DEF Safe
<1>3. Homes' = Homes
  BY <1>0 DEF Homes, gameVars
<1>4. OneHome'
  BY <1>0, <1>1, <1>2, <1>3 DEF OneHome, gameVars
<1> QED
  BY <1>0, <1>1, <1>3, <1>4, SafeMove

LEMMA SafeRetryTimer ==
    ASSUME TypeCore, Safe, NEW a \in Addr, OnRetryTimer(a)
    PROVE  Safe'
<1>0. /\ epc = "poll" /\ a \in timers /\ timers' = timers \ {a} /\ AfterRetryWait(a)
      /\ UNCHANGED <<ptr, hid, nextId, owner, inEvent, gameVars, pendingQ, cancelQ, flags, epc,
                     stopFlag>>
  BY DEF OnRetryTimer, tableVars
<1>1. gpc # "unloaded"
  BY <1>0 DEF Safe, StopOrder
<1>2. OneHome /\ a \notin completed
  BY <1>0, <1>1 DEF Safe, OneHome
<1>3. retryWait' = retryWait \ {a}
  BY <1>2 DEF OnRetryTimer
<1>4. /\ a \notin RangeOf(pendingQ) /\ a \notin RangeOf(doneQ) /\ a \notin RangeOf(batch)
      /\ a \notin multi
  BY <1>0, <1>1, <1>2 DEF OneHome
<1>5. CASE a \in closed
  <2>1. FinishRequest(a) /\ multi' = multi
    BY <1>0, <1>2, <1>5 DEF AfterRetryWait
  <2>2. RangeOf(doneQ') = RangeOf(doneQ) \cup {a} /\ NoDuplicate(doneQ')
    BY <1>1, <1>2, <1>4, <2>1, FinishQueue
  <2>3. active' = active \ {a} /\ completed' = completed \cup {a}
    BY <2>1 DEF FinishRequest
  <2>4. Homes' = Homes
    BY <1>0, <2>1, <2>2 DEF Homes, gameVars
  <2>5. OneHome'
    BY <1>0, <1>1, <1>2, <1>3, <1>4, <2>1, <2>2, <2>3, <2>4 DEF OneHome, gameVars
  <2> QED
    BY <1>0, <1>1, <2>4, <2>5, SafeMove
<1>6. CASE a \notin closed
  <2>1. multi' = multi \cup {a} /\ UNCHANGED <<completed, active, doneQ>>
    BY <1>0, <1>2, <1>6 DEF AfterRetryWait, ReaddToMulti
  <2>2. Homes' = Homes
    BY <1>0, <2>1 DEF Homes, gameVars
  <2>3. OneHome'
    BY <1>0, <1>1, <1>2, <1>3, <1>4, <2>1, <2>2 DEF OneHome, gameVars
  <2> QED
    BY <1>0, <1>1, <2>2, <2>3, SafeMove
<1> QED
  BY <1>5, <1>6

\* Every step preserves the invariant, if no callback closes, re-executes or
\* disconnects the client of the request it was called for.
LEMMA SafeNext ==
    ASSUME CallbackOps = {}, TypeOK, Safe, [Next]_vars
    PROVE  Safe'
<1>0. TypeCore
  BY TypeCoreHolds
<1>1. ASSUME NEW p \in Plugin, NEW a \in Addr, Native_HttpNew(p, a) PROVE Safe'
  BY <1>0, <1>1, SafeNew
<1>2. ASSUME NEW id \in Id, NEW n \in RetryLimits, Native_SetRetry(id, n) PROVE Safe'
  <2>1. \A i \in Id : ptr[i] = NULL => owner'[i] = NULL
    BY <1>2 DEF Native_SetRetry, tableVars, Safe, GameControl
  <2> QED
    BY <1>0, <1>2, <2>1, SafeUnchanged DEF Native_SetRetry, tableVars
<1>3. ASSUME NEW id \in Id, NEW c \in Client \cup {NULL}, Native_SetOwner(id, c) PROVE Safe'
  <2>1. \A i \in Id : ptr[i] = NULL => owner'[i] = NULL
    BY <1>3 DEF Native_SetOwner, tableVars, Safe, GameControl
  <2> QED
    BY <1>0, <1>3, <2>1, SafeUnchanged DEF Native_SetOwner, tableVars
<1>4. ASSUME NEW id \in Id, NEW p \in Plugin \cup {NULL}, Native_SetHandlePlugin(id, p)
      PROVE Safe'
  <2>1. \A i \in Id : ptr[i] = NULL => owner'[i] = NULL
    BY <1>0, <1>4 DEF Native_SetHandlePlugin, GetHttpRequest, Safe, GameControl, TypeCore
  <2> QED
    BY <1>0, <1>4, <2>1, SafeUnchanged DEF Native_SetHandlePlugin, reqVars
<1>5. ASSUME NEW id \in Id, NEW hasCb \in BOOLEAN, Native_HttpExecute(id, hasCb) PROVE Safe'
  BY <1>0, <1>5, SafeExecute
<1>6. ASSUME NEW id \in Id, Native_HttpClose(id) PROVE Safe'
  BY <1>0, <1>6, SafeClose
<1>7. ASSUME NEW c \in Client, OnClientDisconnecting(c) PROVE Safe'
  BY <1>0, <1>7, SafeDisconnect
<1>8. ASSUME NEW p \in Plugin, OnPluginUnloaded(p) PROVE Safe'
  BY <1>0, <1>8, SafePluginUnloaded
<1>9. ASSUME NEW p \in Plugin, OnPluginLoaded(p) PROVE Safe'
  <2>1. \A i \in Id : ptr[i] = NULL => owner'[i] = NULL
    BY <1>9 DEF OnPluginLoaded, tableVars, Safe, GameControl
  <2> QED
    BY <1>0, <1>9, <2>1, SafeUnchanged DEF OnPluginLoaded, tableVars, reqVars
<1>10. ASSUME NEW id \in Id, CloseNext(id) PROVE Safe'
  BY <1>0, <1>10, SafeCloseNext
<1>11. CASE OnGameFrame
  BY <1>0, <1>11, SafeGameFrame
<1>12. CASE CompleteSilently
  BY <1>0, <1>12, SafeCompleteSilently
<1>13. CASE CompleteCallback
  BY <1>0, <1>13, SafeCompleteCallback
<1>14. CASE CallbackReturn
  BY <1>0, <1>14, SafeCallbackReturn
<1>15. CASE StopJoined
  BY <1>0, <1>15, SafeStopJoined
<1>16. CASE SDK_OnUnload
  BY <1>0, <1>16, SafeOnUnload
<1>17. CASE EventWalk \/ EventExit
  BY <1>0, <1>17, SafeControl, SafeAdd, SafeCancelSkip, SafeCancel DEF EventWalk
<1>18. ASSUME NEW a \in Addr, TransferEnds(a) PROVE Safe'
  BY <1>0, <1>18, SafeCurlDone, SafeCurlRetry DEF TransferEnds
<1>19. ASSUME NEW a \in Addr, OnRetryTimer(a) PROVE Safe'
  BY <1>0, <1>19, SafeRetryTimer
<1>20. CASE UNCHANGED vars
  <2>1. \A i \in Id : ptr[i] = NULL => owner'[i] = NULL
    BY <1>20 DEF vars, tableVars, Safe, GameControl
  <2> QED
    BY <1>0, <1>20, <2>1, SafeUnchanged DEF vars, tableVars, reqVars
<1> QED
  BY <1>1, <1>2, <1>3, <1>4, <1>5, <1>6, <1>7, <1>8, <1>9, <1>10, <1>11, <1>12, <1>13, <1>14,
     <1>15, <1>16, <1>17, <1>18, <1>19, <1>20
     DEF Next, GameNative, GameListener, GameStep, Unloaded

\* The invariant holds in every reachable state, as long as no callback frees or
\* re-executes its own request.
THEOREM SafeAlways ==
    ASSUME CallbackOps = {}
    PROVE  Spec => [](TypeOK /\ Safe)
<1>1. Init => Safe
  BY SafeInit
<1>2. TypeOK /\ Safe /\ [Next]_vars => Safe'
  BY SafeNext
<1> QED
  BY <1>1, <1>2, TypeCorrect, PTL DEF Spec

\* For any number of requests, plugins, clients and addresses: a request handed to
\* the event thread is in exactly one place, once, whatever the interleaving of
\* completions, retries, Close, client disconnects, plugin unloads and the
\* extension unload.
THEOREM RequestSafety ==
    ASSUME CallbackOps = {}
    PROVE  Spec => []OneHome
<1>1. Spec => [](TypeOK /\ Safe)
  BY SafeAlways
<1>2. Safe => OneHome
  BY DEF Safe
<1> QED
  BY <1>1, <1>2, PTL

\* No pointer that either thread, or EventLoop::Stop after the join, will
\* dereference is dangling, and the handle table and the requests agree.
THEOREM PointersAlive ==
    ASSUME CallbackOps = {}
    PROVE  Spec => []NoDanglingPointer
<1>1. Spec => [](TypeOK /\ Safe)
  BY SafeAlways
<1>2. Safe => NoDanglingPointer
  BY DEF Safe
<1> QED
  BY <1>1, <1>2, PTL

\* A queued request or cancellation is never forgotten by the event thread
\* (EnqueueRequest, CancelRequest, OnAsyncAdd, OnAsyncCancel).
THEOREM WakeupSafety ==
    ASSUME CallbackOps = {}
    PROVE  Spec => []NoLostWakeup
<1>1. Spec => [](TypeOK /\ Safe)
  BY SafeAlways
<1>2. Safe => NoLostWakeup
  BY DEF Safe
<1> QED
  BY <1>1, <1>2, PTL

\* Only EventLoop::Stop raises the stop flag, and the event thread exits with both
\* of its input queues empty (OnAsyncStop, Start's order of the async handles).
THEOREM StopsInOrder ==
    ASSUME CallbackOps = {}
    PROVE  Spec => []StopOrder
<1>1. Spec => [](TypeOK /\ Safe)
  BY SafeAlways
<1>2. Safe => StopOrder
  BY DEF Safe
<1> QED
  BY <1>1, <1>2, PTL

-----------------------------------------------------------------------------
(* A callback runs once                                                      *)

\* A handle whose callback has run is gone, or its callback is running
FiredInv ==
    \A id \in Id :
        /\ fired[id] \in {0, 1}
        /\ fired[id] = 1 => id < nextId /\ (ptr[id] = NULL \/ (gpc = "callback" /\ ptr[id] = cur))

\* A step that runs no callback and, while one runs, keeps its request
LEMMA FiredKept ==
    ASSUME FiredInv, fired' = fired, nextId' \in Int, nextId' >= nextId, nextId \in Int,
           \A id \in Id : id < nextId /\ ptr[id] = NULL => ptr'[id] = NULL,
           gpc = "callback" => /\ gpc' = "callback" /\ cur' = cur
                               /\ \A id \in Id : ptr[id] = cur => ptr'[id] \in {NULL, cur}
    PROVE  FiredInv'
  BY DEF FiredInv, Id

\* Freeing a handle keeps the others
LEMMA FreeKeepsOthers ==
    ASSUME TypeOK, NEW id \in Id, FreeHandle(id)
    PROVE  /\ nextId' = nextId
           /\ \A i \in Id : ptr'[i] = NULL \/ ptr'[i] = ptr[i]
  BY DEF FreeHandle, TypeOK

LEMMA FiredNext ==
    ASSUME TypeOK, Safe, FiredInv, [Next]_vars
    PROVE  FiredInv'
<1> USE DEF tableVars, gameVars, histVars
<1>0. nextId \in Int /\ ptr \in [Id -> Addr \cup {NULL}] /\ hid \in [Addr -> Id \cup {0}]
      /\ NULL \notin Addr /\ Id \subseteq Nat \ {0} /\ fired \in [Id -> Nat]
  BY TypeCoreHolds, SMTT(30) DEF TypeCore, TypeOK
<1>1. CASE UNCHANGED <<ptr, nextId, gpc, cur, fired>>
  BY <1>0, <1>1, FiredKept
<1>2. ASSUME NEW p \in Plugin, NEW a \in Addr, Native_HttpNew(p, a) PROVE FiredInv'
  <2>1. /\ ptr' = [ptr EXCEPT ![nextId] = a] /\ nextId' = nextId + 1 /\ nextId \in Id
        /\ UNCHANGED <<fired, gpc, cur>>
    BY <1>0, <1>2 DEF Native_HttpNew, TypeOK, Id
  <2>2. ptr[nextId] = NULL
    BY <2>1 DEF Safe, GameControl, Id
  <2>3. \A i \in Id : i # nextId => ptr'[i] = ptr[i]
    BY <1>0, <2>1
  <2>4. gpc = "callback" => cur \in Addr
    BY DEF Safe, GameControl
  <2> QED
    BY <1>0, <2>1, <2>2, <2>3, <2>4, FiredKept DEF Id
<1>3. ASSUME NEW id \in Id, CloseRequest(id), UNCHANGED <<gpc, cur>> PROVE FiredInv'
  <2>1. fired' = fired /\ (FreeHandle(id) \/ UNCHANGED <<ptr, nextId>>)
    BY <1>3 DEF CloseRequest
  <2>2. CASE UNCHANGED <<ptr, nextId>>
    BY <1>0, <1>3, <2>1, <2>2, FiredKept
  <2>3. CASE FreeHandle(id)
    BY <1>0, <1>3, <2>1, <2>3, FreeKeepsOthers, FiredKept
  <2> QED
    BY <2>1, <2>2, <2>3
<1>4. CASE CompleteSilently
  <2>1. /\ gpc = "frame" /\ fired' = fired /\ FreeHandle(hid[Head(batch)])
        /\ batch # <<>> /\ hid[Head(batch)] # 0
    BY <1>4 DEF CompleteSilently
  <2>2. Head(batch) \in Addr
    BY <2>1 DEF TypeOK
  <2>3. hid[Head(batch)] \in Id
    BY <1>0, <2>1, <2>2
  <2>4. nextId' = nextId /\ \A i \in Id : ptr'[i] = NULL \/ ptr'[i] = ptr[i]
    BY <2>1, <2>3, FreeKeepsOthers
  <2> QED
    BY <1>0, <2>1, <2>4, FiredKept
\* The request called back comes out of the vector of OnGameFrame, so it had no
\* callback before
<1>5. CASE CompleteCallback
  <2> DEFINE a == Head(batch)
  <2>1. /\ gpc = "frame" /\ gpc' = "callback" /\ cur' = a /\ batch # <<>>
        /\ UNCHANGED <<ptr, nextId>>
        /\ fired' = [i \in Id |-> IF i = hid[a] THEN fired[i] + 1 ELSE fired[i]]
    BY <1>5 DEF CompleteCallback
  <2>2. a \in Addr /\ a \in Homes
    BY <2>1 DEF TypeOK, Homes, RangeOf
  <2>3. hid[a] \in Id /\ ptr[hid[a]] = a /\ hid[a] < nextId
    <3>1. hid[a] \in Id /\ ptr[hid[a]] = a
      BY <1>0, <2>2 DEF Safe, NoDanglingPointer
    <3> QED
      BY <1>0, <2>2, <3>1 DEF Safe, GameControl
  <2> HIDE DEF a
  <2>4. fired[hid[a]] = 0
    BY <1>0, <2>1, <2>2, <2>3 DEF FiredInv
  <2> QED
    BY <1>0, <2>1, <2>2, <2>3, <2>4 DEF FiredInv
<1>6. CASE CallbackReturn
  <2>1. gpc = "callback" /\ gpc' \in {"idle", "frame"} /\ fired' = fired
    BY <1>6 DEF CallbackReturn
  <2>2. cur \in Addr /\ hid[cur] \in Id /\ ptr[hid[cur]] = cur
    BY <1>0, <2>1 DEF Safe, GameControl, NoDanglingPointer
  <2>3. FreeHandle(hid[cur])
    BY <1>0, <1>6, <2>2 DEF CallbackReturn
  <2>4. ptr' = [ptr EXCEPT ![hid[cur]] = NULL] /\ nextId' = nextId
    BY <2>3 DEF FreeHandle
  <2>5. \A i \in Id : ptr[i] = cur => i = hid[cur]
    BY <1>0, <2>2 DEF Safe, NoDanglingPointer
  <2> QED
    BY <1>0, <2>1, <2>2, <2>4, <2>5 DEF FiredInv
<1>7. CASE StopJoined
  <2>1. gpc = "joining" /\ fired' = fired /\ nextId' = nextId /\ ptr' = [i \in Id |-> NULL]
    BY <1>7 DEF StopJoined
  <2> QED
    BY <1>0, <2>1, FiredKept
<1>8. CASE OnGameFrame \/ SDK_OnUnload
  <2>1. gpc = "idle" /\ UNCHANGED <<ptr, nextId, fired>>
    BY <1>8 DEF OnGameFrame, SDK_OnUnload
  <2> QED
    BY <1>0, <2>1, FiredKept
<1>9. CASE EventWalk \/ EventExit
  BY <1>1, <1>9
  DEF EventWalk, EventExit, BeginWalk, OnAsyncStop, OnAsyncAddEnter, OnAsyncAdd, OnAsyncAddExit,
      OnAsyncCancelEnter, OnAsyncCancelSkip, OnAsyncCancel, OnAsyncCancelExit
<1>10. ASSUME NEW a \in Addr, TransferEnds(a) \/ OnRetryTimer(a) PROVE FiredInv'
  BY <1>1, <1>10 DEF TransferEnds, CurlDone, CurlRetry, OnRetryTimer
<1>11. CASE GameListener
  BY <1>1, <1>11 DEF GameListener, OnClientDisconnecting, OnPluginUnloaded, OnPluginLoaded
<1>12. CASE GameNative
  <2>1. ASSUME NEW id \in Id, Native_HttpClose(id) PROVE FiredInv'
    BY <1>3, <2>1 DEF Native_HttpClose
  <2> QED
    BY <1>1, <1>2, <1>12, <2>1
    DEF GameNative, Native_SetRetry, Native_SetOwner, Native_SetHandlePlugin, Native_HttpExecute
<1>13. ASSUME NEW id \in Id, CloseNext(id) PROVE FiredInv'
  BY <1>3, <1>13 DEF CloseNext
<1>14. CASE UNCHANGED vars
  BY <1>1, <1>14 DEF vars
<1> QED
  BY <1>4, <1>5, <1>6, <1>7, <1>8, <1>9, <1>10, <1>11, <1>12, <1>13, <1>14
  DEF Next, GameStep, Unloaded

\* A request's callback runs at most once, whatever retries, cancellations and
\* completions race, as long as no callback frees or re-executes its own request
\* (OnCompletedGameThread).
THEOREM CallbackOnce ==
    ASSUME CallbackOps = {}
    PROVE  Spec => []CallbackAtMostOnce
<1>1. Init => FiredInv
  BY DEF Init, FiredInv
<1>2. TypeOK /\ Safe /\ FiredInv /\ [Next]_vars => FiredInv'
  BY FiredNext
<1>3. FiredInv => CallbackAtMostOnce
  BY DEF FiredInv, CallbackAtMostOnce
<1>4. Spec => [](TypeOK /\ Safe)
  BY SafeAlways
<1> QED
  BY <1>1, <1>2, <1>3, <1>4, PTL DEF Spec

\* A request that was closed is never put into curl_multi (again), whatever a
\* callback does to its request (OnAsyncAdd, OnRetryTimer).
THEOREM ClosedStaysOut == Spec => ClosedNeverSent
<1> DEFINE Kept == \A a \in Addr : a \in closed /\ hid'[a] = hid[a] /\ a \in multi' => a \in multi
<1>1. ASSUME [Next]_vars PROVE Kept
  <2> USE DEF loopVars
  <2>1. CASE GameNative \/ GameListener \/ SDK_OnUnload \/ EventExit
    <3>1. multi' = multi
      BY <2>1
      DEF GameNative, GameListener, SDK_OnUnload, EventExit, Native_HttpNew, Native_SetRetry,
          Native_SetOwner, Native_SetHandlePlugin, Native_HttpExecute, Native_HttpClose,
          CloseRequest, OnClientDisconnecting, OnPluginUnloaded, OnPluginLoaded
    <3> QED
      BY <3>1
  <2>2. CASE GameStep
    <3>1. multi' \in {multi, {}}
      BY <2>2
      DEF GameStep, CloseNext, CloseRequest, OnGameFrame, CompleteSilently, CompleteCallback,
          CallbackReturn, StopJoined
    <3> QED
      BY <3>1
  <2>3. CASE OnAsyncAdd
    BY <2>3 DEF OnAsyncAdd
  <2>4. CASE OnAsyncCancel
    BY <2>4 DEF OnAsyncCancel, TakeOff
  <2>5. CASE EventWalk
    BY <2>3, <2>4, <2>5
    DEF EventWalk, BeginWalk, OnAsyncStop, OnAsyncAddEnter, OnAsyncAddExit, OnAsyncCancelEnter,
        OnAsyncCancelSkip, OnAsyncCancelExit
  <2>6. ASSUME NEW b \in Addr, TransferEnds(b) PROVE Kept
    BY <2>6 DEF TransferEnds, CurlDone, CurlRetry
  <2>7. ASSUME NEW b \in Addr, OnRetryTimer(b) PROVE Kept
    BY <2>7 DEF OnRetryTimer, AfterRetryWait, ReaddToMulti
  <2>8. CASE UNCHANGED vars
    BY <2>8 DEF vars
  <2> QED
    BY <1>1, <2>1, <2>2, <2>5, <2>6, <2>7, <2>8 DEF Next, Unloaded
<1> QED
  BY <1>1, PTL DEF Spec, ClosedNeverSent

-----------------------------------------------------------------------------
(* The index of the requests that follow a client                            *)

\* Freed memory follows no client, so a new request is not tracked
IndexInv ==
    /\ ClientIndexExact
    /\ gpc # "unloaded" => \A a \in Addr : hid[a] = 0 => client[a] = NULL

\* A handle is closed or freed, and leaves the index with it
LEMMA IndexRemove ==
    ASSUME TypeOK, Safe, IndexInv, gpc # "unloaded", NEW id \in Id, ptr[id] # NULL,
           UntrackClientHandle(id), todo' = todo \ {id},
           \/ FreeHandle(id)
           \/ hclosed' = hclosed \cup {id} /\ UNCHANGED <<ptr, hid, client>>
    PROVE  IndexInv'
<1> DEFINE a == ptr[id]
<1>1. /\ a \in Addr /\ NULL \notin Client /\ ptr \in [Id -> Addr \cup {NULL}] /\ NULL \notin Addr
      /\ \A i \in Id : ptr[i] # NULL => hid[ptr[i]] = i
  BY ConstantsAssumption DEF ConstantsAssumption, TypeOK, Safe, NoDanglingPointer
<1>2. \A i \in Id : i # id /\ ptr[i] # NULL => ptr[i] # a
  BY <1>1
<1>3. tracked' = [c \in Client |-> tracked[c] \ {id}]
  BY DEF UntrackClientHandle
<1>4. /\ \A i \in Id : i # id => ptr'[i] = ptr[i] /\ (i \in hclosed' <=> i \in hclosed)
      /\ \A b \in Addr : b # a => client'[b] = client[b] /\ hid'[b] = hid[b]
      /\ client'[a] = NULL \/ (client'[a] = client[a] /\ hid'[a] = hid[a])
      /\ ptr'[id] = NULL \/ id \in hclosed'
  <2>1. CASE FreeHandle(id)
    BY <1>1, <2>1 DEF FreeHandle, TypeOK
  <2>2. CASE hclosed' = hclosed \cup {id} /\ UNCHANGED <<ptr, hid, client>>
    BY <2>2
  <2> QED
    BY <2>1, <2>2
<1> HIDE DEF a
<1>5. ASSUME NEW c \in Client, NEW i \in Id
      PROVE  /\ i \in tracked'[c] => GetHttpRequest(i)' /\ client'[ptr'[i]] = c
             /\ GetHttpRequest(i)' /\ client'[ptr'[i]] = c => i \in tracked'[c] \cup todo'
  <2>1. CASE i = id
    BY <1>3, <1>4, <2>1 DEF GetHttpRequest
  <2>2. CASE i # id
    <3>1. /\ i \in tracked'[c] <=> i \in tracked[c]
          /\ GetHttpRequest(i)' <=> GetHttpRequest(i)
          /\ GetHttpRequest(i) => client'[ptr'[i]] = client[ptr[i]]
          /\ i \in todo' <=> i \in todo
      BY <1>1, <1>2, <1>3, <1>4, <2>2 DEF GetHttpRequest
    <3> QED
      BY <3>1 DEF IndexInv, ClientIndexExact
  <2> QED
    BY <2>1, <2>2
<1>6. \A b \in Addr : hid'[b] = 0 => client'[b] = NULL
  BY <1>4 DEF IndexInv
<1> QED
  BY <1>5, <1>6 DEF IndexInv, ClientIndexExact

LEMMA IndexUnchanged ==
    ASSUME IndexInv, UNCHANGED <<ptr, hclosed, hid, client, tracked, todo>>,
           gpc = "unloaded" => gpc' = "unloaded"
    PROVE  IndexInv'
  BY DEF IndexInv, ClientIndexExact, GetHttpRequest

LEMMA IndexNext ==
    ASSUME TypeOK, Safe, IndexInv, [Next]_vars
    PROVE  IndexInv'
<1> USE DEF tableVars, reqVars, hostVars, gameVars
<1>0. /\ ptr \in [Id -> Addr \cup {NULL}] /\ hid \in [Addr -> Id \cup {0}]
      /\ client \in [Addr -> Client \cup {NULL}] /\ tracked \in [Client -> SUBSET Id]
      /\ nextId \in 1 .. MaxId + 1
      /\ NULL \notin Addr /\ NULL \notin Client /\ Id \subseteq Nat \ {0}
      /\ \A i \in Id : ptr[i] # NULL => hid[ptr[i]] = i
  BY ConstantsAssumption, TypeCoreHolds
  DEF ConstantsAssumption, TypeCore, TypeOK, Safe, NoDanglingPointer
<1>1. ASSUME NEW p \in Plugin, NEW a \in Addr, Native_HttpNew(p, a) PROVE IndexInv'
  <2>1. /\ ptr' = [ptr EXCEPT ![nextId] = a] /\ hid' = [hid EXCEPT ![a] = nextId]
        /\ nextId \in Id /\ hid[a] = 0 /\ gpc # "unloaded"
        /\ UNCHANGED <<gpc, hclosed, client, tracked, todo>>
    BY <1>0, <1>1 DEF Native_HttpNew, InNative, Id
  <2>2. ptr[nextId] = NULL /\ client[a] = NULL
    BY <1>0, <2>1 DEF Safe, GameControl, IndexInv, Id
  <2>3. \A i \in Id : i # nextId => ptr'[i] = ptr[i]
    BY <1>0, <2>1
  <2>4. ptr'[nextId] = a /\ \A b \in Addr : b # a => hid'[b] = hid[b]
    BY <1>0, <2>1
  <2>5. ASSUME NEW c \in Client, NEW i \in Id
        PROVE  /\ i \in tracked[c] => GetHttpRequest(i)' /\ client[ptr'[i]] = c
               /\ GetHttpRequest(i)' /\ client[ptr'[i]] = c => i \in tracked[c] \cup todo
    <3>1. CASE i = nextId
      BY <1>0, <2>1, <2>2, <2>4, <3>1 DEF IndexInv, ClientIndexExact, GetHttpRequest
    <3>2. CASE i # nextId
      BY <2>1, <2>3, <3>2 DEF IndexInv, ClientIndexExact, GetHttpRequest
    <3> QED
      BY <3>1, <3>2
  <2>6. \A b \in Addr : hid'[b] = 0 => client[b] = NULL
    BY <2>1, <2>2, <2>4 DEF IndexInv
  <2> QED
    BY <2>1, <2>5, <2>6 DEF IndexInv, ClientIndexExact
<1>2. ASSUME NEW id \in Id, NEW c \in Client \cup {NULL}, Native_SetOwner(id, c) PROVE IndexInv'
  <2> DEFINE a == ptr[id]
  <2>1. /\ gpc # "unloaded" /\ GetHttpRequest(id) /\ a \in Addr /\ todo = {}
        /\ client' = [client EXCEPT ![a] = c]
        /\ tracked' = [d \in Client |-> IF d = c THEN tracked[d] \cup {id}
                                        ELSE IF d = client[a] THEN tracked[d] \ {id}
                                        ELSE tracked[d]]
        /\ UNCHANGED <<ptr, hclosed, hid, gpc, todo>>
    BY <1>0, <1>2 DEF Native_SetOwner, InNative, GetHttpRequest
  <2>2. \A i \in Id : i # id /\ ptr[i] # NULL => ptr[i] # a
    BY <1>0, <2>1
  <2>3. hid[a] = id
    BY <1>0, <2>1 DEF GetHttpRequest
  <2> HIDE DEF a
  <2>4. ASSUME NEW d \in Client, NEW i \in Id
        PROVE  /\ i \in tracked'[d] => GetHttpRequest(i)' /\ client'[ptr'[i]] = d
               /\ GetHttpRequest(i)' /\ client'[ptr'[i]] = d => i \in tracked'[d] \cup todo'
    <3>1. GetHttpRequest(i)' <=> GetHttpRequest(i)
      BY <2>1 DEF GetHttpRequest
    <3>2. CASE i = id
      <4>1. client'[ptr'[i]] = c
        BY <1>0, <2>1, <3>2 DEF a
      <4>2. i \in tracked[d] => client[a] = d
        BY <2>1, <3>2 DEF IndexInv, ClientIndexExact, a
      <4>3. i \in tracked'[d] <=> d = c
        BY <2>1, <3>2, <4>2
      <4> QED
        BY <2>1, <3>1, <3>2, <4>1, <4>3
    <3>3. CASE i # id
      <4>1. i \in tracked'[d] <=> i \in tracked[d]
        BY <2>1, <3>3
      <4>2. GetHttpRequest(i) => client'[ptr'[i]] = client[ptr[i]]
        BY <1>0, <2>1, <2>2, <3>3 DEF GetHttpRequest
      <4> QED
        BY <2>1, <3>1, <4>1, <4>2 DEF IndexInv, ClientIndexExact
    <3> QED
      BY <3>2, <3>3
  <2>5. \A b \in Addr : hid'[b] = 0 => client'[b] = NULL
    BY <1>0, <2>1, <2>3 DEF IndexInv
  <2> QED
    BY <2>4, <2>5 DEF IndexInv, ClientIndexExact
<1>3. ASSUME NEW id \in Id, CloseRequest(id), gpc' = gpc, gpc # "unloaded", ptr[id] # NULL,
             todo' = todo \ {id}
      PROVE  IndexInv'
  <2>1. /\ UntrackClientHandle(id)
        /\ \/ FreeHandle(id)
           \/ hclosed' = hclosed \cup {id} /\ UNCHANGED <<ptr, hid, client>>
    BY <1>3 DEF CloseRequest
  <2> QED
    BY <1>3, <2>1, IndexRemove
<1>4. ASSUME NEW id \in Id, Native_HttpClose(id) PROVE IndexInv'
  <2>1. /\ CloseRequest(id) /\ gpc' = gpc /\ gpc # "unloaded" /\ ptr[id] # NULL
        /\ todo' = todo \ {id}
    BY <1>4 DEF Native_HttpClose, InNative, GetHttpRequest
  <2> QED
    BY <1>3, <2>1
<1>5. ASSUME NEW id \in Id, CloseNext(id) PROVE IndexInv'
  <2>1. CloseRequest(id) /\ gpc' = gpc /\ id \in todo /\ todo' = todo \ {id}
    BY <1>5 DEF CloseNext
  <2>2. gpc # "unloaded" /\ ptr[id] # NULL
    BY <2>1 DEF Safe, GameControl
  <2> QED
    BY <1>3, <2>1, <2>2
<1>6. ASSUME NEW c \in Client, OnClientDisconnecting(c) PROVE IndexInv'
  <2>1. /\ todo = {} /\ todo' = {id \in tracked[c] : GetHttpRequest(id)}
        /\ tracked' = [tracked EXCEPT ![c] = {}]
        /\ UNCHANGED <<ptr, hclosed, hid, client, gpc>>
    BY <1>6 DEF OnClientDisconnecting, InNative
  <2>2. \A d \in Client : tracked'[d] = IF d = c THEN {} ELSE tracked[d]
    BY <1>0, <2>1
  <2> QED
    BY <2>1, <2>2 DEF IndexInv, ClientIndexExact, GetHttpRequest
<1>7. ASSUME NEW p \in Plugin, OnPluginUnloaded(p) PROVE IndexInv'
  <2>1. todo = {} /\ UNCHANGED <<ptr, hclosed, hid, client, tracked, gpc>>
    BY <1>7 DEF OnPluginUnloaded
  <2> QED
    BY <2>1 DEF IndexInv, ClientIndexExact, GetHttpRequest
<1>8. CASE CompleteSilently
  <2> DEFINE a == Head(batch)
             id == hid[a]
  <2>1. /\ gpc = "frame" /\ batch # <<>> /\ id # 0 /\ UntrackClientHandle(id) /\ FreeHandle(id)
        /\ todo' = todo
    BY <1>8 DEF CompleteSilently
  <2>2. a \in Addr
    BY <2>1 DEF TypeOK
  <2>3. id \in Id /\ ptr[id] # NULL
    BY <1>0, <2>1, <2>2 DEF Safe, NoDanglingPointer
  <2>4. todo = {}
    BY <2>1 DEF Safe, GameControl
  <2> HIDE DEF id
  <2> QED
    BY <2>1, <2>3, <2>4, IndexRemove
<1>9. CASE CallbackReturn
  <2>1. gpc = "callback" /\ todo = {} /\ todo' = todo
    BY <1>9 DEF CallbackReturn
  <2>2. cur \in Addr /\ hid[cur] \in Id /\ ptr[hid[cur]] = cur /\ hid[cur] # 0
    BY <1>0, <2>1 DEF Safe, GameControl, NoDanglingPointer
  <2>3. UntrackClientHandle(hid[cur]) /\ FreeHandle(hid[cur])
    BY <1>9, <2>2 DEF CallbackReturn
  <2> QED
    BY <1>0, <2>1, <2>2, <2>3, IndexRemove
<1>10. CASE StopJoined
  BY <1>10 DEF StopJoined, IndexInv, ClientIndexExact
<1>11. CASE OnGameFrame \/ CompleteCallback \/ SDK_OnUnload
  <2>1. UNCHANGED <<ptr, hclosed, hid, client, tracked, todo>> /\ gpc # "unloaded"
    BY <1>11 DEF OnGameFrame, CompleteCallback, SDK_OnUnload
  <2> QED
    BY <2>1, IndexUnchanged
<1>12. CASE EventWalk \/ EventExit
  BY <1>12, IndexUnchanged
  DEF EventWalk, EventExit, BeginWalk, OnAsyncStop, OnAsyncAddEnter, OnAsyncAdd, OnAsyncAddExit,
      OnAsyncCancelEnter, OnAsyncCancelSkip, OnAsyncCancel, OnAsyncCancelExit
<1>13. ASSUME NEW a \in Addr, TransferEnds(a) \/ OnRetryTimer(a) PROVE IndexInv'
  BY <1>13, IndexUnchanged DEF TransferEnds, CurlDone, CurlRetry, OnRetryTimer
<1>14. CASE GameNative
  BY <1>1, <1>2, <1>4, <1>14, IndexUnchanged
  DEF GameNative, Native_SetRetry, Native_SetHandlePlugin, Native_HttpExecute
<1>15. ASSUME NEW p \in Plugin, OnPluginLoaded(p) PROVE IndexInv'
  BY <1>15, IndexUnchanged DEF OnPluginLoaded
<1>16. CASE UNCHANGED vars
  BY <1>16, IndexUnchanged DEF vars
<1> QED
  BY <1>5, <1>6, <1>7, <1>8, <1>9, <1>10, <1>11, <1>12, <1>13, <1>14, <1>15, <1>16
  DEF Next, GameListener, GameStep, Unloaded

\* g_client_handles lists exactly the open requests that follow each client, for
\* any number of clients, however SetOwner, Close, completions and disconnects
\* interleave, as long as no callback frees or re-executes its own request.
THEOREM ClientIndexCorrect ==
    ASSUME CallbackOps = {}
    PROVE  Spec => []ClientIndexExact
<1>1. Init => IndexInv
  <2> SUFFICES ASSUME Init PROVE IndexInv
    OBVIOUS
  <2>1. NULL \notin Client /\ Id \subseteq Nat
    BY ConstantsAssumption DEF ConstantsAssumption, Id
  <2> QED
    BY <2>1 DEF Init, IndexInv, ClientIndexExact, GetHttpRequest
<1>2. TypeOK /\ Safe /\ IndexInv /\ [Next]_vars => IndexInv'
  BY IndexNext
<1>3. IndexInv => ClientIndexExact
  BY DEF IndexInv
<1>4. Spec => [](TypeOK /\ Safe)
  BY SafeAlways
<1> QED
  BY <1>1, <1>2, <1>3, <1>4, PTL DEF Spec

-----------------------------------------------------------------------------
(* The counters                                                              *)

\* The sets curl_multi and active grow and shrink by one
LEMMA CountedSets ==
    ASSUME TypeOK, NEW S \in SUBSET Addr
    PROVE  /\ Cardinality(S) \in Nat
           /\ \A a \in S : Cardinality(S \ {a}) = Cardinality(S) - 1
           /\ \A a \in Addr \ S : /\ S \ {a} = S
                                  /\ Cardinality(S \cup {a}) = Cardinality(S) + 1
<1>1. IsFiniteSet(S)
  BY ConstantsAssumption, FS_Subset DEF ConstantsAssumption
<1> QED
  BY <1>1, FS_CardinalityType, FS_AddElement, FS_RemoveElement

LEMMA StatsUnchanged ==
    ASSUME StatsExact, UNCHANGED <<pendingQ, multi, active, statPending, statActive,
                                   statCompleted, execs>>,
           gpc = "unloaded" => gpc' = "unloaded"
    PROVE  StatsExact'
  BY DEF StatsExact

LEMMA StatsNext ==
    ASSUME TypeOK, Safe, StatsExact, [Next]_vars
    PROVE  StatsExact'
<1> USE DEF gameVars, queueVars, loopVars, statVars, histVars
<1>0. /\ active \in SUBSET Addr /\ multi \in SUBSET Addr /\ pendingQ \in Seq(Addr)
      /\ statPending \in Int /\ statActive \in Int /\ statCompleted \in Nat /\ execs \in Nat
      /\ Len(pendingQ) \in Nat /\ Cardinality(active) \in Nat /\ Cardinality(multi) \in Nat
  BY CountedSets DEF TypeOK
<1>1. ASSUME NEW id \in Id, NEW hasCb \in BOOLEAN, Native_HttpExecute(id, hasCb)
      PROVE  StatsExact'
  <2>1. /\ pendingQ' = Append(pendingQ, ptr[id]) /\ statPending' = statPending + 1
        /\ execs' = execs + 1 /\ gpc # "unloaded"
        /\ UNCHANGED <<multi, active, statActive, statCompleted, gpc>>
    BY <1>1 DEF Native_HttpExecute, EnqueueRequest, InNative
  <2>2. Len(pendingQ') = Len(pendingQ) + 1
    BY <1>0, <2>1
  <2> QED
    BY <1>0, <2>1, <2>2 DEF StatsExact
<1>2. CASE OnAsyncAdd
  <2> DEFINE a == Head(pendingQ)
  <2>1. /\ epc = "adding" /\ pendingQ # <<>> /\ pendingQ' = Tail(pendingQ)
        /\ statPending' = statPending - 1 /\ UNCHANGED <<execs, gpc>>
    BY <1>2 DEF OnAsyncAdd
  <2>2. gpc # "unloaded"
    BY <2>1 DEF Safe, StopOrder
  <2>3. Len(pendingQ') = Len(pendingQ) - 1 /\ a \in Addr /\ a \in RangeOf(pendingQ)
    BY <1>0, <2>1 DEF RangeOf
  <2>4. a \notin active /\ a \notin multi
    BY <2>2, <2>3 DEF Safe, OneHome
  <2>5. CASE a \in closed
    <3>1. active' = active \ {a} /\ statCompleted' = statCompleted + 1
          /\ UNCHANGED <<multi, statActive>>
      BY <1>2, <2>5 DEF OnAsyncAdd, FinishRequest
    <3> HIDE DEF a
    <3>2. Cardinality(active') = Cardinality(active)
      <4>1. active' = active
        BY <2>4, <3>1
      <4> QED
        BY <4>1
    <3>3. /\ Len(pendingQ') = Len(pendingQ) - 1 /\ statPending' = statPending - 1
          /\ statCompleted' = statCompleted + 1 /\ UNCHANGED <<multi, statActive, execs>>
      BY <2>1, <2>3, <3>1
    <3>4. /\ statPending' = Len(pendingQ') /\ statActive' = Cardinality(multi')
          /\ execs' = statPending' + Cardinality(active') + statCompleted'
      BY <1>0, <2>2, <3>2, <3>3 DEF StatsExact
    <3> QED
      BY <3>4 DEF StatsExact
  <2>6. CASE a \notin closed
    <3>1. active' = active \cup {a} /\ multi' = multi \cup {a} /\ statActive' = statActive + 1
          /\ UNCHANGED statCompleted
      BY <1>2, <2>6 DEF OnAsyncAdd
    <3> HIDE DEF a
    <3>2. /\ Cardinality(active') = Cardinality(active) + 1
          /\ Cardinality(multi') = Cardinality(multi) + 1
      BY <1>0, <2>3, <2>4, <3>1, CountedSets
    <3> QED
      BY <1>0, <2>1, <2>2, <2>3, <3>1, <3>2 DEF StatsExact
  <2> QED
    BY <2>5, <2>6
\* A cancelled request is counted as active when it was in curl_multi only
<1>3. CASE OnAsyncCancel
  <2> DEFINE a == Head(cancelQ)
  <2>1. /\ epc = "cancelling" /\ a \in active /\ TakeOff(a) /\ active' = active \ {a}
        /\ statCompleted' = statCompleted + 1 /\ UNCHANGED <<pendingQ, statPending, execs, gpc>>
    BY <1>3 DEF OnAsyncCancel, FinishRequest
  <2> HIDE DEF a
  <2>2. gpc # "unloaded"
    BY <2>1 DEF Safe, StopOrder
  <2>3. a \in Addr /\ active = multi \cup timers /\ retryWait = timers
    BY <1>0, <2>1, <2>2 DEF Safe, OneHome
  <2>4. Cardinality(active') = Cardinality(active) - 1
    BY <1>0, <2>1, CountedSets
  <2>5. \/ UNCHANGED <<multi, statActive>>
        \/ statActive' = statActive - 1 /\ Cardinality(multi') = Cardinality(multi) - 1
    <3>1. CASE a \in retryWait
      BY <2>1, <3>1 DEF TakeOff
    <3>2. CASE a \notin retryWait
      <4>1. a \in multi /\ multi' = multi \ {a} /\ statActive' = statActive - 1
        BY <2>1, <2>3, <3>2 DEF TakeOff
      <4> QED
        BY <1>0, <4>1, CountedSets
    <3> QED
      BY <3>1, <3>2
  <2> QED
    BY <1>0, <2>1, <2>2, <2>4, <2>5 DEF StatsExact
<1>4. ASSUME NEW a \in Addr, NEW o \in Outcomes, CurlDone(a, o) PROVE StatsExact'
  <2>1. /\ epc = "poll" /\ a \in multi /\ multi' = multi \ {a} /\ statActive' = statActive - 1
        /\ active' = active \ {a} /\ statCompleted' = statCompleted + 1
        /\ UNCHANGED <<pendingQ, statPending, execs, gpc>>
    BY <1>4 DEF CurlDone, FinishRequest
  <2>2. gpc # "unloaded"
    BY <2>1 DEF Safe, StopOrder
  <2>3. a \in active
    BY <2>1, <2>2 DEF Safe, OneHome
  <2>4. /\ Cardinality(active') = Cardinality(active) - 1
        /\ Cardinality(multi') = Cardinality(multi) - 1
    BY <1>0, <2>1, <2>3, CountedSets
  <2> QED
    BY <1>0, <2>1, <2>2, <2>4, SMTT(30) DEF StatsExact
<1>5. ASSUME NEW a \in Addr, NEW o \in Outcomes, CurlRetry(a, o) PROVE StatsExact'
  <2>1. /\ a \in multi /\ multi' = multi \ {a} /\ statActive' = statActive - 1
        /\ UNCHANGED <<active, statCompleted, pendingQ, statPending, execs, gpc>>
    BY <1>5 DEF CurlRetry
  <2>2. Cardinality(multi') = Cardinality(multi) - 1
    BY <1>0, <2>1, CountedSets
  <2> QED
    BY <1>0, <2>1, <2>2 DEF StatsExact
<1>6. ASSUME NEW a \in Addr, OnRetryTimer(a) PROVE StatsExact'
  <2>1. /\ epc = "poll" /\ a \in timers /\ AfterRetryWait(a)
        /\ UNCHANGED <<pendingQ, statPending, execs, gpc>>
    BY <1>6 DEF OnRetryTimer
  <2>2. gpc # "unloaded"
    BY <2>1 DEF Safe, StopOrder
  <2>3. a \in active /\ a \notin multi /\ a \notin completed
    BY <2>1, <2>2 DEF Safe, OneHome
  <2>4. CASE a \in closed
    <3>1. /\ active' = active \ {a} /\ statCompleted' = statCompleted + 1
          /\ UNCHANGED <<multi, statActive>>
      BY <2>1, <2>3, <2>4 DEF AfterRetryWait, FinishRequest
    <3>2. Cardinality(active') = Cardinality(active) - 1
      BY <1>0, <2>3, <3>1, CountedSets
    <3> QED
      BY <1>0, <2>1, <2>2, <3>1, <3>2, SMTT(30) DEF StatsExact
  <2>5. CASE a \notin closed
    <3>1. /\ multi' = multi \cup {a} /\ statActive' = statActive + 1
          /\ UNCHANGED <<active, statCompleted>>
      BY <2>1, <2>3, <2>5 DEF AfterRetryWait, ReaddToMulti
    <3>2. Cardinality(multi') = Cardinality(multi) + 1
      BY <1>0, <2>3, <3>1, CountedSets
    <3> QED
      BY <1>0, <2>1, <2>2, <3>1, <3>2 DEF StatsExact
  <2> QED
    BY <2>4, <2>5
<1>7. CASE StopJoined
  BY <1>7 DEF StopJoined, StatsExact
<1>8. CASE \/ OnGameFrame \/ CompleteSilently \/ CompleteCallback \/ CallbackReturn
           \/ SDK_OnUnload \/ \E id \in Id : CloseNext(id)
  <2>1. ASSUME NEW id \in Id, CloseNext(id) PROVE gpc' = gpc
    BY <2>1 DEF CloseNext
  <2>2. /\ UNCHANGED <<pendingQ, multi, active, statVars, execs>>
        /\ gpc = "unloaded" => gpc' = "unloaded"
    BY <1>8, <2>1
    DEF OnGameFrame, CompleteSilently, CompleteCallback, CallbackReturn, SDK_OnUnload, CloseNext,
        CloseRequest
  <2> QED
    BY <2>2, StatsUnchanged
<1>9. CASE EventWalk \/ EventExit
  BY <1>2, <1>3, <1>9, StatsUnchanged
  DEF EventWalk, EventExit, BeginWalk, OnAsyncStop, OnAsyncAddEnter, OnAsyncAddExit,
      OnAsyncCancelEnter, OnAsyncCancelSkip, OnAsyncCancelExit
<1>10. CASE GameNative
  <2>1. ASSUME NEW id \in Id, Native_HttpClose(id) PROVE StatsExact'
    BY <2>1, StatsUnchanged DEF Native_HttpClose, CloseRequest
  <2> QED
    BY <1>1, <1>10, <2>1, StatsUnchanged
    DEF GameNative, Native_HttpNew, Native_SetRetry, Native_SetOwner, Native_SetHandlePlugin
<1>11. CASE GameListener
  BY <1>11, StatsUnchanged
  DEF GameListener, OnClientDisconnecting, OnPluginUnloaded, OnPluginLoaded
<1>12. CASE UNCHANGED vars
  BY <1>12, StatsUnchanged DEF vars
<1> QED
  BY <1>4, <1>5, <1>6, <1>7, <1>8, <1>9, <1>10, <1>11, <1>12
  DEF Next, GameStep, TransferEnds, Unloaded

\* The pending and active counters are exact, and every accepted Execute is counted
\* in exactly one of pending, active, waiting for a retry and completed, whatever
\* cancellations race completions and retry timers (EnqueueRequest, OnAsyncAdd,
\* OnAsyncCancel, CheckCompletedJobs, OnRetryTimer).
THEOREM StatsCorrect ==
    ASSUME CallbackOps = {}
    PROVE  Spec => []StatsExact
<1>1. Init => StatsExact
  <2> SUFFICES ASSUME Init PROVE StatsExact
    OBVIOUS
  <2>1. Cardinality({}) = 0
    BY FS_EmptySet
  <2> QED
    BY <2>1 DEF Init, StatsExact
<1>2. TypeOK /\ Safe /\ StatsExact /\ [Next]_vars => StatsExact'
  BY StatsNext
<1>3. Spec => [](TypeOK /\ Safe)
  BY SafeAlways
<1> QED
  BY <1>1, <1>2, <1>3, PTL DEF Spec
=============================================================================
