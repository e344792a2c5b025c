------------------------------ MODULE CurlPool ------------------------------
(***************************************************************************)
(* The pool of curl easy handles in http_request.cpp, game thread only.    *)
(* Native_HttpNew takes a handle from the pool or makes one; ~HttpRequest  *)
(* gives it back, and the pool keeps or destroys it.  Handles are alike,   *)
(* so the pool is a number.                                                *)
(***************************************************************************)
EXTENDS Integers

CONSTANTS KMinPool,  \* kMinPool: idle handles kept whatever the load
          MaxLive,   \* bound: HttpRequest objects at a time
          MaxFail    \* bound: failures of curl_easy_init

ASSUME PoolAssumption == KMinPool \in Nat /\ MaxLive \in Nat /\ MaxFail \in Nat

VARIABLES
    pool,         \* g_curl_pool.size()
    outstanding,  \* g_curl_outstanding
    live,         \* requests that hold a handle
    failed,       \* failures of curl_easy_init so far
    phase,        \* "loaded", "cleaning" (in CleanHandles) or "unloaded"
    peak          \* history: the largest value of outstanding

poolVars == <<pool, outstanding, live, failed, phase, peak>>

PoolTypeOK ==
    /\ pool \in Nat /\ outstanding \in Nat /\ live \in 0 .. MaxLive
    /\ failed \in 0 .. MaxFail /\ peak \in Nat
    /\ phase \in {"loaded", "cleaning", "unloaded"}

PoolInit ==
    /\ pool = 0 /\ outstanding = 0 /\ live = 0 /\ failed = 0 /\ peak = 0
    /\ phase = "loaded"

Raise(n) == peak' = IF n > peak THEN n ELSE peak

\* AcquireCurl takes the last pooled handle
AcquireFromPool ==
    /\ phase = "loaded" /\ live < MaxLive
    /\ pool > 0
    /\ pool' = pool - 1
    /\ outstanding' = outstanding + 1
    /\ Raise(outstanding + 1)
    /\ live' = live + 1
    /\ UNCHANGED <<failed, phase>>

AcquireInit ==
    /\ phase = "loaded" /\ live < MaxLive
    /\ pool = 0
    /\ outstanding' = outstanding + 1
    /\ Raise(outstanding + 1)
    /\ live' = live + 1
    /\ UNCHANGED <<pool, failed, phase>>

\* curl_easy_init returned null: HttpNew returns 0, the counter stays raised
AcquireFails ==
    /\ phase = "loaded" /\ failed < MaxFail
    /\ pool = 0
    /\ outstanding' = outstanding + 1
    /\ Raise(outstanding + 1)
    /\ failed' = failed + 1
    /\ UNCHANGED <<pool, live, phase>>

\* Variant: the cap counts the handle that is being released.
CapBefore(n) == IF n + 1 > KMinPool THEN n + 1 ELSE KMinPool

\* The cap of ReleaseCurl, when n handles are outstanding after the release
Cap(n) == IF n > KMinPool THEN n ELSE KMinPool

\* Pooled if there is room, else cleaned up
ReleaseCurl ==
    /\ phase \in {"loaded", "cleaning"} /\ live > 0
    /\ live' = live - 1
    /\ outstanding' = outstanding - 1
    /\ pool' = IF pool < Cap(outstanding - 1) THEN pool + 1 ELSE pool
    /\ UNCHANGED <<failed, phase, peak>>

\* SDK_OnUnload reaches CleanHandles: the destructor of every request runs
CleanHandles ==
    /\ phase = "loaded"
    /\ phase' = "cleaning"
    /\ UNCHANGED <<pool, outstanding, live, failed, peak>>

\* Variant: the pool is drained before the handles are cleaned.
DrainCurlPoolEarly ==
    /\ phase = "cleaning"
    /\ phase' = "unloaded"
    /\ pool' = 0
    /\ UNCHANGED <<outstanding, live, failed, peak>>

\* SDK_OnUnload, after CleanHandles
DrainCurlPool ==
    /\ phase = "cleaning" /\ live = 0
    /\ phase' = "unloaded"
    /\ pool' = 0
    /\ UNCHANGED <<outstanding, live, failed, peak>>

Unloaded == phase = "unloaded" /\ UNCHANGED poolVars

PoolNext ==
    \/ AcquireFromPool \/ AcquireInit \/ AcquireFails
    \/ ReleaseCurl
    \/ CleanHandles \/ DrainCurlPool \/ Unloaded

PoolSpec == PoolInit /\ [][PoolNext]_poolVars

-----------------------------------------------------------------------------
\* How far the pool can outgrow its floor: never beyond half of the largest
\* number of handles that were ever outstanding, because a handle only comes
\* back into a pool smaller than what is still out.
IdleBound == pool <= KMinPool \/ 2 * pool <= peak

\* Unloading destroys every easy handle before curl_global_cleanup.
UnloadLeavesNothing == phase = "unloaded" => pool = 0 /\ live = 0
=============================================================================
