---------------------------- MODULE UtilityProofs ----------------------------
(***************************************************************************)
(* Proofs about the two small components that stand alone: AnchoredClock,  *)
(* for every interval, threshold and drift, and CurlPool, for every        *)
(* kMinPool and every load. Neither uses a variable of the other.          *)
(***************************************************************************)
EXTENDS AnchoredClock, CurlPool, TLAPS

-----------------------------------------------------------------------------
(* The anchored clock.                                                     *)

LEMMA ClockNext == TypeOK /\ NotHeldBack /\ [Next]_vars => TypeOK' /\ NotHeldBack'
<1> SUFFICES ASSUME TypeOK, NotHeldBack, [Next]_vars PROVE TypeOK' /\ NotHeldBack'
  OBVIOUS
<1> USE DEF TypeOK, NotHeldBack, Candidate
<1>1. ASSUME NEW t \in Ticks, NEW s \in Slews, Elapse(t, s) PROVE TypeOK' /\ NotHeldBack'
  <2>1. t \in Nat /\ s \in Int
    BY ClockAssumption DEF ClockAssumption
  <2> QED
    BY <1>1, <2>1 DEF Elapse
<1>2. CASE GetTimePlain
  BY <1>2 DEF GetTimePlain, Highest
<1>3. CASE GetTimeSnap
  BY <1>3 DEF GetTimeSnap
<1>4. CASE GetTimeSync
  BY <1>4 DEF GetTimeSync, Highest, Drift
<1>5. CASE UNCHANGED vars
  BY <1>5 DEF vars
<1> QED
  BY <1>1, <1>2, <1>3, <1>4, <1>5 DEF Next, GetAnchoredTimeMs

LEMMA ClockInit == Init => TypeOK /\ NotHeldBack
BY ClockAssumption DEF ClockAssumption, Init, TypeOK, NotHeldBack, Candidate

\* The monotonicity guard never holds the time above the anchored clock (and the
\* clock's fields have their types).
THEOREM ClockNotHeldBack == Spec => [](TypeOK /\ NotHeldBack)
BY ClockInit, ClockNext, PTL DEF Spec

\* A synchronising call is accurate to the threshold, whatever happened before.
THEOREM ClockAccurate == Spec => SyncAccurate
<1>1. TypeOK /\ NotHeldBack /\ [Next]_vars
        => [last_sync' = mono' /\ last_sync' # last_sync =>
               /\ last_returned' - real' <= SNAP_THRESHOLD
               /\ real' - last_returned' <= SNAP_THRESHOLD]_vars
  <2> SUFFICES ASSUME TypeOK, NotHeldBack, Next, last_sync' = mono', last_sync' # last_sync
               PROVE  /\ last_returned' - real' <= SNAP_THRESHOLD
                      /\ real' - last_returned' <= SNAP_THRESHOLD
    OBVIOUS
  <2> USE ClockAssumption DEF ClockAssumption, TypeOK, NotHeldBack, Candidate
  <2>1. CASE GetTimeSnap
    BY <2>1 DEF GetTimeSnap
  <2>2. CASE GetTimeSync
    BY <2>2 DEF GetTimeSync, Highest, Drift, IsStep
  <2> QED
    BY <2>1, <2>2 DEF Next, GetAnchoredTimeMs, Elapse, GetTimePlain
<1> QED
  BY <1>1, ClockInit, ClockNext, PTL DEF Spec, SyncAccurate

\* Only a snap to a wall clock that was stepped makes the time decrease.
THEOREM ClockMonotone == Spec => MonotoneUnlessSnap
<1>1. TypeOK /\ [Next]_vars => [branch' = "snap" \/ last_returned' >= last_returned]_vars
  <2> SUFFICES ASSUME TypeOK, Next PROVE branch' = "snap" \/ last_returned' >= last_returned
    OBVIOUS
  <2> USE DEF TypeOK
  <2>1. CASE GetTimePlain
    BY <2>1 DEF GetTimePlain, Highest, Candidate
  <2>2. CASE GetTimeSync
    BY <2>2 DEF GetTimeSync, Highest, Candidate
  <2> QED
    BY <2>1, <2>2 DEF Next, GetAnchoredTimeMs, Elapse, GetTimeSnap
<1> QED
  BY <1>1, ClockInit, ClockNext, PTL DEF Spec, MonotoneUnlessSnap

-----------------------------------------------------------------------------
(* The pool of curl easy handles.                                          *)

\* What makes the bound inductive: a release never raises pool + outstanding,
\* and an acquire raises it only when the pool is empty.
PoolInv ==
    /\ PoolTypeOK
    /\ outstanding = live + failed
    /\ pool + outstanding <= peak
    /\ IdleBound
    /\ UnloadLeavesNothing

LEMMA PoolInvNext == PoolInv /\ [PoolNext]_poolVars => PoolInv'
<1> SUFFICES ASSUME PoolInv, [PoolNext]_poolVars PROVE PoolInv'
  OBVIOUS
<1> USE PoolAssumption DEF PoolAssumption, PoolInv, PoolTypeOK, IdleBound, UnloadLeavesNothing
<1>1. CASE AcquireFromPool
  BY <1>1 DEF AcquireFromPool, Raise
<1>2. CASE AcquireInit
  BY <1>2 DEF AcquireInit, Raise
<1>3. CASE AcquireFails
  BY <1>3 DEF AcquireFails, Raise
<1>4. CASE ReleaseCurl
  BY <1>4 DEF ReleaseCurl, Cap
<1>5. CASE CleanHandles
  BY <1>5 DEF CleanHandles
<1>6. CASE DrainCurlPool
  BY <1>6 DEF DrainCurlPool
<1>7. CASE UNCHANGED poolVars
  BY <1>7 DEF poolVars
<1> QED
  BY <1>1, <1>2, <1>3, <1>4, <1>5, <1>6, <1>7 DEF PoolNext, Unloaded

LEMMA PoolAlways == PoolSpec => []PoolInv
<1>1. PoolInit => PoolInv
  BY PoolAssumption DEF PoolAssumption, PoolInit, PoolInv, PoolTypeOK, IdleBound, UnloadLeavesNothing
<1> QED
  BY <1>1, PoolInvNext, PTL DEF PoolSpec

\* The pool never keeps more idle handles than its floor or half of the peak
\* load, and its unsigned counter never goes below zero.
THEOREM PoolBounded == PoolSpec => [](PoolTypeOK /\ IdleBound)
<1>1. PoolInv => PoolTypeOK /\ IdleBound
  BY DEF PoolInv
<1> QED
  BY <1>1, PoolAlways, PTL

\* Unloading the extension leaves no easy handle behind, whatever was in use when
\* it began (CleanHandles, then DrainCurlPool).
THEOREM PoolDrained == PoolSpec => []UnloadLeavesNothing
<1>1. PoolInv => UnloadLeavesNothing
  BY DEF PoolInv
<1> QED
  BY <1>1, PoolAlways, PTL
=============================================================================
