--------------------------- MODULE AnchoredClock ---------------------------
(***************************************************************************)
(* async2_GetTime: the wall clock, read through an offset to the monotonic *)
(* clock that is corrected every SYNC_INTERVAL_MS.  The operating system's *)
(* two clocks are the environment: the monotonic one only advances, the    *)
(* wall clock is also slewed and stepped.                                  *)
(***************************************************************************)
EXTENDS Integers

CONSTANTS SYNC_INTERVAL,   \* SYNC_INTERVAL_MS
          SNAP_THRESHOLD,  \* SNAP_THRESHOLD_MS
          Ticks,           \* amounts the monotonic clock advances by
          Slews,           \* what the wall clock gains or loses meanwhile
          MaxMono, MaxReal \* bounds of the two clocks

ASSUME ClockAssumption ==
    /\ SYNC_INTERVAL \in Nat
    /\ SNAP_THRESHOLD \in Nat
    /\ Ticks \subseteq Nat
    /\ Slews \subseteq Int
    /\ MaxMono \in Nat /\ MaxReal \in Nat

VARIABLES
    mono, real,        \* UV_CLOCK_MONOTONIC, UV_CLOCK_REALTIME
    clock_offset, last_returned, last_sync,  \* g_clock_offset, ...
    branch             \* history: how the last call got its time

vars == <<mono, real, clock_offset, last_returned, last_sync, branch>>

TypeOK ==
    /\ mono \in Nat /\ real \in Int
    /\ clock_offset \in Int /\ last_returned \in Int /\ last_sync \in 0 .. mono
    /\ branch \in {"plain", "snap", "sync"}

\* InitAnchoredClock, whenever the extension is loaded
Init ==
    /\ mono = 0
    /\ real \in 0 .. MaxReal
    /\ clock_offset = real - mono
    /\ last_returned = real
    /\ last_sync = mono
    /\ branch = "plain"

\* Time passes, and the wall clock is slewed or stepped by s
Elapse(t, s) ==
    /\ mono + t <= MaxMono
    /\ 0 <= real + t + s /\ real + t + s <= MaxReal
    /\ mono' = mono + t
    /\ real' = real + t + s
    /\ UNCHANGED <<clock_offset, last_returned, last_sync, branch>>

Candidate == mono + clock_offset
Drift == real - Candidate

Highest(a, b) == IF a > b THEN a ELSE b

GetTimePlain ==
    /\ mono - last_sync < SYNC_INTERVAL
    /\ last_returned' = Highest(Candidate, last_returned)
    /\ branch' = "plain"
    /\ UNCHANGED <<mono, real, clock_offset, last_sync>>

\* Variant: the clock snaps forward only.
IsStepForward == Drift > SNAP_THRESHOLD

IsStep == Drift > SNAP_THRESHOLD \/ Drift < -SNAP_THRESHOLD

\* Variant: the guard keeps what was returned before.
GetTimeSnapKeeps ==
    /\ mono - last_sync >= SYNC_INTERVAL
    /\ IsStep
    /\ last_sync' = mono
    /\ clock_offset' = real - mono
    /\ last_returned' = Highest(real, last_returned)
    /\ branch' = "snap"
    /\ UNCHANGED <<mono, real>>

\* A big drift: the wall clock is taken over, backwards too
GetTimeSnap ==
    /\ mono - last_sync >= SYNC_INTERVAL
    /\ IsStep
    /\ last_sync' = mono
    /\ clock_offset' = real - mono
    /\ last_returned' = real
    /\ branch' = "snap"
    /\ UNCHANGED <<mono, real>>

\* Variant: a small lead of the clock is re-anchored as well.
GetTimeReanchor ==
    /\ mono - last_sync >= SYNC_INTERVAL
    /\ ~IsStep
    /\ last_sync' = mono
    /\ clock_offset' = real - mono
    /\ last_returned' = real
    /\ branch' = "sync"
    /\ UNCHANGED <<mono, real>>

\* A small drift: re-anchored forward, left alone when the clock is ahead
GetTimeSync ==
    /\ mono - last_sync >= SYNC_INTERVAL
    /\ ~IsStep
    /\ last_sync' = mono
    /\ clock_offset' = IF Drift > 0 THEN real - mono ELSE clock_offset
    /\ last_returned' = Highest(IF Drift > 0 THEN real ELSE Candidate, last_returned)
    /\ branch' = "sync"
    /\ UNCHANGED <<mono, real>>

GetAnchoredTimeMs == GetTimePlain \/ GetTimeSnap \/ GetTimeSync

Next ==
    \/ \E t \in Ticks, s \in Slews : Elapse(t, s)
    \/ GetAnchoredTimeMs

Spec == Init /\ [][Next]_vars

-----------------------------------------------------------------------------
\* A call that synchronises returns a time at most SNAP_THRESHOLD away from the
\* wall clock, however far the two clocks had run apart since the last one and
\* whatever was returned before.
SyncAccurate ==
    [][last_sync' = mono' /\ last_sync' # last_sync =>
          /\ last_returned' - real' <= SNAP_THRESHOLD
          /\ real' - last_returned' <= SNAP_THRESHOLD]_vars

\* The guard of the returned value never holds it above the anchored clock, so
\* time does not stand still after a correction.
NotHeldBack == last_returned <= Candidate

\* Without a snap the returned time does not decrease.
MonotoneUnlessSnap == [][branch' = "snap" \/ last_returned' >= last_returned]_vars
=============================================================================
