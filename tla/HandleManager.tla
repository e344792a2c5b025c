--------------------------- MODULE HandleManager ---------------------------
(***************************************************************************)
(* handle_manager.cpp: the table of handles, the cursor next_handle_ from  *)
(* which CreateHandle scans for a free id, and the reverse index from      *)
(* plugins to the ids they own.                                            *)
(*                                                                         *)
(* Ids are 32-bit values, taken here as 0 .. M - 1 with M for 2^32: the    *)
(* scan increments them as unsigned numbers, so M - 1 is followed by 0.    *)
(* The scan is a step per probe because its termination is the question;   *)
(* everything here runs on the game thread, so no other call interleaves.  *)
(***************************************************************************)
EXTENDS Integers

CONSTANTS M,       \* number of id values, the invalid handle 0 included
          Plugin,  \* plugin contexts
          NULL     \* no owner

ASSUME HandleAssumption == M \in Nat /\ M > 1 /\ NULL \notin Plugin

Cell == 0 .. M - 1
Id == 1 .. M - 1

VARIABLES
    used, closed, owner,  \* used_handles_: the ids, and two fields of Handle
    pluginHandles,        \* plugin_handles_
    next,                 \* next_handle_
    pc, start, candidate, newOwner,  \* locals of CreateHandle
    ret,                  \* the ids the last call returned, 0 for no free id
    passed                \* history: ids the cursor went over since id was given out

tvars == <<used, closed, owner, pluginHandles>>
scanVars == <<pc, start, candidate, newOwner>>
vars == <<tvars, scanVars, next, ret, passed>>

TypeOK ==
    /\ used \subseteq Id
    /\ closed \subseteq used
    /\ owner \in [Id -> Plugin \cup {NULL}]
    /\ pluginHandles \in [Plugin -> SUBSET Id]
    /\ next \in Cell
    /\ pc \in {"idle", "scan"}
    /\ start \in Cell
    /\ candidate \in Cell
    /\ newOwner \in Plugin \cup {NULL}
    /\ ret \subseteq Cell
    /\ passed \in [Id -> SUBSET Id]

Init ==
    /\ used = {} /\ closed = {} /\ ret = {}
    /\ owner = [id \in Id |-> NULL]
    /\ pluginHandles = [p \in Plugin |-> {}]
    /\ next = 1
    /\ pc = "idle" /\ start = 0 /\ candidate = 0 /\ newOwner = NULL
    /\ passed = [id \in Id |-> Id]   \* no id was given out yet

-----------------------------------------------------------------------------
\* static_cast<int>(static_cast<uint32_t>(c) + 1)
Inc(c) == IF c = M - 1 THEN 0 ELSE c + 1

\* The values the cursor goes over on its way from s to c, c excluded
Between(s, c) == IF s <= c THEN s .. (c - 1) ELSE (s .. (M - 1)) \cup (0 .. (c - 1))

\* Variant: the id stays in the set of its plugin.
RemoveNothing(id) == UNCHANGED pluginHandles

\* RemoveFromPluginSet for the owner of id, if it has one
RemoveFromPluginSet(id) ==
    pluginHandles' = [p \in Plugin |-> IF p = owner[id] THEN pluginHandles[p] \ {id}
                                       ELSE pluginHandles[p]]

\* Variant: the scan leaves out the id under the cursor.
CreateHandleSkips(p) ==
    /\ pc = "idle"
    /\ pc' = "scan" /\ start' = next /\ candidate' = Inc(next) /\ newOwner' = p
    /\ UNCHANGED <<tvars, next, ret, passed>>

CreateHandle(p) ==
    /\ pc = "idle"
    /\ pc' = "scan" /\ start' = next /\ candidate' = next /\ newOwner' = p
    /\ UNCHANGED <<tvars, next, ret, passed>>

\* 0 is skipped before the probe
Probed == IF candidate = 0 THEN 1 ELSE candidate

\* Variant: the next scan starts from the lowest id again.
AdvanceFromOne(c) == next' = 1

\* Variant: the next scan starts at the id just given out.
AdvanceNot(c) == next' = c

Advance(c) == next' = Inc(c)

ScanFound ==
    /\ pc = "scan"
    /\ Probed \notin used
    /\ Advance(Probed)
    /\ used' = used \cup {Probed}
    /\ owner' = [owner EXCEPT ![Probed] = newOwner]
    /\ pluginHandles' = [p \in Plugin |-> IF p = newOwner THEN pluginHandles[p] \cup {Probed}
                                          ELSE pluginHandles[p]]
    /\ ret' = {Probed}
    /\ passed' = [id \in Id |-> IF id = Probed THEN {}
                                ELSE passed[id] \cup ((Between(start, Probed) \cup {Probed}) \cap Id)]
    /\ pc' = "idle"
    /\ UNCHANGED <<closed, start, candidate, newOwner>>

\* Variant: the scan gives up when it reaches the end of the id range.
ScanWrapsAtZero == Inc(Probed) = 0

\* The cursor came back to where the scan started
ScanWraps == Inc(Probed) = start

ScanNext ==
    /\ pc = "scan"
    /\ Probed \in used /\ ~ScanWraps
    /\ candidate' = Inc(Probed)
    /\ UNCHANGED <<tvars, pc, start, newOwner, next, ret, passed>>

ScanFails ==
    /\ pc = "scan"
    /\ Probed \in used /\ ScanWraps
    /\ pc' = "idle"
    /\ ret' = {0}
    /\ UNCHANGED <<tvars, start, candidate, newOwner, next, passed>>

-----------------------------------------------------------------------------
FreeHandle(id) ==
    /\ pc = "idle"
    /\ RemoveFromPluginSet(id)
    /\ used' = used \ {id}
    /\ closed' = closed \ {id}
    /\ owner' = [owner EXCEPT ![id] = NULL]
    /\ ret' = {}
    /\ UNCHANGED <<scanVars, next, passed>>

MarkHandleClosed(id) ==
    /\ pc = "idle"
    /\ closed' = closed \cup ({id} \cap used)
    /\ ret' = {}
    /\ UNCHANGED <<used, owner, pluginHandles, scanVars, next, passed>>

TransferHandle(id, p) ==
    /\ pc = "idle"
    /\ IF id \in used \ closed
       THEN /\ owner' = [owner EXCEPT ![id] = p]
            /\ pluginHandles' = [q \in Plugin |-> IF q = p THEN pluginHandles[q] \cup {id}
                                                  ELSE pluginHandles[q] \ {id}]
            /\ ret' = {id}
       ELSE ret' = {} /\ UNCHANGED <<owner, pluginHandles>>
    /\ UNCHANGED <<used, closed, scanVars, next, passed>>

TakePluginHandles(p) ==
    /\ pc = "idle"
    /\ ret' = pluginHandles[p] \cap used
    /\ pluginHandles' = [pluginHandles EXCEPT ![p] = {}]
    /\ owner' = [id \in Id |-> IF id \in pluginHandles[p] \cap used THEN NULL ELSE owner[id]]
    /\ UNCHANGED <<used, closed, scanVars, next, passed>>

\* next_handle_ is not reset
CleanHandles ==
    /\ pc = "idle"
    /\ used' = {} /\ closed' = {} /\ ret' = {}
    /\ owner' = [id \in Id |-> NULL]
    /\ pluginHandles' = [p \in Plugin |-> {}]
    /\ UNCHANGED <<scanVars, next, passed>>

-----------------------------------------------------------------------------
Scan == ScanFound \/ ScanNext \/ ScanFails

Next ==
    \/ \E p \in Plugin \cup {NULL} : CreateHandle(p)
    \/ Scan
    \/ \E id \in Id : FreeHandle(id) \/ MarkHandleClosed(id)
    \/ \E id \in Id, p \in Plugin \cup {NULL} : TransferHandle(id, p)
    \/ \E p \in Plugin : TakePluginHandles(p)
    \/ CleanHandles

Spec == Init /\ [][Next]_vars

\* A call of CreateHandle runs until it returns
FairSpec == Spec /\ WF_vars(Scan)

-----------------------------------------------------------------------------
(* Properties                                                              *)

\* plugin_handles_ lists exactly the handles each plugin owns, through
\* transfers, detaching and freeing: an id left behind would be closed for a
\* plugin that unloads later, after the id was given to somebody else.
IndexExact ==
    /\ \A p \in Plugin : pluginHandles[p] = {id \in Id : owner[id] = p}
    /\ \A id \in Id \ used : owner[id] = NULL

\* Everything the scan has passed is in use, so a CreateHandle that returns 0
\* returns it because no id is free.
ScanExact == pc = "scan" => Between(start, candidate) \cap Id \subseteq used

\* The loop compares the candidate with start after the increment and before it
\* skips 0, so a scan that started at 1 would miss its starting point and go
\* round a full table for ever.  It never does: the cursor is 1 only until the
\* first handle is created.
CursorNotOne ==
    /\ next = 1 => used = {}
    /\ pc = "scan" /\ start = 1 => used = {}

\* Every probe takes the scan to an id it has not seen: it ends.
ScanAdvances ==
    [][pc = "scan" /\ pc' = "scan" =>
          \E id \in Between(start', candidate') \cap Id :
              /\ id \notin Between(start, candidate)
              /\ Between(start, candidate) \subseteq Between(start', candidate')]_vars

\* CreateHandle returns.
CreateReturns == (pc = "scan") ~> (pc = "idle")

\* The comment on next_handle_: freed ids have a cooldown before reuse.  What
\* the cursor gives: between two times an id is given out, every other id was
\* given out too, or found in use.
FullCycleBeforeReuse ==
    [][\A id \in used' \ used : Id \ {id} \subseteq passed[id] \cup Between(start, id)]_vars

Table == INSTANCE HandleTable

\* The implementation provides what HandleTable promises.
TableSpec == Table!Spec
=============================================================================
