---------------------------- MODULE HandleTable ----------------------------
(***************************************************************************)
(* What the handle table promises the natives: an id that CreateHandle     *)
(* returns is not in use, CreateHandle fails only when every id is in use, *)
(* and TakePluginHandles returns exactly the handles the plugin owns.      *)
(* Which free id is chosen, and how owners are looked up, is left open.    *)
(***************************************************************************)
CONSTANTS Id,      \* handle ids, without the invalid handle 0
          Plugin,  \* plugin contexts
          NULL     \* no owner

VARIABLES used,    \* ids in use
          closed,  \* ids marked closed: invisible to the natives
          owner,   \* owner[id]: the plugin that cleans up id, or NULL
          ret      \* the ids the last call returned, 0 for no free id

tableVars == <<used, closed, owner, ret>>

Init ==
    /\ used = {} /\ closed = {} /\ ret = {}
    /\ owner = [id \in Id |-> NULL]

CreateHandle(p) ==
    \E id \in Id \ used :
        /\ used' = used \cup {id}
        /\ owner' = [owner EXCEPT ![id] = p]
        /\ ret' = {id}
        /\ UNCHANGED closed

CreateFails ==
    /\ used = Id
    /\ ret' = {0}
    /\ UNCHANGED <<used, closed, owner>>

FreeHandle(id) ==
    /\ used' = used \ {id}
    /\ closed' = closed \ {id}
    /\ owner' = [owner EXCEPT ![id] = NULL]
    /\ ret' = {}

MarkHandleClosed(id) ==
    /\ closed' = closed \cup ({id} \cap used)
    /\ ret' = {}
    /\ UNCHANGED <<used, owner>>

\* A handle that is closed or not in use is not transferred
TransferHandle(id, p) ==
    /\ IF id \in used \ closed
       THEN owner' = [owner EXCEPT ![id] = p] /\ ret' = {id}
       ELSE ret' = {} /\ UNCHANGED owner
    /\ UNCHANGED <<used, closed>>

TakePluginHandles(p) ==
    /\ ret' = {id \in Id : owner[id] = p}
    /\ owner' = [id \in Id |-> IF owner[id] = p THEN NULL ELSE owner[id]]
    /\ UNCHANGED <<used, closed>>

CleanHandles ==
    /\ used' = {} /\ closed' = {} /\ ret' = {}
    /\ owner' = [id \in Id |-> NULL]

Next ==
    \/ \E p \in Plugin \cup {NULL} : CreateHandle(p)
    \/ CreateFails
    \/ \E id \in Id : FreeHandle(id) \/ MarkHandleClosed(id)
    \/ \E id \in Id, p \in Plugin \cup {NULL} : TransferHandle(id, p)
    \/ \E p \in Plugin : TakePluginHandles(p)
    \/ CleanHandles

Spec == Init /\ [][Next]_tableVars
=============================================================================
