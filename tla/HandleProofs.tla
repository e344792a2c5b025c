---------------------------- MODULE HandleProofs ----------------------------
(***************************************************************************)
(* Proofs about HandleManager, for every number of ids and of plugins:     *)
(* the index is exact, the scan of CreateHandle is right and makes         *)
(* progress, an id is not given out again before the cursor went over all  *)
(* the others, and the manager implements HandleTable.                     *)
(***************************************************************************)
EXTENDS HandleManager, TLAPS

LEMMA CellFacts ==
    /\ Id \subseteq Cell
    /\ \A c \in Cell : c # 0 => c \in Id
    /\ \A c \in Cell : Inc(c) \in Cell
    /\ 1 \in Id /\ 0 \in Cell /\ 1 \in Cell
BY HandleAssumption DEF HandleAssumption, Cell, Id, Inc

LEMMA ProbedIsId ==
    ASSUME candidate \in Cell
    PROVE  Probed \in Id /\ Probed \in Cell
BY CellFacts DEF Probed

\* Next keeps the state well typed.
LEMMA TypeNext == TypeOK /\ [Next]_vars => TypeOK'
<1> SUFFICES ASSUME TypeOK, [Next]_vars PROVE TypeOK'
  OBVIOUS
<1> USE DEF tvars, scanVars
<1>1. ASSUME NEW p \in Plugin \cup {NULL}, CreateHandle(p) PROVE TypeOK'
  BY <1>1 DEF TypeOK, CreateHandle
<1>2. CASE ScanFound
  <2>1. Probed \in Id /\ Inc(Probed) \in Cell
    BY ProbedIsId, CellFacts DEF TypeOK
  <2>2. passed' \in [Id -> SUBSET Id]
    BY <1>2, <2>1 DEF ScanFound, TypeOK
  <2>3. pluginHandles' \in [Plugin -> SUBSET Id]
    BY <1>2, <2>1 DEF ScanFound, TypeOK
  <2> QED
    BY <1>2, <2>1, <2>2, <2>3, CellFacts DEF ScanFound, Advance, TypeOK
<1>3. CASE ScanNext
  BY <1>3, ProbedIsId, CellFacts DEF ScanNext, TypeOK
<1>4. CASE ScanFails
  BY <1>4, CellFacts DEF ScanFails, TypeOK
<1>5. ASSUME NEW id \in Id, FreeHandle(id) PROVE TypeOK'
  BY <1>5 DEF TypeOK, FreeHandle, RemoveFromPluginSet
<1>6. ASSUME NEW id \in Id, MarkHandleClosed(id) PROVE TypeOK'
  BY <1>6 DEF TypeOK, MarkHandleClosed
<1>7. ASSUME NEW id \in Id, NEW p \in Plugin \cup {NULL}, TransferHandle(id, p) PROVE TypeOK'
  BY <1>7, CellFacts DEF TypeOK, TransferHandle
<1>8. ASSUME NEW p \in Plugin, TakePluginHandles(p) PROVE TypeOK'
  BY <1>8, CellFacts DEF TypeOK, TakePluginHandles
<1>9. CASE CleanHandles
  BY <1>9 DEF TypeOK, CleanHandles
<1>10. CASE UNCHANGED vars
  BY <1>10 DEF TypeOK, vars
<1> QED
  BY <1>1, <1>2, <1>3, <1>4, <1>5, <1>6, <1>7, <1>8, <1>9, <1>10 DEF Next, Scan

\* The state of the table, its index and the scan is well typed in every
\* behaviour of the manager, for every number of ids and plugins.
THEOREM HandleTypes == Spec => []TypeOK
<1>1. Init => TypeOK
  BY CellFacts DEF Init, TypeOK
<1> QED
  BY <1>1, TypeNext, PTL DEF Spec

-----------------------------------------------------------------------------
LEMMA IndexNext == TypeOK /\ IndexExact /\ [Next]_vars => IndexExact'
<1> SUFFICES ASSUME TypeOK, IndexExact, [Next]_vars PROVE IndexExact'
  OBVIOUS
<1> USE DEF tvars, scanVars
<1>0. NULL \notin Plugin
  BY HandleAssumption DEF HandleAssumption
<1>1. CASE UNCHANGED tvars
  BY <1>1 DEF IndexExact
<1>2. CASE ScanFound
  <2>1. Probed \in Id
    BY ProbedIsId DEF TypeOK
  <2>2. owner[Probed] = NULL
    BY <1>2, <2>1 DEF ScanFound, IndexExact
  <2>3. owner' \in [Id -> Plugin \cup {NULL}]
        /\ \A id \in Id : owner'[id] = IF id = Probed THEN newOwner ELSE owner[id]
    BY <1>2, <2>1 DEF ScanFound, TypeOK
  <2>4. \A p \in Plugin : pluginHandles'[p] = {id \in Id : owner'[id] = p}
    <3> SUFFICES ASSUME NEW p \in Plugin PROVE pluginHandles'[p] = {id \in Id : owner'[id] = p}
      OBVIOUS
    <3>1. pluginHandles[p] = {id \in Id : owner[id] = p}
      BY DEF IndexExact
    <3>2. pluginHandles'[p] = IF p = newOwner THEN pluginHandles[p] \cup {Probed}
                              ELSE pluginHandles[p]
      BY <1>2 DEF ScanFound
    <3> QED
      BY <1>0, <2>1, <2>2, <2>3, <3>1, <3>2
  <2>5. \A id \in Id \ used' : owner'[id] = NULL
    BY <1>2, <2>3 DEF ScanFound, IndexExact
  <2> QED
    BY <2>4, <2>5 DEF IndexExact
<1>3. ASSUME NEW id \in Id, FreeHandle(id) PROVE IndexExact'
  BY <1>0, <1>3 DEF FreeHandle, RemoveFromPluginSet, IndexExact, TypeOK
<1>4. ASSUME NEW id \in Id, MarkHandleClosed(id) PROVE IndexExact'
  BY <1>4 DEF MarkHandleClosed, IndexExact
<1>5. ASSUME NEW id \in Id, NEW p \in Plugin \cup {NULL}, TransferHandle(id, p) PROVE IndexExact'
  <2>1. CASE id \in used \ closed
    <3>1. \A j \in Id : owner'[j] = IF j = id THEN p ELSE owner[j]
      BY <1>5, <2>1 DEF TransferHandle, TypeOK
    <3>2. \A q \in Plugin : pluginHandles'[q] = {j \in Id : owner'[j] = q}
      <4> SUFFICES ASSUME NEW q \in Plugin PROVE pluginHandles'[q] = {j \in Id : owner'[j] = q}
        OBVIOUS
      <4>1. pluginHandles[q] = {j \in Id : owner[j] = q}
        BY DEF IndexExact
      <4>2. pluginHandles'[q] = IF q = p THEN pluginHandles[q] \cup {id} ELSE pluginHandles[q] \ {id}
        BY <1>5, <2>1 DEF TransferHandle
      <4> QED
        BY <1>0, <3>1, <4>1, <4>2
    <3> QED
      BY <1>5, <2>1, <3>1, <3>2 DEF TransferHandle, IndexExact
  <2>2. CASE ~(id \in used \ closed)
    BY <1>5, <2>2 DEF TransferHandle, IndexExact
  <2> QED
    BY <2>1, <2>2
<1>6. ASSUME NEW p \in Plugin, TakePluginHandles(p) PROVE IndexExact'
  BY <1>0, <1>6 DEF TakePluginHandles, IndexExact, TypeOK
<1>7. CASE CleanHandles
  BY <1>0, <1>7 DEF CleanHandles, IndexExact
<1> QED
  BY <1>1, <1>2, <1>3, <1>4, <1>5, <1>6, <1>7
     DEF Next, Scan, CreateHandle, ScanNext, ScanFails, vars

\* The reverse index of plugin_handles_ and the owner fields of used_handles_
\* agree after every sequence of calls.
THEOREM IndexCorrect == Spec => []IndexExact
<1>1. Init => IndexExact
  BY HandleAssumption DEF Init, IndexExact, HandleAssumption
<1> QED
  BY <1>1, IndexNext, TypeNext, HandleTypes, PTL DEF Spec

-----------------------------------------------------------------------------
LEMMA BetweenStep ==
    ASSUME NEW s \in Cell, NEW c \in Cell
    PROVE  /\ Between(s, s) = {}
           /\ Inc(c) # s => Between(s, Inc(c)) = Between(s, c) \cup {c}
           /\ Inc(c) = s => Between(s, c) \cup {c} = Cell
           /\ c \notin Between(s, c)
BY HandleAssumption DEF HandleAssumption, Between, Inc, Cell

\* The skip of 0 only matters when the scan did not start at 1
LEMMA BetweenProbed ==
    ASSUME NEW s \in Cell, s # 1, candidate \in Cell
    PROVE  Between(s, Probed) \cap Id = Between(s, candidate) \cap Id
BY HandleAssumption DEF HandleAssumption, Between, Probed, Cell, Id

ScanInv == ScanExact /\ CursorNotOne /\ (pc = "scan" => start = next)

LEMMA ScanInvNext == TypeOK /\ ScanInv /\ [Next]_vars => ScanInv'
<1> SUFFICES ASSUME TypeOK, ScanInv, [Next]_vars PROVE ScanInv'
  OBVIOUS
<1> USE DEF tvars, scanVars
<1>1. CASE UNCHANGED vars
  BY <1>1 DEF ScanInv, ScanExact, CursorNotOne, vars
<1>2. ASSUME NEW p \in Plugin \cup {NULL}, CreateHandle(p) PROVE ScanInv'
  BY <1>2, BetweenStep DEF CreateHandle, TypeOK, ScanInv, ScanExact, CursorNotOne
<1>3. CASE ScanFound
  <2>1. Probed \in Id
    BY ProbedIsId DEF TypeOK
  <2>2. Inc(Probed) # 1
    BY <2>1, HandleAssumption DEF HandleAssumption, Inc, Id
  <2> QED
    BY <1>3, <2>2 DEF ScanFound, Advance, ScanInv, ScanExact, CursorNotOne
<1>4. CASE ScanNext
  <2>1. start # 1
    BY <1>4, ProbedIsId DEF ScanNext, ScanInv, CursorNotOne, TypeOK
  <2>2. Between(start, Inc(Probed)) = Between(start, Probed) \cup {Probed}
    BY <1>4, ProbedIsId, BetweenStep DEF ScanNext, ScanWraps, TypeOK
  <2>3. Between(start, Probed) \cap Id \subseteq used
    BY <1>4, <2>1, BetweenProbed DEF ScanNext, ScanInv, ScanExact, TypeOK
  <2>4. Between(start, Inc(Probed)) \cap Id \subseteq used
    BY <1>4, <2>2, <2>3 DEF ScanNext
  <2> QED
    BY <1>4, <2>4 DEF ScanNext, ScanInv, ScanExact, CursorNotOne
<1>5. CASE ScanFails
  BY <1>5 DEF ScanFails, ScanInv, ScanExact, CursorNotOne
<1>6. ASSUME NEW id \in Id, FreeHandle(id) PROVE ScanInv'
  BY <1>6 DEF FreeHandle, ScanInv, ScanExact, CursorNotOne
<1>7. ASSUME NEW id \in Id, MarkHandleClosed(id) PROVE ScanInv'
  BY <1>7 DEF MarkHandleClosed, ScanInv, ScanExact, CursorNotOne
<1>8. ASSUME NEW id \in Id, NEW p \in Plugin \cup {NULL}, TransferHandle(id, p) PROVE ScanInv'
  BY <1>8 DEF TransferHandle, ScanInv, ScanExact, CursorNotOne
<1>9. ASSUME NEW p \in Plugin, TakePluginHandles(p) PROVE ScanInv'
  BY <1>9 DEF TakePluginHandles, ScanInv, ScanExact, CursorNotOne
<1>10. CASE CleanHandles
  BY <1>10 DEF CleanHandles, ScanInv, ScanExact, CursorNotOne
<1> QED
  BY <1>1, <1>2, <1>3, <1>4, <1>5, <1>6, <1>7, <1>8, <1>9, <1>10 DEF Next, Scan

LEMMA ScanInvInit == Init => ScanInv
BY DEF Init, ScanInv, ScanExact, CursorNotOne

\* What the scan of CreateHandle has passed is in use, and it never starts at 1
\* with a handle in the table, for every width of the ids.
THEOREM ScanCorrect == Spec => [](ScanExact /\ CursorNotOne)
<1>1. ScanInv => ScanExact /\ CursorNotOne
  BY DEF ScanInv
<1> QED
  BY <1>1, ScanInvInit, ScanInvNext, HandleTypes, PTL DEF Spec

LEMMA AdvancesStep ==
    ASSUME TypeOK, ScanInv, [Next]_vars, pc = "scan", pc' = "scan"
    PROVE  \/ UNCHANGED vars
           \/ \E id \in Between(start', candidate') \cap Id :
                /\ id \notin Between(start, candidate)
                /\ Between(start, candidate) \subseteq Between(start', candidate')
<1> USE DEF tvars, scanVars
<1>1. CASE ScanNext
  <2>1. start # 1 /\ Probed \in Id /\ start' = start /\ candidate' = Inc(Probed)
    BY <1>1, ProbedIsId DEF ScanNext, ScanInv, CursorNotOne, TypeOK
  <2>2. Between(start, Inc(Probed)) = Between(start, Probed) \cup {Probed}
    BY <1>1, ProbedIsId, BetweenStep DEF ScanNext, ScanWraps, TypeOK
  <2>3. Probed \notin Between(start, candidate)
    BY <2>1, BetweenProbed, BetweenStep, ProbedIsId DEF TypeOK
  <2>4. Between(start, candidate) \subseteq Between(start, Probed) \cup {Probed}
    BY <2>1, HandleAssumption DEF HandleAssumption, Between, Probed, TypeOK, Cell, Id
  <2> QED
    BY <2>1, <2>2, <2>3, <2>4
<1> QED
  BY <1>1 DEF Next, Scan, CreateHandle, ScanFound, ScanFails, FreeHandle, MarkHandleClosed,
              TransferHandle, TakePluginHandles, CleanHandles

\* Every step of the scan that does not end it moves on to an id it has not
\* seen, so CreateHandle ends after at most as many probes as there are ids.
THEOREM ScanMakesProgress == Spec => ScanAdvances
<1>1. TypeOK /\ ScanInv /\ [Next]_vars
        => [pc = "scan" /\ pc' = "scan" =>
               \E id \in Between(start', candidate') \cap Id :
                   /\ id \notin Between(start, candidate)
                   /\ Between(start, candidate) \subseteq Between(start', candidate')]_vars
  BY AdvancesStep
<1> QED
  BY <1>1, ScanInvInit, ScanInvNext, HandleTypes, PTL DEF Spec, ScanAdvances

-----------------------------------------------------------------------------
(* Reuse: passed[id] covers the way of the cursor since id was given out.  *)

LEMMA BetweenChain ==
    ASSUME NEW a \in Cell, NEW b \in Cell, NEW c \in Cell
    PROVE  Between(a, c) \subseteq Between(a, b) \cup Between(b, c)
BY HandleAssumption DEF HandleAssumption, Between, Cell

LEMMA BetweenAround ==
    ASSUME NEW c \in Cell
    PROVE  Cell \ {c} \subseteq Between(Inc(c), c)
BY HandleAssumption DEF HandleAssumption, Between, Cell, Inc

PassedInv ==
    \A id \in Id : \/ Id \subseteq passed[id]
                  \/ Between(Inc(id), next) \cap Id \subseteq passed[id]

LEMMA PassedNext == TypeOK /\ ScanInv /\ PassedInv /\ [Next]_vars => PassedInv'
<1> SUFFICES ASSUME TypeOK, ScanInv, PassedInv, [Next]_vars PROVE PassedInv'
  OBVIOUS
<1> USE DEF tvars, scanVars
<1>1. CASE ScanFound
  <2> SUFFICES ASSUME NEW id \in Id
               PROVE  \/ Id \subseteq passed'[id]
                      \/ Between(Inc(id), next') \cap Id \subseteq passed'[id]
    BY DEF PassedInv
  <2>1. Probed \in Id /\ Probed \in Cell /\ id \in Cell /\ Inc(id) \in Cell
        /\ start \in Cell /\ next = start /\ next' = Inc(Probed) /\ Inc(Probed) \in Cell
    BY <1>1, ProbedIsId, CellFacts DEF ScanFound, ScanInv, Advance, TypeOK
  <2>2. CASE id = Probed
    BY <2>1, <2>2, BetweenStep
  <2>3. CASE id # Probed
    <3>1. passed'[id] = passed[id] \cup ((Between(start, Probed) \cup {Probed}) \cap Id)
      BY <1>1, <2>3 DEF ScanFound
    <3>2. CASE Id \subseteq passed[id]
      BY <3>1, <3>2
    <3>3. CASE Between(Inc(id), start) \cap Id \subseteq passed[id]
      <4>1. Between(Inc(id), Probed) \subseteq Between(Inc(id), start) \cup Between(start, Probed)
        BY <2>1, BetweenChain
      <4>2. Inc(Probed) # Inc(id)
        BY <2>1, <2>3 DEF Inc, Id
      <4>3. Between(Inc(id), Inc(Probed)) = Between(Inc(id), Probed) \cup {Probed}
        BY <2>1, <4>2, BetweenStep
      <4> QED
        BY <2>1, <3>1, <3>3, <4>1, <4>3
    <3> QED
      BY <2>1, <3>2, <3>3 DEF PassedInv
  <2> QED
    BY <2>2, <2>3
<1> QED
  BY <1>1 DEF PassedInv, Next, Scan, CreateHandle, ScanNext, ScanFails, FreeHandle,
              MarkHandleClosed, TransferHandle, TakePluginHandles, CleanHandles, vars

LEMMA ReuseStep ==
    ASSUME TypeOK, ScanInv, PassedInv, [Next]_vars, NEW id \in used' \ used
    PROVE  Id \ {id} \subseteq passed[id] \cup Between(start, id)
<1> USE DEF tvars, scanVars
<1>1. CASE ScanFound
  <2>1. id = Probed /\ Probed \in Id /\ Probed \in Cell /\ Inc(id) \in Cell
        /\ start \in Cell /\ next = start
    BY <1>1, ProbedIsId, CellFacts DEF ScanFound, ScanInv, TypeOK
  <2>2. CASE Id \subseteq passed[id]
    BY <2>2
  <2>3. CASE Between(Inc(id), start) \cap Id \subseteq passed[id]
    <3>1. Cell \ {id} \subseteq Between(Inc(id), start) \cup Between(start, id)
      BY <2>1, BetweenAround, BetweenChain
    <3> QED
      BY <2>3, <3>1, CellFacts
  <2> QED
    BY <2>1, <2>2, <2>3 DEF PassedInv
<1> QED
  BY <1>1 DEF Next, Scan, CreateHandle, ScanNext, ScanFails, FreeHandle,
              MarkHandleClosed, TransferHandle, TakePluginHandles, CleanHandles, vars

\* An id is not given out a second time before the cursor went over every other
\* id: the cooldown that next_handle_ is there for, for every width of the ids.
THEOREM ReuseAfterFullCycle == Spec => FullCycleBeforeReuse
<1>1. Init => PassedInv
  BY DEF Init, PassedInv
<1>2. TypeOK /\ ScanInv /\ PassedInv /\ [Next]_vars
        => [\A id \in used' \ used : Id \ {id} \subseteq passed[id] \cup Between(start, id)]_vars
  BY ReuseStep
<1> QED
  BY <1>1, <1>2, PassedNext, ScanInvInit, ScanInvNext, HandleTypes, PTL
     DEF Spec, FullCycleBeforeReuse

-----------------------------------------------------------------------------
(* The manager implements the abstract table.                              *)

LEMMA TableStep ==
    ASSUME TypeOK, IndexExact, ScanInv, [Next]_vars
    PROVE  [Table!Next]_(Table!tableVars)
<1> USE DEF tvars, scanVars, Table!tableVars
<1>1. ASSUME NEW p \in Plugin \cup {NULL}, CreateHandle(p) PROVE UNCHANGED Table!tableVars
  BY <1>1 DEF CreateHandle
<1>2. CASE ScanFound
  <2>1. Probed \in Id \ used /\ newOwner \in Plugin \cup {NULL}
    BY <1>2, ProbedIsId DEF ScanFound, TypeOK
  <2>2. Table!CreateHandle(newOwner)
    BY <1>2, <2>1 DEF ScanFound, Table!CreateHandle
  <2> QED
    BY <2>1, <2>2 DEF Table!Next
<1>3. CASE ScanNext
  BY <1>3 DEF ScanNext
<1>4. CASE ScanFails
  <2>1. start # 1
    BY <1>4, ProbedIsId DEF ScanFails, ScanInv, CursorNotOne, TypeOK
  <2>2. Between(start, Probed) \cup {Probed} = Cell
    BY <1>4, ProbedIsId, BetweenStep DEF ScanFails, ScanWraps, TypeOK
  <2>3. Between(start, Probed) \cap Id \subseteq used
    BY <1>4, <2>1, BetweenProbed DEF ScanFails, ScanInv, ScanExact, TypeOK
  <2>4. used = Id
    BY <1>4, <2>2, <2>3, CellFacts DEF ScanFails, TypeOK
  <2>5. Table!CreateFails
    BY <1>4, <2>4 DEF ScanFails, Table!CreateFails
  <2> QED
    BY <2>5 DEF Table!Next
<1>5. ASSUME NEW id \in Id, FreeHandle(id) PROVE Table!FreeHandle(id)
  BY <1>5 DEF FreeHandle, Table!FreeHandle
<1>6. ASSUME NEW id \in Id, MarkHandleClosed(id) PROVE Table!MarkHandleClosed(id)
  BY <1>6 DEF MarkHandleClosed, Table!MarkHandleClosed
<1>7. ASSUME NEW id \in Id, NEW p \in Plugin \cup {NULL}, TransferHandle(id, p)
      PROVE  Table!TransferHandle(id, p)
  BY <1>7 DEF TransferHandle, Table!TransferHandle
<1>8. ASSUME NEW p \in Plugin, TakePluginHandles(p) PROVE Table!TakePluginHandles(p)
  <2>1. pluginHandles[p] \cap used = {id \in Id : owner[id] = p}
    BY HandleAssumption DEF HandleAssumption, IndexExact, TypeOK
  <2> QED
    BY <1>8, <2>1 DEF TakePluginHandles, Table!TakePluginHandles
<1>9. CASE CleanHandles
  BY <1>9 DEF CleanHandles, Table!CleanHandles, Table!Next
<1>10. CASE UNCHANGED vars
  BY <1>10 DEF vars
<1> QED
  BY <1>1, <1>2, <1>3, <1>4, <1>5, <1>6, <1>7, <1>8, <1>9, <1>10 DEF Next, Scan, Table!Next

\* The handle manager, with its cursor, its scan and its index, implements the
\* table the natives rely on: fresh ids, failure only when the table is full,
\* and every plugin handle found at unload.
THEOREM ManagerImplementsTable == Spec => TableSpec
<1>1. Init => Table!Init
  BY DEF Init, Table!Init
<1> QED
  BY <1>1, TableStep, IndexCorrect, ScanInvInit, ScanInvNext, HandleTypes, PTL
     DEF Spec, TableSpec, Table!Spec
=============================================================================
