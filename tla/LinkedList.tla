----------------------------- MODULE LinkedList -----------------------------
(***************************************************************************)
(* async2's LinkedList as it is in memory: a circular doubly linked list   *)
(* around a sentinel, the map nodes_ from ids to nodes, and ids recycled   *)
(* through the queue free_ids_.  All calls come from the game thread.      *)
(*                                                                         *)
(* It implements ListSpec as long as next_id_ has not wrapped: NextId does *)
(* not ask whether an id is in use, and Clear forgets the free ids without *)
(* taking next_id_ back, so a list cleared often enough would wrap.        *)
(***************************************************************************)
EXTENDS Integers, Sequences, FiniteSets, Functions

CONSTANTS
    Addr,      \* node addresses
    Sentinel,  \* the address of sentinel_
    Value,     \* values stored
    IdSpace    \* ids are taken modulo this: 2^32 in the code

ASSUME ListAssumption ==
    /\ Sentinel \notin Addr
    /\ Value \subseteq Int /\ 0 \in Value
    /\ IdSpace \in Nat /\ IdSpace > 1

VARIABLES
    ptr,      \* prev and next of the sentinel and of every node
    val, idOf, \* value and id of every node
    mem,      \* nodes allocated
    nodes,    \* nodes_
    free,     \* free_ids_
    nextId,   \* next_id_
    out       \* the last call: the native, the id it was given, its result

vars == <<ptr, val, idOf, mem, nodes, free, nextId, out>>

Cell == Addr \cup {Sentinel}
Ids == 1 .. IdSpace - 1
Ops == {"Create", "PushFront", "PushBack", "PopFront", "PopBack", "Remove", "MoveToFront",
        "MoveToBack", "GetValue", "SetValue", "First", "Last", "Next", "Prev", "Size",
        "Clear", "Copy"}

TypeOK ==
    /\ ptr \in [prev : [Cell -> Cell], next : [Cell -> Cell]]
    /\ val \in [Addr -> Value] /\ idOf \in [Addr -> Ids \cup {0}]
    /\ mem \subseteq Addr
    /\ DOMAIN nodes \subseteq Ids /\ nodes \in [DOMAIN nodes -> Addr]
    /\ free \in Seq(Ids)
    /\ nextId \in 0 .. IdSpace - 1
    /\ out \in [op : Ops, id : Ids \cup {0}, ret : Int]

EmptyRing == [prev |-> [c \in Cell |-> Sentinel], next |-> [c \in Cell |-> Sentinel]]

Init ==
    /\ ptr = EmptyRing
    /\ val = [a \in Addr |-> 0] /\ idOf = [a \in Addr |-> 0]
    /\ mem = {} /\ nodes = <<>> /\ free = <<>>
    /\ nextId = 1
    /\ out = [op |-> "Create", id |-> 0, ret |-> 0]

-----------------------------------------------------------------------------
Call(op, id, x) == out' = [op |-> op, id |-> id, ret |-> x]

\* FindNode finds something
Found(id) == id \in DOMAIN nodes

InsertBefore(p, pos, n) ==
    [next |-> [p.next EXCEPT ![n] = pos, ![p.prev[pos]] = n],
     prev |-> [p.prev EXCEPT ![n] = p.prev[pos], ![pos] = n]]

Unlink(p, n) ==
    [next |-> [p.next EXCEPT ![p.prev[n]] = p.next[n]],
     prev |-> [p.prev EXCEPT ![p.next[n]] = p.prev[n]]]

Without(f, x) == [i \in DOMAIN f \ {x} |-> f[i]]
With(f, x, y) == [i \in DOMAIN f \cup {x} |-> IF i = x THEN y ELSE f[i]]

\* Variant: the queue is looked at, not popped.
NextIdPeeks ==
    IF free # <<>>
    THEN [id |-> Head(free), free |-> free, next |-> nextId]
    ELSE [id |-> nextId, free |-> free, next |-> (nextId + 1) % IdSpace]

\* An id from the queue, or the next one.  Next ids end before the wrap, where
\* 0 would be skipped: that is the bound on behaviours.
NextId ==
    IF free # <<>>
    THEN [id |-> Head(free), free |-> Tail(free), next |-> nextId]
    ELSE [id |-> nextId, free |-> free, next |-> (nextId + 1) % IdSpace]

HasId == free # <<>> \/ nextId # 0

\* new Node, linked before pos
Push(op, a, v, pos) ==
    /\ a \notin mem /\ HasId
    /\ mem' = mem \cup {a}
    /\ val' = [val EXCEPT ![a] = v]
    /\ idOf' = [idOf EXCEPT ![a] = NextId.id]
    /\ free' = NextId.free /\ nextId' = NextId.next
    /\ ptr' = InsertBefore(ptr, pos, a)
    /\ nodes' = With(nodes, NextId.id, a)
    /\ Call(op, 0, NextId.id)

PushFront(a, v) == Push("PushFront", a, v, ptr.next[Sentinel])
PushBack(a, v) == Push("PushBack", a, v, Sentinel)

Returns(op, id, x) ==
    Call(op, id, x) /\ UNCHANGED <<ptr, val, idOf, mem, nodes, free, nextId>>

\* delete node: its fields are as those of a node never allocated
Released(p, n) ==
    [next |-> [p.next EXCEPT ![n] = Sentinel], prev |-> [p.prev EXCEPT ![n] = Sentinel]]

\* Unlinked, taken out of the map, its id recycled, and deleted
Delete(op, id, n) ==
    /\ Call(op, id, val[n])
    /\ ptr' = Released(Unlink(ptr, n), n)
    /\ nodes' = Without(nodes, idOf[n])
    /\ free' = Append(free, idOf[n])
    /\ val' = [val EXCEPT ![n] = 0] /\ idOf' = [idOf EXCEPT ![n] = 0]
    /\ mem' = mem \ {n}
    /\ UNCHANGED nextId

PopFront ==
    IF DOMAIN nodes = {} THEN Returns("PopFront", 0, 0)
    ELSE Delete("PopFront", 0, ptr.next[Sentinel])
PopBack ==
    IF DOMAIN nodes = {} THEN Returns("PopBack", 0, 0)
    ELSE Delete("PopBack", 0, ptr.prev[Sentinel])
Remove(id) ==
    IF Found(id) THEN Delete("Remove", id, nodes[id]) ELSE Returns("Remove", id, 0)

\* Moves a node unless it is at that end already
MoveTo(op, id, end, pos) ==
    IF ~Found(id) \/ nodes[id] = end
    THEN Returns(op, id, 0)
    ELSE /\ ptr' = InsertBefore(Unlink(ptr, nodes[id]), pos, nodes[id])
         /\ Call(op, id, 0)
         /\ UNCHANGED <<val, idOf, mem, nodes, free, nextId>>

MoveToFront(id) ==
    MoveTo("MoveToFront", id, ptr.next[Sentinel], Unlink(ptr, nodes[id]).next[Sentinel])

\* Variant: inserted before the last node, as MoveToFront is before the first.
MoveToBackBeforeLast(id) ==
    MoveTo("MoveToBack", id, ptr.prev[Sentinel], Unlink(ptr, nodes[id]).prev[Sentinel])

MoveToBack(id) ==
    MoveTo("MoveToBack", id, ptr.prev[Sentinel], Sentinel)

GetValue(id) == Returns("GetValue", id, IF Found(id) THEN val[nodes[id]] ELSE 0)

SetValue(id, v) ==
    /\ val' = IF Found(id) THEN [val EXCEPT ![nodes[id]] = v] ELSE val
    /\ Call("SetValue", id, 0)
    /\ UNCHANGED <<ptr, idOf, mem, nodes, free, nextId>>

IdOfCell(c) == IF c = Sentinel THEN 0 ELSE idOf[c]

First == Returns("First", 0, IdOfCell(ptr.next[Sentinel]))
Last == Returns("Last", 0, IdOfCell(ptr.prev[Sentinel]))
NextOf(id) == Returns("Next", id, IF Found(id) THEN IdOfCell(ptr.next[nodes[id]]) ELSE 0)
PrevOf(id) == Returns("Prev", id, IF Found(id) THEN IdOfCell(ptr.prev[nodes[id]]) ELSE 0)
Size == Returns("Size", 0, Cardinality(DOMAIN nodes))

\* The free ids are dropped, and next_id_ goes on from where it is
Clear ==
    /\ ptr' = EmptyRing
    /\ val' = [a \in Addr |-> 0] /\ idOf' = [a \in Addr |-> 0]
    /\ mem' = {} /\ nodes' = <<>> /\ free' = <<>>
    /\ Call("Clear", 0, 0)
    /\ UNCHANGED nextId

\* The ring through the nodes w[1], w[2] ... has the sentinel before its first
\* node and after its last
CellAt(w, i) == IF i \in DOMAIN w THEN w[i] ELSE Sentinel
Follows(p, w) == \A i \in 0 .. Len(w) : p.next[CellAt(w, i)] = CellAt(w, i + 1)

\* The nodes that DeepCopy visits from the sentinel, along next, until it is back
Walk == CHOOSE w \in UNION {[1 .. n -> mem] : n \in 0 .. Cardinality(mem)} : Follows(ptr, w)

IndexOf(a, c) == CHOOSE i \in DOMAIN a : a[i] = c

\* The ring that n calls of PushBack make of the nodes a[1] .. a[n]
Ring(a) ==
    [next |-> [c \in Cell |-> IF c = Sentinel THEN CellAt(a, 1)
                               ELSE IF c \in Range(a) THEN CellAt(a, IndexOf(a, c) + 1)
                               ELSE Sentinel],
     prev |-> [c \in Cell |-> IF c = Sentinel THEN CellAt(a, Len(a))
                               ELSE IF c \in Range(a) THEN CellAt(a, IndexOf(a, c) - 1)
                               ELSE Sentinel]]

\* Native_LinkedListCopy, after which the original is closed: DeepCopy walks the
\* list and pushes its values to the back of a new one
Copy(a) ==
    /\ ptr' = Ring(a)
    /\ val' = [c \in Addr |-> IF c \in Range(a) THEN val[Walk[IndexOf(a, c)]] ELSE 0]
    /\ idOf' = [c \in Addr |-> IF c \in Range(a) THEN IndexOf(a, c) ELSE 0]
    /\ mem' = Range(a) /\ nodes' = a /\ free' = <<>>
    /\ nextId' = (Len(a) + 1) % IdSpace
    /\ Call("Copy", 0, 0)

Injections(n) == {a \in [1 .. n -> Addr] : IsInjective(a)}

-----------------------------------------------------------------------------
Next ==
    \/ \E a \in Addr, v \in Value : PushFront(a, v) \/ PushBack(a, v)
    \/ PopFront \/ PopBack \/ First \/ Last \/ Size \/ Clear
    \/ \E id \in Ids : \/ Remove(id) \/ MoveToFront(id) \/ MoveToBack(id)
                       \/ GetValue(id) \/ NextOf(id) \/ PrevOf(id)
                       \/ \E v \in Value : SetValue(id, v)
    \/ \E a \in Injections(Len(Walk)) : Copy(a)

Spec == Init /\ [][Next]_vars

-----------------------------------------------------------------------------
(* Properties                                                              *)

\* The prev and next pointers of the sentinel and of the nodes are inverse to
\* each other and stay among them, through every Unlink and InsertBefore.
RingClosed ==
    \A c \in mem \cup {Sentinel} :
        /\ ptr.next[c] \in mem \cup {Sentinel} /\ ptr.prev[c] \in mem \cup {Sentinel}
        /\ ptr.prev[ptr.next[c]] = c /\ ptr.next[ptr.prev[c]] = c

\* nodes_ and the nodes in memory agree: an id finds the node that bears it, no
\* node is lost, and the id of a removed node finds nothing until it is reissued.
MapExact ==
    /\ \A id \in DOMAIN nodes : nodes[id] \in mem /\ idOf[nodes[id]] = id
    /\ \A a \in mem : idOf[a] \in DOMAIN nodes /\ nodes[idOf[a]] = a

\* The next id is always one that no node has: ids in the queue are there once,
\* are not in use, and like the ids in use were given out by next_id_ before.
IdsFresh ==
    /\ \A i \in DOMAIN free : free[i] \notin DOMAIN nodes
    /\ \A i, j \in DOMAIN free : free[i] = free[j] => i = j
    /\ nextId # 0 => \A id \in DOMAIN nodes \cup {free[i] : i \in DOMAIN free} : id < nextId

\* The list in memory is sound: its fields have their types, the ring is closed,
\* the map is exact and the ids are fresh, after every call of linked_list.cpp.
\* The parts need each other: Unlink keeps the ring closed because the map led it
\* to a node of the ring, and the map stays exact because a new id is fresh.
ListInv == TypeOK /\ RingClosed /\ MapExact /\ IdsFresh

\* The list in memory implements the sequence that ListSpec describes: elements
\* keep their order, values and ids whatever is pushed, moved and removed.
Elements ==
    LET w == Walk
    IN [i \in DOMAIN w |-> [id |-> idOf[w[i]], value |-> val[w[i]]]]
Abstract == INSTANCE ListSpec WITH list <- Elements, out <- out, Ids <- Ids, Value <- Value
ImplementsList == Abstract!Spec
=============================================================================
