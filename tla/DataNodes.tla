----------------------------- MODULE DataNodes -----------------------------
(***************************************************************************)
(* The reference-counted tree of data/data_node.cpp, the handles and       *)
(* iterators that the JSON and IntObject natives make of it, and the two   *)
(* ways a tree crosses the thread border: a copy sent to the event thread  *)
(* (request body, WebSocket message) and a tree parsed there and handed    *)
(* over (response, WebSocket message).                                     *)
(*                                                                         *)
(* Every container is a function from its keys (1..length for an array) to *)
(* child nodes. Scalars are one type, "Int": their value is data. Blocks   *)
(* come from the pool; which block it is, no code looks at, so any free    *)
(* one will do.                                                            *)
(*                                                                         *)
(* A native is one step up to the references it releases and the trees it  *)
(* copies. Decref and DeepCopy walk trees, while the other thread runs, so *)
(* they take one step per node: drop holds the calls of Decref that a      *)
(* thread still has to make before it goes on, and copy the tree that the  *)
(* native in job is copying. The order in which a walk visits the nodes,   *)
(* which decides only which blocks are taken and freed first, is left open.*)
(***************************************************************************)
EXTENDS Integers, FiniteSets

CONSTANTS
    Node,           \* blocks of the pool (a bound: the pool grows)
    Handle,         \* slots of the handle table, which is finite
    None,           \* nullptr, no handle
    Keys,           \* number of keys that plugins use
    MaxLength       \* bound on the length of an array

ASSUME DataAssumption ==
    /\ IsFiniteSet(Node) /\ IsFiniteSet(Handle)
    /\ None \notin Node \cup Handle
    /\ Keys \in Nat \ {0} /\ MaxLength \in Nat \ {0}

VARIABLES
    heap,       \* the pool: type, refcount and children of every block, and moved:
                \* has the version of the iterated container changed?
    json,       \* DataHandle.node of every Json handle, None when the slot is free
    iter,       \* the iterator and its slot, or NoIter (bound: one at a time)
    body,       \* body_node of an HttpRequest that was not sent yet
    sent,       \* the body_node of a request or a WsOp that the event thread has
    parsed,     \* response_node or parsed_node on its way to the game thread
    drop,       \* per thread and node: calls of Decref still to be made
    copy,       \* the copy under way: its root, and what each node of it copies
    job         \* the native that copies, and what it has still to do

vars == <<heap, json, iter, body, sent, parsed, drop, copy, job>>

Key == 1..Keys
Index == 1..MaxLength
Slot == Key \cup Index
Maps == {"Object", "IntMap"}
Containers == Maps \cup {"Array"}
Thread == {"game", "event"}

NoKids == [k \in {} |-> None]
NoIter == [slot |-> None, node |-> None, todo |-> {}, keys |-> {}, value |-> None]
NoCopy == [root |-> None, of |-> NoKids]
NoJob == [op |-> "None", h |-> None, o |-> None, todo |-> {}, overwrite |-> FALSE]

-----------------------------------------------------------------------------
(* Nodes, and references counted per node.                                 *)

Blank == [type |-> [n \in Node |-> "Free"], ref |-> [n \in Node |-> 0],
          kids |-> [n \in Node |-> NoKids], moved |-> FALSE]

FreeNodes(H) == {n \in Node : H.type[n] = "Free"}
Kids(H, n) == {H.kids[n][k] : k \in DOMAIN H.kids[n]}

Make(H, m, t) == [H EXCEPT !.type[m] = t, !.ref[m] = 1, !.kids[m] = NoKids]
Incref(H, n) == [H EXCEPT !.ref[n] = @ + 1]

Nothing == [n \in Node |-> 0]
One(n) == [m \in Node |-> IF m = n THEN 1 ELSE 0]
Refs(f) == [m \in Node |-> Cardinality({k \in DOMAIN f : f[k] = m})]
Plus(a, b) == [m \in Node |-> a[m] + b[m]]

\* S and everything below it: what every set that holds S and the children of its
\* members holds.
ClosedUnder(H, T) == \A n \in T : Kids(H, n) \subseteq T
Below(H, S) ==
    LET C == {T \in SUBSET Node : S \subseteq T /\ ClosedUnder(H, T)}
    IN  {n \in Node : \A T \in C : n \in T}

Set(f, k, c) == [i \in DOMAIN f \cup {k} |-> IF i = k THEN c ELSE f[i]]
Delete(f, k) == [i \in DOMAIN f \ {k} |-> f[i]]
Length(f) == Cardinality(DOMAIN f)
RemoveAt(f, i) == [j \in 1..Length(f) - 1 |-> IF j < i THEN f[j] ELSE f[j + 1]]

SetKids(H, n, f) == [H EXCEPT !.kids[n] = f]
Put(H, n, k, c) == SetKids(H, n, Set(H.kids[n], k, c))
Append2(H, n, c) == Put(H, n, Length(H.kids[n]) + 1, c)

\* version++
Bump(H, n) == [H EXCEPT !.moved = @ \/ n = iter.node]

\* What a parser returns: an object whose members are scalars.
Parsed(H, r, f) ==
    LET leaves == {f[k] : k \in DOMAIN f}
    IN  [type |-> [m \in Node |-> IF m = r THEN "Object"
                                  ELSE IF m \in leaves THEN "Int" ELSE H.type[m]],
         ref |-> [m \in Node |-> IF m \in leaves \cup {r} THEN 1 ELSE H.ref[m]],
         kids |-> [m \in Node |-> IF m = r THEN f ELSE H.kids[m]],
         moved |-> H.moved]

Parses(H, r) ==
    {f \in UNION {[ks -> FreeNodes(H) \ {r}] : ks \in SUBSET Key} :
        \A j, k \in DOMAIN f : f[j] = f[k] => j = k}

-----------------------------------------------------------------------------
(* Containers. An operation is the heap it leaves and the references it    *)
(* releases. ObjInsert and ArrSet take ownership of the value they are     *)
(* given and release the one they replace.                                 *)

Leaves(H) == [heap |-> H, out |-> Nothing]

MapInsert(H, n, t, k, c) ==
    IF H.type[n] # t THEN [heap |-> H, out |-> One(c)]
    ELSE [heap |-> Put(Bump(H, n), n, k, c),
          out |-> IF k \in DOMAIN H.kids[n] THEN One(H.kids[n][k]) ELSE Nothing]

ObjInsert(H, n, k, c) == MapInsert(H, n, "Object", k, c)
IntMapInsert(H, n, k, c) == MapInsert(H, n, "IntMap", k, c)

MapErase(H, n, k) ==
    [heap |-> SetKids(Bump(H, n), n, Delete(H.kids[n], k)), out |-> One(H.kids[n][k])]

\* Variant: erasing a key does not count as a mutation.
ObjEraseUncounted(H, n, k) ==
    IF H.type[n] # "Object" \/ k \notin DOMAIN H.kids[n] THEN Leaves(H)
    ELSE [heap |-> SetKids(H, n, Delete(H.kids[n], k)), out |-> One(H.kids[n][k])]

ObjErase(H, n, k) ==
    IF H.type[n] # "Object" \/ k \notin DOMAIN H.kids[n] THEN Leaves(H) ELSE MapErase(H, n, k)
IntMapErase(H, n, k) ==
    IF H.type[n] # "IntMap" \/ k \notin DOMAIN H.kids[n] THEN Leaves(H) ELSE MapErase(H, n, k)

MapClear(H, n) == [heap |-> SetKids(Bump(H, n), n, NoKids), out |-> Refs(H.kids[n])]
ObjClear(H, n) == IF H.type[n] # "Object" THEN Leaves(H) ELSE MapClear(H, n)
IntMapClear(H, n) == IF H.type[n] # "IntMap" THEN Leaves(H) ELSE MapClear(H, n)

InArray(H, n, i) == H.type[n] = "Array" /\ i \in DOMAIN H.kids[n]

ArrRemove(H, n, i) ==
    IF ~InArray(H, n, i) THEN Leaves(H)
    ELSE [heap |-> SetKids(H, n, RemoveAt(H.kids[n], i)), out |-> One(H.kids[n][i])]

ArrSet(H, n, i, c) ==
    IF ~InArray(H, n, i) THEN [heap |-> H, out |-> One(c)]
    ELSE [heap |-> Put(H, n, i, c), out |-> One(H.kids[n][i])]

ArrClear(H, n) ==
    IF H.type[n] # "Array" THEN Leaves(H)
    ELSE [heap |-> SetKids(H, n, NoKids), out |-> Refs(H.kids[n])]

-----------------------------------------------------------------------------
(* Handles and the release of references.                                  *)

Init ==
    /\ heap = Blank
    /\ json = [h \in Handle |-> None]
    /\ iter = NoIter
    /\ body = None
    /\ sent = None
    /\ parsed = None
    /\ drop = [t \in Thread |-> Nothing]
    /\ copy = NoCopy
    /\ job = NoJob

Valid(h) == json[h] # None
OfType(h, t) == Valid(h) /\ heap.type[json[h]] = t
FreeHandles == {h \in Handle : ~Valid(h) /\ h # iter.slot}

Release(t, b) == drop' = [drop EXCEPT ![t] = Plus(@, b)]

\* One call of Decref: the last reference frees the node and releases its children.
Decref(t, n) ==
    /\ drop[t][n] > 0
    /\ IF heap.ref[n] > 1
       THEN /\ heap' = [heap EXCEPT !.ref[n] = @ - 1]
            /\ drop' = [drop EXCEPT ![t][n] = @ - 1]
       ELSE /\ heap' = [heap EXCEPT !.ref[n] = 0, !.type[n] = "Free", !.kids[n] = NoKids]
            /\ drop' = [drop EXCEPT ![t] = [Plus(drop[t], Refs(heap.kids[n])) EXCEPT ![n] = @ - 1]]
    /\ UNCHANGED <<json, iter, body, sent, parsed, copy, job>>

\* new DataHandle(n), CreateHandle, and delete when the table is full.
NewHandle(n) ==
    IF FreeHandles = {}
    THEN Release("game", One(n)) /\ UNCHANGED json
    ELSE json' = [json EXCEPT ![CHOOSE h \in FreeHandles : TRUE] = n] /\ UNCHANGED drop

\* FreeHandle after the references in b were released.
FreeHandle(h, b) ==
    /\ Release("game", Plus(b, One(json[h])))
    /\ json' = [json EXCEPT ![h] = None]

WrapChildNode(n) == heap' = Incref(heap, n) /\ NewHandle(n)

NotCopying == UNCHANGED <<copy, job>>
Others == UNCHANGED <<iter, body, sent, parsed>> /\ NotCopying

-----------------------------------------------------------------------------
(* Natives that make, close and read handles.                              *)

Native_JsonCreate(t) ==
    /\ \E m \in FreeNodes(heap) : heap' = Make(heap, m, t) /\ NewHandle(m)
    /\ Others

Native_JsonParseString ==
    /\ \E r \in FreeNodes(heap) : \E f \in Parses(heap, r) :
          heap' = Parsed(heap, r, f) /\ NewHandle(r)
    /\ Others

Native_JsonClose(h) == Valid(h) /\ FreeHandle(h, Nothing) /\ UNCHANGED heap /\ Others

Native_JsonRef(h) == Valid(h) /\ WrapChildNode(json[h]) /\ Others

\* Get takes a child of any type; GetObject and GetArray only one type of them.
GetNode(h, k, t) ==
    /\ OfType(h, t)
    /\ k \in DOMAIN heap.kids[json[h]]
    /\ WrapChildNode(heap.kids[json[h]][k])
    /\ Others

Native_JsonGet(h, k) == GetNode(h, k, "Object")
Native_JsonArrayGet(h, i) == GetNode(h, i, "Array")
Native_IntMapGet(h, k) == GetNode(h, k, "IntMap")

\* A path, of any length, leads to any node below the handle's.
ResolveJsonPath(n) == Below(heap, {n})

Native_JsonPathGet(h) ==
    /\ Valid(h)
    /\ \E n \in ResolveJsonPath(json[h]) : WrapChildNode(n)
    /\ Others

-----------------------------------------------------------------------------
(* Natives that change a container. A scalar setter checks the type before *)
(* it makes the value, ArraySet* leaves that to ArrSet, and the setters of *)
(* nodes take a reference for the container before they free the handle.   *)

\* The natives refuse the node itself; that callers do not insert one of its
\* ancestors either is assumed.
Insertable(n, c) == n \notin Below(heap, {c})

Change(r) ==
    /\ heap' = r.heap
    /\ Release("game", r.out)
    /\ UNCHANGED json
    /\ Others

Native_JsonSet(h, k) ==
    /\ OfType(h, "Object")
    /\ \E m \in FreeNodes(heap) : Change(ObjInsert(Make(heap, m, "Int"), json[h], k, m))
Native_IntMapSet(h, k) ==
    /\ OfType(h, "IntMap")
    /\ \E m \in FreeNodes(heap) : Change(IntMapInsert(Make(heap, m, "Int"), json[h], k, m))
Native_JsonArraySet(h, i) ==
    /\ Valid(h)
    /\ \E m \in FreeNodes(heap) : Change(ArrSet(Make(heap, m, "Int"), json[h], i, m))
Native_JsonArrayAppend(h) ==
    /\ OfType(h, "Array")
    /\ Length(heap.kids[json[h]]) < MaxLength
    /\ \E m \in FreeNodes(heap) : Change(Leaves(Append2(Make(heap, m, "Int"), json[h], m)))

SetNode(h, c, r) ==
    /\ Valid(h) /\ Valid(c)
    /\ Insertable(json[h], json[c])
    /\ heap' = r.heap
    /\ FreeHandle(c, r.out)
    /\ Others

\* Variant: the container takes over the reference of the handle that is freed.
Native_JsonSetObjectUncounted(h, k, c) ==
    SetNode(h, c, ObjInsert(heap, json[h], k, json[c]))

Native_JsonSetObject(h, k, c) ==
    SetNode(h, c, ObjInsert(Incref(heap, json[c]), json[h], k, json[c]))
Native_IntMapSetObject(h, k, c) ==
    SetNode(h, c, IntMapInsert(Incref(heap, json[c]), json[h], k, json[c]))
Native_JsonArraySetObject(h, i, c) ==
    SetNode(h, c, ArrSet(Incref(heap, json[c]), json[h], i, json[c]))

\* Called on arrays only: it does not look at the type.
Native_JsonArrayAppendObject(h, c) ==
    /\ OfType(h, "Array")
    /\ Length(heap.kids[json[h]]) < MaxLength
    /\ SetNode(h, c, Leaves(Append2(Incref(heap, json[c]), json[h], json[c])))

Native_JsonRemoveKey(h, k) == Valid(h) /\ Change(ObjErase(heap, json[h], k))
Native_IntMapRemoveKey(h, k) == Valid(h) /\ Change(IntMapErase(heap, json[h], k))
Native_JsonObjectClear(h) == Valid(h) /\ Change(ObjClear(heap, json[h]))
Native_IntMapClear(h) == Valid(h) /\ Change(IntMapClear(heap, json[h]))
Native_JsonArrayRemove(h, i) == Valid(h) /\ Change(ArrRemove(heap, json[h], i))
Native_JsonArrayClear(h) == Valid(h) /\ Change(ArrClear(heap, json[h]))

-----------------------------------------------------------------------------
(* Deep copies. The nodes of a copy are linked as they are made.           *)

StartCopy(n) ==
    \E m \in FreeNodes(heap) :
        /\ heap' = Make(heap, m, heap.type[n])
        /\ copy' = [root |-> m, of |-> [d \in {m} |-> n]]

\* Keys of the original that the copy d does not have yet.
Missing(d) == DOMAIN heap.kids[copy.of[d]] \ DOMAIN heap.kids[d]

Copying == copy # NoCopy /\ drop["game"] = Nothing
Copied == Copying /\ \A d \in DOMAIN copy.of : Missing(d) = {}

\* Variant: the copy shares the children of the original.
DeepCopyShallow(d, k) ==
    /\ Copying
    /\ k \in Missing(d)
    /\ \A j \in Missing(d) : k <= j
    /\ LET c == heap.kids[copy.of[d]][k] IN heap' = Put(Incref(heap, c), d, k, c)
    /\ UNCHANGED <<json, iter, body, sent, parsed, drop, copy, job>>

\* The child of d at k: push_back of an array, ObjInsert or IntMapInsert of a map.
DeepCopy(d, k) ==
    /\ Copying
    /\ k \in Missing(d)
    /\ \A j \in Missing(d) : k <= j
    /\ \E m \in FreeNodes(heap) :
          LET c == heap.kids[copy.of[d]][k]
              P == Put(Make(heap, m, heap.type[c]), d, k, m)
          IN  /\ heap' = IF heap.type[d] \in Maps THEN Bump(P, d) ELSE P
              /\ copy' = [copy EXCEPT !.of = Set(@, m, c)]
    /\ UNCHANGED <<json, iter, body, sent, parsed, drop, job>>

Begin(op, h) == job' = [NoJob EXCEPT !.op = op, !.h = h]

Native_JsonCopy(h) ==
    /\ Valid(h)
    /\ StartCopy(json[h])
    /\ Begin("Copy", h)
    /\ UNCHANGED <<json, iter, body, sent, parsed, drop>>

ReturnCopy ==
    /\ job.op = "Copy"
    /\ Copied
    /\ NewHandle(copy.root)
    /\ copy' = NoCopy
    /\ job' = NoJob
    /\ UNCHANGED <<heap, iter, body, sent, parsed>>

\* The loop of ObjMerge, IntMapMerge and ArrExtend over the source's keys. The job
\* ends with the last one; an empty source is none.
BeginLoop(op, h, o, overwrite) ==
    /\ Valid(h) /\ Valid(o)
    /\ json[h] # json[o]
    /\ DOMAIN heap.kids[json[o]] # {}
    /\ job' = [op |-> op, h |-> h, o |-> o, todo |-> DOMAIN heap.kids[json[o]],
               overwrite |-> overwrite]
    /\ UNCHANGED <<heap, json, iter, body, sent, parsed, drop, copy>>

\* Assumed of callers: nothing is merged into a container that the source holds,
\* nor, as iterator.inc says, into one under iteration (Merge leaves the version).
MapMerge(h, o, t, overwrite) ==
    /\ OfType(h, t) /\ OfType(o, t)
    /\ json[h] # iter.node
    /\ json[h] \notin Below(heap, {json[o]})
    /\ BeginLoop("Merge", h, o, overwrite)

Native_JsonObjectMerge(h, o, overwrite) == MapMerge(h, o, "Object", overwrite)
Native_IntMapMerge(h, o, overwrite) == MapMerge(h, o, "IntMap", overwrite)

Native_JsonArrayExtend(h, o) ==
    /\ OfType(h, "Array") /\ OfType(o, "Array")
    /\ Length(heap.kids[json[h]]) + Length(heap.kids[json[o]]) <= MaxLength
    /\ BeginLoop("Extend", h, o, FALSE)

Target == json[job.h]
Source == json[job.o]

AtKey(k) ==
    /\ k \in job.todo
    /\ \A j \in job.todo : k <= j
    /\ drop["game"] = Nothing

KeyDone(k) == job' = IF job.todo = {k} THEN NoJob ELSE [job EXCEPT !.todo = @ \ {k}]

\* A key that is there is kept, or its value released before the copy is made.
MergeKeep(k) ==
    /\ AtKey(k) /\ job.op = "Merge" /\ copy = NoCopy
    /\ k \in DOMAIN heap.kids[Target]
    /\ ~job.overwrite
    /\ KeyDone(k)
    /\ UNCHANGED <<heap, json, iter, body, sent, parsed, drop, copy>>

MergeRelease(k) ==
    /\ AtKey(k) /\ job.op = "Merge" /\ copy = NoCopy
    /\ k \in DOMAIN heap.kids[Target]
    /\ job.overwrite
    /\ heap' = SetKids(heap, Target, Delete(heap.kids[Target], k))
    /\ Release("game", One(heap.kids[Target][k]))
    /\ UNCHANGED <<json, iter, body, sent, parsed, copy, job>>

CopyNext(k) ==
    /\ AtKey(k) /\ copy = NoCopy
    /\ job.op = "Merge" => k \notin DOMAIN heap.kids[Target]
    /\ StartCopy(heap.kids[Source][k])
    /\ UNCHANGED <<json, iter, body, sent, parsed, drop, job>>

Store(k) ==
    /\ AtKey(k)
    /\ Copied
    /\ \/ job.op = "Merge" /\ heap' = Put(heap, Target, k, copy.root)
       \/ /\ job.op = "Extend"
          /\ Length(heap.kids[Target]) < MaxLength
          /\ heap' = Append2(heap, Target, copy.root)
    /\ copy' = NoCopy
    /\ KeyDone(k)
    /\ UNCHANGED <<json, iter, body, sent, parsed, drop>>

-----------------------------------------------------------------------------
(* Iterators. The saved map iterator is the set of keys still to come; it  *)
(* is only good while the container has the keys it had at creation, which *)
(* the ghost field keys remembers. The 24-bit version is only compared     *)
(* with the iterator's copy, so the model keeps whether they differ; that  *)
(* is exact while a container changes fewer than 2^24 times in one         *)
(* iteration.                                                              *)

Native_IterCreate(h) ==
    /\ Valid(h)
    /\ heap.type[json[h]] \in Maps
    /\ iter = NoIter
    /\ heap' = Incref(heap, json[h])
    /\ IF FreeHandles = {}
       THEN Release("game", One(json[h])) /\ UNCHANGED iter
       ELSE /\ iter' = [slot |-> CHOOSE g \in FreeHandles : TRUE, node |-> json[h],
                        todo |-> DOMAIN heap.kids[json[h]],
                        keys |-> DOMAIN heap.kids[json[h]], value |-> None]
            /\ UNCHANGED drop
    /\ UNCHANGED <<json, body, sent, parsed, copy, job>>

Advances == iter.node # None /\ ~heap.moved

Native_IterNext(k) ==
    /\ Advances
    /\ k \in iter.todo
    /\ iter' = [iter EXCEPT !.todo = @ \ {k}, !.value = heap.kids[iter.node][k]]
    /\ UNCHANGED <<heap, json, body, sent, parsed, drop, copy, job>>

\* The value is read where Next left it, before the container changes: value_ is
\* a plain pointer that no count protects, so that plugins do so is assumed.
Native_IterGetObject ==
    /\ Advances
    /\ iter.value # None
    /\ heap.type[iter.value] \in Containers
    /\ WrapChildNode(iter.value)
    /\ Others

Native_IterClose ==
    /\ iter # NoIter
    /\ heap' = [heap EXCEPT !.moved = FALSE]
    /\ iter' = NoIter
    /\ Release("game", One(iter.node))
    /\ UNCHANGED <<json, body, sent, parsed, copy, job>>

-----------------------------------------------------------------------------
(* The thread border. Bound: the event thread has one tree and delivers    *)
(* one at a time. When requests and operations cross is HttpLifecycle's    *)
(* and WsConnection's subject.                                             *)

CopyNodeForSend(n) == StartCopy(n)

\* SetBodyJSON and SetBodyMsgPack, WsSendJson and WsSendMsgPack copy the tree.
SendNode(h, op) ==
    /\ Valid(h)
    /\ CopyNodeForSend(json[h])
    /\ Begin(op, h)
    /\ UNCHANGED <<json, iter, body, sent, parsed, drop>>

\* Variant: the tree is sent as it is.
WsSendNodeShares(h) ==
    /\ Valid(h)
    /\ sent = None
    /\ sent' = json[h]
    /\ heap' = Incref(heap, json[h])
    /\ FreeHandle(h, Nothing)
    /\ UNCHANGED <<iter, body, parsed, copy, job>>

Native_SetBodyJSON(h) == SendNode(h, "Body")
WsSendNode(h) == SendNode(h, "Send")

\* A request in flight and a closed socket only lose the handle.
SendRefused(h) == Valid(h) /\ FreeHandle(h, Nothing) /\ UNCHANGED heap /\ Others

SetBodyNode ==
    /\ job.op = "Body"
    /\ Copied
    /\ body' = copy.root
    /\ FreeHandle(job.h, One(body))
    /\ copy' = NoCopy
    /\ job' = NoJob
    /\ UNCHANGED <<heap, iter, sent, parsed>>

EnqueueWsOp ==
    /\ job.op = "Send"
    /\ Copied
    /\ sent = None
    /\ sent' = copy.root
    /\ FreeHandle(job.h, Nothing)
    /\ copy' = NoCopy
    /\ job' = NoJob
    /\ UNCHANGED <<heap, iter, body, parsed>>

\* SetBody and SetBodyString replace the tree by text; ~HttpRequest releases it.
DropBody ==
    /\ body # None
    /\ Release("game", One(body))
    /\ body' = None
    /\ UNCHANGED <<heap, json, iter, sent, parsed, copy, job>>

Native_HttpExecute ==
    /\ body # None /\ sent = None
    /\ sent' = body
    /\ body' = None
    /\ UNCHANGED <<heap, json, iter, parsed, drop, copy, job>>

\* SetupCurl and ProcessWsSend serialise the tree and release it.
SetupCurl ==
    /\ sent # None
    /\ Release("event", One(sent))
    /\ sent' = None
    /\ UNCHANGED <<heap, json, iter, body, parsed, copy, job>>

\* A response or a WebSocket message is parsed on the event thread.
ParseOnEventThread ==
    /\ parsed = None
    /\ \E r \in FreeNodes(heap) : \E f \in Parses(heap, r) :
          heap' = Parsed(heap, r, f) /\ parsed' = r
    /\ UNCHANGED <<json, iter, body, sent, drop, copy, job>>

\* The callback takes it as a handle; ~HttpRequest or ~SocketEvent releases it
\* when the request was closed or there is no function to call.
Deliver(callback) ==
    /\ parsed # None
    /\ IF callback
       THEN NewHandle(parsed)
       ELSE Release("game", One(parsed)) /\ UNCHANGED json
    /\ parsed' = None
    /\ UNCHANGED <<heap, iter, body, sent, copy, job>>

-----------------------------------------------------------------------------
Natives ==
    \/ \E t \in Containers : Native_JsonCreate(t)
    \/ Native_JsonParseString
    \/ \E h, o \in Handle, overwrite \in BOOLEAN :
          \/ Native_JsonObjectMerge(h, o, overwrite)
          \/ Native_IntMapMerge(h, o, overwrite)
    \/ \E h, o \in Handle : Native_JsonArrayExtend(h, o) \/ Native_JsonArrayAppendObject(h, o)
    \/ \E h, c \in Handle, k \in Key :
          Native_JsonSetObject(h, k, c) \/ Native_IntMapSetObject(h, k, c)
    \/ \E h, c \in Handle, i \in Index : Native_JsonArraySetObject(h, i, c)
    \/ \E h \in Handle, k \in Key :
          \/ Native_JsonGet(h, k) \/ Native_IntMapGet(h, k)
          \/ Native_JsonSet(h, k) \/ Native_IntMapSet(h, k)
          \/ Native_JsonRemoveKey(h, k) \/ Native_IntMapRemoveKey(h, k)
    \/ \E h \in Handle, i \in Index :
          Native_JsonArrayGet(h, i) \/ Native_JsonArraySet(h, i) \/ Native_JsonArrayRemove(h, i)
    \/ \E h \in Handle :
          \/ Native_JsonClose(h) \/ Native_JsonRef(h) \/ Native_JsonCopy(h)
          \/ Native_JsonPathGet(h)
          \/ Native_JsonArrayAppend(h) \/ Native_JsonObjectClear(h)
          \/ Native_IntMapClear(h) \/ Native_JsonArrayClear(h)
          \/ Native_IterCreate(h)
          \/ Native_SetBodyJSON(h) \/ WsSendNode(h) \/ SendRefused(h)
    \/ \E k \in Key : Native_IterNext(k)
    \/ Native_IterGetObject \/ Native_IterClose
    \/ DropBody \/ Native_HttpExecute
    \/ \E b \in BOOLEAN : Deliver(b)

\* Natives and callbacks run one after the other.
GameThread ==
    \/ drop["game"] = Nothing /\ job = NoJob /\ Natives
    \/ \E d \in DOMAIN copy.of, k \in Slot : DeepCopy(d, k)
    \/ \E k \in Slot : MergeKeep(k) \/ MergeRelease(k) \/ CopyNext(k) \/ Store(k)
    \/ ReturnCopy \/ SetBodyNode \/ EnqueueWsOp
    \/ \E n \in Node : Decref("game", n)

EventThread ==
    \/ drop["event"] = Nothing /\ (SetupCurl \/ ParseOnEventThread)
    \/ \E n \in Node : Decref("event", n)

Next == GameThread \/ EventThread

Spec == Init /\ [][Next]_vars

-----------------------------------------------------------------------------
(* Properties.                                                             *)

KidMaps == UNION {[S -> Node] : S \in SUBSET Slot}

\* Keys of a map, indices 1..length of an array, nothing below a scalar.
WellFormed(t, S) ==
    /\ t \in Maps => S \subseteq Key
    /\ t = "Array" => \E l \in 0..MaxLength : S = 1..l
    /\ t \in {"Int", "Free"} => S = {}

HeapType(H) ==
    /\ H \in [type : [Node -> Containers \cup {"Int", "Free"}], ref : [Node -> Nat],
              kids : [Node -> KidMaps], moved : BOOLEAN]
    /\ \A n \in Node : WellFormed(H.type[n], DOMAIN H.kids[n])

TypeOK ==
    /\ HeapType(heap)
    /\ json \in [Handle -> Node \cup {None}]
    /\ iter \in [slot : Handle \cup {None}, node : Node \cup {None}, todo : SUBSET Key,
                 keys : SUBSET Key, value : Node \cup {None}]
    /\ {body, sent, parsed} \subseteq Node \cup {None}
    /\ drop \in [Thread -> [Node -> Nat]]
    /\ copy \in [root : Node \cup {None}, of : UNION {[S -> Node] : S \in SUBSET Node}]
    /\ job \in [op : {"None", "Copy", "Body", "Send", "Merge", "Extend"},
                h : Handle \cup {None}, o : Handle \cup {None}, todo : SUBSET Slot,
                overwrite : BOOLEAN]

Links(H, n) ==
    {p \in Node \X Slot : p[2] \in DOMAIN H.kids[p[1]] /\ H.kids[p[1]][p[2]] = n}

\* Everything that holds a reference to n but containers: handles, the iterator,
\* requests, operations, events, and code that is about to release it.
Held(n) ==
    Refs(json)[n] + One(iter.node)[n] + One(body)[n] + One(sent)[n] + One(parsed)[n]
    + One(copy.root)[n] + drop["game"][n] + drop["event"][n]

(* A node's count is the number of containers, handles, iterators, requests,
   operations and events that hold it, and a block is free exactly when none
   does: nothing that is held was freed, and nothing freed twice or never,
   whatever sequence of natives shared, replaced or consumed it, and between
   any two calls of Decref of either thread. *)
RefcountExact ==
    \A n \in Node :
        /\ heap.ref[n] = Cardinality(Links(heap, n)) + Held(n)
        /\ heap.type[n] = "Free" <=> heap.ref[n] = 0

(* No container is below itself: else counts would never fall to zero and
   DeepCopy would not return. *)
NoCycle(H) ==
    \A S \in SUBSET Node : S # {} => \E n \in S : Kids(H, n) \cap S = {}

(* The heap is well formed (no array has a hole, no scalar a child, no tree a
   cycle) and counted exactly, through every mutator of data_node.cpp and every
   native. *)
HeapInv == TypeOK /\ RefcountExact /\ NoCycle(heap)

Pending(t) == {n \in Node : drop[t][n] > 0}
GameRoots ==
    ({json[h] : h \in Handle} \cup {iter.node, body, copy.root} \cup Pending("game")) \ {None}
EventRoots == ({sent, parsed} \cup Pending("event")) \ {None}

(* No node is reachable both from what the event thread owns, or is releasing,
   and from what plugins can still reach: only the counts are atomic, so this is
   what keeps the threads off each other's containers (data_handle.h,
   CopyNodeForSend). *)
ThreadExclusive == Below(heap, GameRoots) \cap Below(heap, EventRoots) = {}

(* While the version says that an iterator is good, the container has the
   keys it had when the map iterator was taken, so that Next stays inside it,
   and the value that Next left is still a child of it. *)
IterFresh ==
    Advances => /\ DOMAIN heap.kids[iter.node] = iter.keys
                /\ iter.value # None => iter.value \in Kids(heap, iter.node)

\* DataNode::Equals: the same type and keys all the way down.
Equals(H, a, b) ==
    \E R \in SUBSET (Below(H, {a}) \X Below(H, {b})) :
        /\ <<a, b>> \in R
        /\ \A p \in R :
              /\ H.type[p[1]] = H.type[p[2]]
              /\ DOMAIN H.kids[p[1]] = DOMAIN H.kids[p[2]]
              /\ \A k \in DOMAIN H.kids[p[1]] : <<H.kids[p[1]][k], H.kids[p[2]][k]>> \in R

(* A deep copy of any tree that is reachable, with whatever sharing it has,
   equals it (JsonEquals) when it is complete, and is made of new nodes only:
   nothing else holds any of them. *)
CopyFaithful ==
    Copied =>
        /\ Equals(heap, copy.root, copy.of[copy.root])
        /\ Below(heap, {copy.root}) = DOMAIN copy.of
        /\ \A n \in Node \ DOMAIN copy.of : Kids(heap, n) \cap DOMAIN copy.of = {}
        /\ \A n \in DOMAIN copy.of : heap.ref[n] = 1

=============================================================================
