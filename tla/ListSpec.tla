------------------------------- MODULE ListSpec -------------------------------
(***************************************************************************)
(* What a LinkedList promises its plugin: a sequence of values, each with  *)
(* an id that no other element has and that stays with it while it moves.  *)
(***************************************************************************)
EXTENDS Integers, Sequences

CONSTANTS Ids, Value

VARIABLES
    list,   \* the elements, [id, value]
    out     \* the last call: the native, the id it was given, its result

IdsIn(l) == {l[i].id : i \in DOMAIN l}
At(id) == CHOOSE i \in DOMAIN list : list[i].id = id
Has(id) == id \in IdsIn(list)
Without(i) == SubSeq(list, 1, i - 1) \o SubSeq(list, i + 1, Len(list))
IdAt(i) == IF i \in DOMAIN list THEN list[i].id ELSE 0

Call(op, id, x) == out' = [op |-> op, id |-> id, ret |-> x]

Init == list = <<>> /\ out = [op |-> "Create", id |-> 0, ret |-> 0]

PushFront ==
    \E id \in Ids \ IdsIn(list), v \in Value :
        Call("PushFront", 0, id) /\ list' = <<[id |-> id, value |-> v]>> \o list
PushBack ==
    \E id \in Ids \ IdsIn(list), v \in Value :
        Call("PushBack", 0, id) /\ list' = Append(list, [id |-> id, value |-> v])

\* The i-th element is taken out and its value returned
Take(op, id, i) ==
    IF i \in DOMAIN list
    THEN Call(op, id, list[i].value) /\ list' = Without(i)
    ELSE Call(op, id, 0) /\ UNCHANGED list

PopFront == Take("PopFront", 0, 1)
PopBack == Take("PopBack", 0, Len(list))
Remove(id) == Take("Remove", id, IF Has(id) THEN At(id) ELSE 0)

MoveToFront(id) ==
    /\ Call("MoveToFront", id, 0)
    /\ list' = IF Has(id) THEN <<list[At(id)]>> \o Without(At(id)) ELSE list
MoveToBack(id) ==
    /\ Call("MoveToBack", id, 0)
    /\ list' = IF Has(id) THEN Append(Without(At(id)), list[At(id)]) ELSE list

SetValue(id) ==
    /\ Call("SetValue", id, 0)
    /\ IF Has(id)
       THEN \E v \in Value : list' = [list EXCEPT ![At(id)].value = v]
       ELSE UNCHANGED list

GetValue(id) ==
    Call("GetValue", id, IF Has(id) THEN list[At(id)].value ELSE 0) /\ UNCHANGED list
First == Call("First", 0, IdAt(1)) /\ UNCHANGED list
Last == Call("Last", 0, IdAt(Len(list))) /\ UNCHANGED list
NextOf(id) == Call("Next", id, IF Has(id) THEN IdAt(At(id) + 1) ELSE 0) /\ UNCHANGED list
PrevOf(id) == Call("Prev", id, IF Has(id) THEN IdAt(At(id) - 1) ELSE 0) /\ UNCHANGED list
Size == Call("Size", 0, Len(list)) /\ UNCHANGED list

Clear == Call("Clear", 0, 0) /\ list' = <<>>

\* The same values in the same order, with ids of the new list
Copy ==
    /\ Call("Copy", 0, 0)
    /\ Len(list') = Len(list)
    /\ \A i \in DOMAIN list : list'[i].value = list[i].value /\ list'[i].id \in Ids
    /\ \A i, j \in DOMAIN list' : list'[i].id = list'[j].id => i = j

Next ==
    \/ PushFront \/ PushBack \/ PopFront \/ PopBack \/ First \/ Last \/ Size \/ Clear \/ Copy
    \/ \E id \in Ids : \/ Remove(id) \/ MoveToFront(id) \/ MoveToBack(id)
                       \/ GetValue(id) \/ SetValue(id) \/ NextOf(id) \/ PrevOf(id)

Spec == Init /\ [][Next]_<<list, out>>
=============================================================================
