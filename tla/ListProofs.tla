----------------------------- MODULE ListProofs -----------------------------
(***************************************************************************)
(* Proofs about LinkedList, for every set of addresses, values and ids.    *)
(*                                                                         *)
(* Sound(w, n) says that w[1] .. w[n] are the nodes in memory, each once,  *)
(* that prev and next link the sentinel and them in this order, and that   *)
(* map and ids are as they should be.  InsertLinked and UnlinkLinked say   *)
(* what InsertBefore and Unlink make of w; the ...Sound lemmas say it of   *)
(* every call, and the ...Refines lemmas that the call is one of ListSpec. *)
(* The walk along next is w because two walks that differ have a first     *)
(* place where they do (WalkUnique).                                       *)
(***************************************************************************)
EXTENDS LinkedList, FiniteSetTheorems, FunctionTheorems, SequenceTheorems,
        WellFoundedInduction, TLAPS

Rings == [prev : [Cell -> Cell], next : [Cell -> Cell]]

\* w[1] .. w[n] are all of M, and each is there once
Lists(w, n, M) ==
    /\ n \in Nat /\ w \in [1 .. n -> M]
    /\ \A i, j \in 1 .. n : w[i] = w[j] => i = j
    /\ \A c \in M : \E i \in 1 .. n : w[i] = c

\* The pointers p link the sentinel and the nodes w[1] .. w[n], which are all of M, in
\* both directions
Linked(p, w, n, M) ==
    /\ Lists(w, n, M)
    /\ \A i \in 0 .. n : /\ p.next[CellAt(w, i)] = CellAt(w, i + 1)
                         /\ p.prev[CellAt(w, i + 1)] = CellAt(w, i)

LinkedInv == \E n, w : Linked(ptr, w, n, mem)

-----------------------------------------------------------------------------
(* Rings                                                                   *)

\* The cells of the ring: each node once, and the sentinel at both ends
Cells(w, n, M) ==
    /\ n \in Nat
    /\ CellAt(w, 0) = Sentinel /\ CellAt(w, n + 1) = Sentinel
    /\ \A i \in 1 .. n : CellAt(w, i) = w[i] /\ w[i] \in M /\ w[i] # Sentinel
    /\ \A i \in 0 .. n + 1 : CellAt(w, i) \in M \cup {Sentinel} /\ CellAt(w, i) \in Cell
    /\ \A i, j \in 0 .. n : CellAt(w, i) = CellAt(w, j) => i = j
    /\ \A i, j \in 1 .. n + 1 : CellAt(w, i) = CellAt(w, j) => i = j

LEMMA CellFacts ==
    ASSUME NEW M, M \subseteq Addr, NEW n, NEW w, Lists(w, n, M) PROVE Cells(w, n, M)
<1>1. /\ n \in Nat /\ w \in [1 .. n -> M] /\ DOMAIN w = 1 .. n /\ Sentinel \notin M
      /\ \A i, j \in 1 .. n : w[i] = w[j] => i = j
  BY ListAssumption DEF ListAssumption, Lists
<1>2. CellAt(w, 0) = Sentinel /\ CellAt(w, n + 1) = Sentinel
  BY <1>1 DEF CellAt
<1>3. \A i \in 1 .. n : CellAt(w, i) = w[i] /\ w[i] \in M /\ w[i] # Sentinel
  BY <1>1 DEF CellAt
<1>4. \A i \in 0 .. n + 1 : i = 0 \/ i = n + 1 \/ i \in 1 .. n
  BY <1>1
<1>5. \A i \in 0 .. n + 1 : CellAt(w, i) \in M \cup {Sentinel} /\ CellAt(w, i) \in Cell
  BY <1>2, <1>3, <1>4 DEF Cell
<1>6. \A i \in 0 .. n : i = 0 \/ i \in 1 .. n
  BY <1>1
<1>7. \A i \in 1 .. n + 1 : i = n + 1 \/ i \in 1 .. n
  BY <1>1
<1>8. ASSUME NEW i \in 0 .. n, NEW j \in 0 .. n, CellAt(w, i) = CellAt(w, j) PROVE i = j
  BY <1>1, <1>2, <1>3, <1>6, <1>8
<1>9. ASSUME NEW i \in 1 .. n + 1, NEW j \in 1 .. n + 1, CellAt(w, i) = CellAt(w, j) PROVE i = j
  BY <1>1, <1>2, <1>3, <1>7, <1>9
<1> QED
  BY <1>1, <1>2, <1>3, <1>5, <1>8, <1>9 DEF Cells

\* The sequence with a inserted after its first k elements, and without its k-th
Inserted(w, n, k, a) ==
    [i \in 1 .. n + 1 |-> IF i <= k THEN w[i] ELSE IF i = k + 1 THEN a ELSE w[i - 1]]
Removed(w, n, k) == [i \in 1 .. n - 1 |-> IF i < k THEN w[i] ELSE w[i + 1]]

LEMMA InsertedFacts ==
    ASSUME NEW M, NEW n, NEW w, Lists(w, n, M), NEW k \in 0 .. n, NEW a, a \notin M
    PROVE  Lists(Inserted(w, n, k, a), n + 1, M \cup {a})
<1> DEFINE v == Inserted(w, n, k, a)
<1>0. /\ n \in Nat /\ w \in [1 .. n -> M]
      /\ \A i, j \in 1 .. n : w[i] = w[j] => i = j
      /\ \A c \in M : \E i \in 1 .. n : w[i] = c
  BY DEF Lists
<1> USE <1>0
<1>1. \A i \in 1 .. n + 1 : \/ i <= k /\ i \in 1 .. n /\ v[i] = w[i]
                            \/ i = k + 1 /\ v[i] = a
                            \/ i > k + 1 /\ i - 1 \in 1 .. n /\ v[i] = w[i - 1]
  BY DEF Inserted
<1>2. v \in [1 .. n + 1 -> M \cup {a}]
  <2>1. \A i \in 1 .. n + 1 : v[i] \in M \cup {a}
    BY <1>1
  <2> QED
    BY <2>1 DEF Inserted
<1>3. \A i \in 1 .. n + 1 : v[i] = a <=> i = k + 1
  BY <1>1
<1>4. ASSUME NEW i \in 1 .. n + 1, NEW j \in 1 .. n + 1, v[i] = v[j] PROVE i = j
  <2>1. CASE i = k + 1 \/ j = k + 1
    BY <1>3, <1>4, <2>1
  <2>2. CASE i <= k /\ j <= k
    BY <1>1, <1>4, <2>2
  <2>3. CASE i <= k /\ j > k + 1
    <3>1. i \in 1 .. n /\ j - 1 \in 1 .. n /\ w[i] = w[j - 1]
      BY <1>1, <1>4, <2>3
    <3>2. i = j - 1
      BY <3>1
    <3> QED
      BY <2>3, <3>2
  <2>4. CASE i > k + 1 /\ j <= k
    <3>1. j \in 1 .. n /\ i - 1 \in 1 .. n /\ w[j] = w[i - 1]
      BY <1>1, <1>4, <2>4
    <3>2. j = i - 1
      BY <3>1
    <3> QED
      BY <2>4, <3>2
  <2>5. CASE i > k + 1 /\ j > k + 1
    <3>1. j - 1 \in 1 .. n /\ i - 1 \in 1 .. n /\ w[j - 1] = w[i - 1]
      BY <1>1, <1>4, <2>5
    <3>2. j - 1 = i - 1
      BY <3>1
    <3> QED
      BY <3>2
  <2> QED
    BY <2>1, <2>2, <2>3, <2>4, <2>5
<1>5. ASSUME NEW c \in M PROVE \E i \in 1 .. n + 1 : v[i] = c
  <2>1. PICK i \in 1 .. n : w[i] = c
    OBVIOUS
  <2>2. CASE i <= k
    <3>1. i \in 1 .. n + 1 /\ v[i] = w[i]
      BY <2>2 DEF Inserted
    <3> QED
      BY <2>1, <3>1
  <2>3. CASE i > k
    <3>1. i + 1 \in 1 .. n + 1 /\ v[i + 1] = w[i]
      BY <2>3 DEF Inserted
    <3> QED
      BY <2>1, <3>1
  <2> QED
    BY <2>2, <2>3
<1>6. n + 1 \in Nat /\ k + 1 \in 1 .. n + 1 /\ v[k + 1] = a
  BY <1>3
<1> HIDE DEF v
<1>7. \A c \in M \cup {a} : \E i \in 1 .. n + 1 : v[i] = c
  BY <1>5, <1>6
<1> HIDE <1>0
<1>8. Lists(v, n + 1, M \cup {a})
  BY <1>2, <1>4, <1>6, <1>7 DEF Lists
<1> QED
  BY <1>8 DEF v

LEMMA RemovedFacts ==
    ASSUME NEW M, NEW n, NEW w, Lists(w, n, M), NEW k \in 1 .. n
    PROVE  Lists(Removed(w, n, k), n - 1, M \ {w[k]})
<1>0. /\ n \in Nat /\ w \in [1 .. n -> M]
      /\ \A i, j \in 1 .. n : w[i] = w[j] => i = j
      /\ \A c \in M : \E i \in 1 .. n : w[i] = c
  BY DEF Lists
<1> USE <1>0
<1> DEFINE v == Removed(w, n, k)
           at(i) == IF i < k THEN i ELSE i + 1
<1>1. \A i \in 1 .. n - 1 : at(i) \in 1 .. n /\ at(i) # k /\ v[i] = w[at(i)]
  BY DEF Removed
<1>2. \A i, j \in 1 .. n - 1 : at(i) = at(j) => i = j
  OBVIOUS
<1>3. \A j \in 1 .. n : j # k => \E i \in 1 .. n - 1 : at(i) = j
  <2> SUFFICES ASSUME NEW j \in 1 .. n, j # k PROVE \E i \in 1 .. n - 1 : at(i) = j
    OBVIOUS
  <2>1. CASE j < k
    <3>1. j \in 1 .. n - 1 /\ at(j) = j
      BY <2>1
    <3> QED
      BY <3>1
  <2>2. CASE j > k
    <3>1. j - 1 \in 1 .. n - 1 /\ at(j - 1) = j
      BY <2>2
    <3> QED
      BY <3>1
  <2> QED
    BY <2>1, <2>2
<1> HIDE DEF at
<1>4. v \in [1 .. n - 1 -> M \ {w[k]}]
  <2>1. \A i \in 1 .. n - 1 : v[i] \in M \ {w[k]}
    BY <1>1
  <2> QED
    BY <2>1 DEF Removed
<1>5. ASSUME NEW i \in 1 .. n - 1, NEW j \in 1 .. n - 1, v[i] = v[j] PROVE i = j
  BY <1>1, <1>2, <1>5
<1>6. ASSUME NEW c \in M \ {w[k]} PROVE \E i \in 1 .. n - 1 : v[i] = c
  <2>1. PICK j \in 1 .. n : w[j] = c
    OBVIOUS
  <2>2. PICK i \in 1 .. n - 1 : at(i) = j
    BY <1>3, <2>1
  <2> QED
    BY <1>1, <2>1, <2>2
<1> QED
  BY <1>4, <1>5, <1>6 DEF Lists

LEMMA InsertLinked ==
    ASSUME NEW p \in Rings, NEW M, M \subseteq Addr, NEW n, NEW w, Linked(p, w, n, M),
           NEW k \in 0 .. n, NEW a \in Addr \ M
    PROVE  LET q == InsertBefore(p, CellAt(w, k + 1), a)
           IN q \in Rings /\ Linked(q, Inserted(w, n, k, a), n + 1, M \cup {a})
<1> DEFINE pos == CellAt(w, k + 1)
           bef == CellAt(w, k)
           q == InsertBefore(p, pos, a)
           v == Inserted(w, n, k, a)
           N == M \cup {a}
<1>1. /\ Lists(w, n, M)
      /\ \A i \in 0 .. n : /\ p.next[CellAt(w, i)] = CellAt(w, i + 1)
                           /\ p.prev[CellAt(w, i + 1)] = CellAt(w, i)
  BY DEF Linked
<1>2. Lists(v, n + 1, N) /\ N \subseteq Addr
  BY <1>1, InsertedFacts
<1>3. /\ n \in Nat
      /\ CellAt(w, 0) = Sentinel /\ CellAt(w, n + 1) = Sentinel
      /\ \A i \in 1 .. n : CellAt(w, i) = w[i]
      /\ \A i \in 0 .. n + 1 : CellAt(w, i) \in M \cup {Sentinel} /\ CellAt(w, i) \in Cell
      /\ \A i, j \in 0 .. n : CellAt(w, i) = CellAt(w, j) => i = j
      /\ \A i, j \in 1 .. n + 1 : CellAt(w, i) = CellAt(w, j) => i = j
  <2>1. Cells(w, n, M)
    BY <1>1, CellFacts
  <2> QED
    BY <2>1 DEF Cells
<1>4. /\ CellAt(v, 0) = Sentinel /\ CellAt(v, n + 2) = Sentinel
      /\ \A i \in 1 .. n + 1 : CellAt(v, i) = v[i]
  <2> HIDE DEF v, N
  <2>1. Cells(v, n + 1, N)
    BY <1>2, CellFacts
  <2> QED
    BY <1>3, <2>1 DEF Cells
<1>5. \A i \in 1 .. n + 1 : /\ i <= k => v[i] = w[i]
                            /\ i = k + 1 => v[i] = a
                            /\ i > k + 1 => v[i] = w[i - 1]
  BY <1>3 DEF Inserted
<1> HIDE DEF v
<1>0. n \in Nat
  BY <1>3
<1> USE <1>0
<1>6. \A i \in 0 .. k : CellAt(v, i) = CellAt(w, i)
  <2> SUFFICES ASSUME NEW i \in 0 .. k PROVE CellAt(v, i) = CellAt(w, i)
    OBVIOUS
  <2>1. CASE i = 0
    BY <1>3, <1>4, <2>1
  <2>2. CASE i # 0
    <3>1. i \in 1 .. n /\ i \in 1 .. n + 1 /\ i <= k
      BY <2>2
    <3> QED
      BY <1>3, <1>4, <1>5, <3>1
  <2> QED
    BY <2>1, <2>2
<1>7. CellAt(v, k + 1) = a
  <2>1. k + 1 \in 1 .. n + 1
    OBVIOUS
  <2> QED
    BY <1>4, <1>5, <2>1
<1>8. \A i \in k + 1 .. n + 1 : CellAt(v, i + 1) = CellAt(w, i)
  <2> SUFFICES ASSUME NEW i \in k + 1 .. n + 1 PROVE CellAt(v, i + 1) = CellAt(w, i)
    OBVIOUS
  <2>1. CASE i = n + 1
    <3>1. i + 1 = n + 2
      BY <2>1
    <3> QED
      BY <1>3, <1>4, <2>1, <3>1
  <2>2. CASE i # n + 1
    <3>1. i \in 1 .. n /\ i + 1 \in 1 .. n + 1 /\ i + 1 > k + 1 /\ (i + 1) - 1 = i
      BY <2>2
    <3> QED
      BY <1>3, <1>4, <1>5, <3>1
  <2> QED
    BY <2>1, <2>2
<1>9. /\ pos \in Cell /\ bef \in Cell /\ a \in Cell /\ a # pos /\ a # bef /\ p.prev[pos] = bef
      /\ p.next[bef] = pos
  <2>1. k \in 0 .. n + 1 /\ k + 1 \in 0 .. n + 1
    OBVIOUS
  <2>2. a # Sentinel /\ a \in Cell
    BY ListAssumption DEF ListAssumption, Cell
  <2> QED
    BY <1>1, <1>3, <2>1, <2>2
<1> HIDE DEF pos, bef
<1>10. /\ q \in Rings
       /\ q.next[a] = pos /\ q.next[bef] = a /\ \A c \in Cell \ {a, bef} : q.next[c] = p.next[c]
       /\ q.prev[a] = bef /\ q.prev[pos] = a /\ \A c \in Cell \ {a, pos} : q.prev[c] = p.prev[c]
  <2>1. p.next \in [Cell -> Cell] /\ p.prev \in [Cell -> Cell]
    BY DEF Rings
  <2>2. /\ q.next = [p.next EXCEPT ![a] = pos, ![bef] = a]
        /\ q.prev = [p.prev EXCEPT ![a] = bef, ![pos] = a]
    BY <1>9 DEF InsertBefore
  <2>3. q.next \in [Cell -> Cell] /\ q.prev \in [Cell -> Cell]
    BY <1>9, <2>1, <2>2
  <2>4. q = [next |-> q.next, prev |-> q.prev]
    BY DEF InsertBefore
  <2> HIDE DEF q
  <2>5. q \in Rings
    BY <2>3, <2>4 DEF Rings
  <2> QED
    BY <1>9, <2>1, <2>2, <2>5
<1> HIDE DEF q
<1>11. ASSUME NEW i \in 0 .. n + 1
       PROVE  q.next[CellAt(v, i)] = CellAt(v, i + 1) /\ q.prev[CellAt(v, i + 1)] = CellAt(v, i)
  <2>1. CASE i < k
    <3>1. i \in 0 .. k /\ i + 1 \in 0 .. k /\ i \in 0 .. n /\ k \in 0 .. n /\ i # k
          /\ i + 1 \in 1 .. n + 1 /\ k + 1 \in 1 .. n + 1 /\ i + 1 # k + 1
          /\ i \in 0 .. n + 1 /\ i + 1 \in 0 .. n + 1
      BY <2>1
    <3>2. CellAt(v, i) = CellAt(w, i) /\ CellAt(v, i + 1) = CellAt(w, i + 1)
      BY <1>6, <3>1
    <3>3. CellAt(w, i) # bef /\ CellAt(w, i + 1) # pos
      BY <1>3, <3>1 DEF bef, pos
    <3>4. CellAt(w, i) # a /\ CellAt(w, i + 1) # a
      BY <1>3, <3>1, ListAssumption DEF ListAssumption
    <3>5. CellAt(w, i) \in Cell \ {a, bef} /\ CellAt(w, i + 1) \in Cell \ {a, pos}
      BY <1>3, <3>1, <3>3, <3>4
    <3> QED
      BY <1>1, <1>10, <3>1, <3>2, <3>5
  <2>2. CASE i = k
    <3>1. k \in 0 .. k
      OBVIOUS
    <3>2. CellAt(v, i) = bef /\ CellAt(v, i + 1) = a
      BY <1>6, <1>7, <2>2, <3>1 DEF bef
    <3> QED
      BY <1>10, <3>2
  <2>3. CASE i = k + 1
    <3>1. k + 1 \in k + 1 .. n + 1
      OBVIOUS
    <3>2. CellAt(v, i) = a /\ CellAt(v, i + 1) = pos
      BY <1>7, <1>8, <2>3, <3>1 DEF pos
    <3> QED
      BY <1>10, <3>2
  <2>4. CASE i > k + 1
    <3> PICK j \in Nat : i = j + 1
      BY <2>4
    <3>1. j \in k + 1 .. n + 1 /\ j + 1 \in k + 1 .. n + 1 /\ j \in 0 .. n /\ k \in 0 .. n /\ j # k
          /\ j + 1 \in 1 .. n + 1 /\ k + 1 \in 1 .. n + 1 /\ j + 1 # k + 1
          /\ j \in 0 .. n + 1 /\ j + 1 \in 0 .. n + 1
      BY <2>4
    <3>2. CellAt(v, j + 1) = CellAt(w, j) /\ CellAt(v, (j + 1) + 1) = CellAt(w, j + 1)
      BY <1>8, <3>1
    <3>3. CellAt(w, j) # bef /\ CellAt(w, j + 1) # pos
      BY <1>3, <3>1 DEF bef, pos
    <3>4. CellAt(w, j) # a /\ CellAt(w, j + 1) # a
      BY <1>3, <3>1, ListAssumption DEF ListAssumption
    <3>5. CellAt(w, j) \in Cell \ {a, bef} /\ CellAt(w, j + 1) \in Cell \ {a, pos}
      BY <1>3, <3>1, <3>3, <3>4
    <3> QED
      BY <1>1, <1>10, <3>1, <3>2, <3>5
  <2> QED
    BY <2>1, <2>2, <2>3, <2>4
<1> QED
  BY <1>2, <1>10, <1>11 DEF Linked, q, v, pos

LEMMA UnlinkLinked ==
    ASSUME NEW p \in Rings, NEW M, M \subseteq Addr, NEW n, NEW w, Linked(p, w, n, M),
           NEW k \in 1 .. n
    PROVE  LET q == Unlink(p, w[k])
           IN q \in Rings /\ Linked(q, Removed(w, n, k), n - 1, M \ {w[k]})
<1> DEFINE x == w[k]
           aft == CellAt(w, k + 1)
           bef == CellAt(w, k - 1)
           q == Unlink(p, x)
           v == Removed(w, n, k)
           N == M \ {x}
<1>1. /\ Lists(w, n, M)
      /\ \A i \in 0 .. n : /\ p.next[CellAt(w, i)] = CellAt(w, i + 1)
                           /\ p.prev[CellAt(w, i + 1)] = CellAt(w, i)
  BY DEF Linked
<1>2. Lists(v, n - 1, N) /\ N \subseteq Addr
  BY <1>1, RemovedFacts
<1>3. /\ n \in Nat
      /\ CellAt(w, 0) = Sentinel /\ CellAt(w, n + 1) = Sentinel
      /\ \A i \in 1 .. n : CellAt(w, i) = w[i]
      /\ \A i \in 0 .. n + 1 : CellAt(w, i) \in M \cup {Sentinel} /\ CellAt(w, i) \in Cell
      /\ \A i, j \in 0 .. n : CellAt(w, i) = CellAt(w, j) => i = j
      /\ \A i, j \in 1 .. n + 1 : CellAt(w, i) = CellAt(w, j) => i = j
  <2>1. Cells(w, n, M)
    BY <1>1, CellFacts
  <2> QED
    BY <2>1 DEF Cells
<1>4. /\ CellAt(v, 0) = Sentinel /\ CellAt(v, n) = Sentinel
      /\ \A i \in 1 .. n - 1 : CellAt(v, i) = v[i]
  <2> HIDE DEF v, N
  <2>1. Cells(v, n - 1, N)
    BY <1>2, CellFacts
  <2>2. (n - 1) + 1 = n
    BY <1>3
  <2> QED
    BY <2>1, <2>2 DEF Cells
<1>5. \A i \in 1 .. n - 1 : (i < k => v[i] = w[i]) /\ (i >= k => v[i] = w[i + 1])
  BY <1>3 DEF Removed
<1> HIDE DEF v
<1>6. n \in Nat
  BY <1>3
<1> USE <1>6
<1>7. \A i \in 0 .. k - 1 : CellAt(v, i) = CellAt(w, i)
  <2> SUFFICES ASSUME NEW i \in 0 .. k - 1 PROVE CellAt(v, i) = CellAt(w, i)
    OBVIOUS
  <2>1. CASE i = 0
    BY <1>3, <1>4, <2>1
  <2>2. CASE i # 0
    <3>1. i \in 1 .. n /\ i \in 1 .. n - 1 /\ i < k
      BY <2>2
    <3> QED
      BY <1>3, <1>4, <1>5, <3>1
  <2> QED
    BY <2>1, <2>2
<1>8. \A i \in k .. n : CellAt(v, i) = CellAt(w, i + 1)
  <2> SUFFICES ASSUME NEW i \in k .. n PROVE CellAt(v, i) = CellAt(w, i + 1)
    OBVIOUS
  <2>1. CASE i = n
    BY <1>3, <1>4, <2>1
  <2>2. CASE i # n
    <3>1. i + 1 \in 1 .. n /\ i \in 1 .. n - 1 /\ i >= k
      BY <2>2
    <3> QED
      BY <1>3, <1>4, <1>5, <3>1
  <2> QED
    BY <2>1, <2>2
<1>9. /\ aft \in Cell /\ bef \in Cell /\ x \in Cell /\ p.prev[x] = bef /\ p.next[x] = aft
  <2>1. k + 1 \in 0 .. n + 1 /\ k - 1 \in 0 .. n + 1 /\ k \in 0 .. n + 1 /\ k \in 0 .. n
        /\ k - 1 \in 0 .. n /\ (k - 1) + 1 = k
    OBVIOUS
  <2>2. CellAt(w, k) = x
    BY <1>3
  <2> HIDE DEF x
  <2> QED
    BY <1>1, <1>3, <2>1, <2>2
<1> HIDE DEF aft, bef, x
<1>10. /\ q \in Rings
       /\ q.next[bef] = aft /\ \A c \in Cell \ {bef} : q.next[c] = p.next[c]
       /\ q.prev[aft] = bef /\ \A c \in Cell \ {aft} : q.prev[c] = p.prev[c]
  <2>1. p.next \in [Cell -> Cell] /\ p.prev \in [Cell -> Cell]
    BY DEF Rings
  <2>2. /\ q.next = [p.next EXCEPT ![bef] = aft] /\ q.prev = [p.prev EXCEPT ![aft] = bef]
    BY <1>9 DEF Unlink
  <2>3. q.next \in [Cell -> Cell] /\ q.prev \in [Cell -> Cell]
    BY <1>9, <2>1, <2>2
  <2>4. q = [next |-> q.next, prev |-> q.prev]
    BY DEF Unlink
  <2> HIDE DEF q
  <2>5. q \in Rings
    BY <2>3, <2>4 DEF Rings
  <2> QED
    BY <1>9, <2>1, <2>2, <2>5
<1> HIDE DEF q
<1>11. ASSUME NEW i \in 0 .. n - 1
       PROVE  q.next[CellAt(v, i)] = CellAt(v, i + 1) /\ q.prev[CellAt(v, i + 1)] = CellAt(v, i)
  <2>1. CASE i < k - 1
    <3>1. i \in 0 .. k - 1 /\ i + 1 \in 0 .. k - 1 /\ i \in 0 .. n /\ k - 1 \in 0 .. n /\ i # k - 1
          /\ i + 1 \in 1 .. n + 1 /\ k + 1 \in 1 .. n + 1 /\ i + 1 # k + 1
          /\ i \in 0 .. n + 1 /\ i + 1 \in 0 .. n + 1
      BY <2>1
    <3>2. CellAt(v, i) = CellAt(w, i) /\ CellAt(v, i + 1) = CellAt(w, i + 1)
      BY <1>7, <3>1
    <3>3. CellAt(w, i) # bef /\ CellAt(w, i + 1) # aft
      BY <1>3, <3>1 DEF bef, aft
    <3>4. CellAt(w, i) \in Cell \ {bef} /\ CellAt(w, i + 1) \in Cell \ {aft}
      BY <1>3, <3>1, <3>3
    <3> QED
      BY <1>1, <1>10, <3>1, <3>2, <3>4
  <2>2. CASE i = k - 1
    <3>1. k - 1 \in 0 .. k - 1 /\ k \in k .. n /\ i + 1 = k
      BY <2>2
    <3>2. CellAt(v, i) = bef /\ CellAt(v, i + 1) = aft
      BY <1>7, <1>8, <2>2, <3>1 DEF bef, aft
    <3> QED
      BY <1>10, <3>2
  <2>3. CASE i > k - 1
    <3>1. i \in k .. n /\ i + 1 \in k .. n /\ i + 1 \in 0 .. n /\ k - 1 \in 0 .. n /\ i + 1 # k - 1
          /\ (i + 1) + 1 \in 1 .. n + 1 /\ k + 1 \in 1 .. n + 1 /\ (i + 1) + 1 # k + 1
          /\ i + 1 \in 0 .. n + 1 /\ (i + 1) + 1 \in 0 .. n + 1
      BY <2>3
    <3>2. CellAt(v, i) = CellAt(w, i + 1) /\ CellAt(v, i + 1) = CellAt(w, (i + 1) + 1)
      BY <1>8, <3>1
    <3>3. CellAt(w, i + 1) # bef /\ CellAt(w, (i + 1) + 1) # aft
      BY <1>3, <3>1 DEF bef, aft
    <3>4. CellAt(w, i + 1) \in Cell \ {bef} /\ CellAt(w, (i + 1) + 1) \in Cell \ {aft}
      BY <1>3, <3>1, <3>3
    <3> QED
      BY <1>1, <1>10, <3>1, <3>2, <3>4
  <2> QED
    BY <2>1, <2>2, <2>3
<1> QED
  BY <1>2, <1>10, <1>11 DEF Linked, q, v, x

\* The pointers of a deleted node do not matter.
LEMMA ReleasedLinked ==
    ASSUME NEW p \in Rings, NEW M, M \subseteq Addr, NEW n, NEW w, Linked(p, w, n, M),
           NEW a \in Addr \ M
    PROVE  Released(p, a) \in Rings /\ Linked(Released(p, a), w, n, M)
<1> DEFINE q == Released(p, a)
<1>1. Lists(w, n, M)
  BY DEF Linked
<1>2. /\ n \in Nat
      /\ \A i \in 0 .. n + 1 : CellAt(w, i) \in M \cup {Sentinel} /\ CellAt(w, i) \in Cell
  <2>1. Cells(w, n, M)
    BY <1>1, CellFacts
  <2> QED
    BY <2>1 DEF Cells
<1>3. \A i \in 0 .. n + 1 : CellAt(w, i) # a /\ CellAt(w, i) \in Cell
  BY <1>2, ListAssumption DEF ListAssumption
<1>4. p.next \in [Cell -> Cell] /\ p.prev \in [Cell -> Cell]
  BY DEF Rings
<1>5. /\ q \in Rings
      /\ \A c \in Cell \ {a} : q.next[c] = p.next[c] /\ q.prev[c] = p.prev[c]
  BY <1>4 DEF Rings, Released, Cell
<1> HIDE DEF q
<1>6. ASSUME NEW i \in 0 .. n
      PROVE  q.next[CellAt(w, i)] = CellAt(w, i + 1) /\ q.prev[CellAt(w, i + 1)] = CellAt(w, i)
  <2>1. i \in 0 .. n + 1 /\ i + 1 \in 0 .. n + 1
    BY <1>2
  <2>2. p.next[CellAt(w, i)] = CellAt(w, i + 1) /\ p.prev[CellAt(w, i + 1)] = CellAt(w, i)
    BY DEF Linked
  <2> QED
    BY <1>3, <1>5, <2>1, <2>2
<1> QED
  BY <1>1, <1>5, <1>6 DEF Linked, q

-----------------------------------------------------------------------------
(* The walk along next                                                     *)

\* A nonempty set of natural numbers has a least element.
LEMMA Least ==
    ASSUME NEW T, T \subseteq Nat, T # {} PROVE \E m \in T : \A k \in T : m <= k
<1> DEFINE R == {p \in Nat \X Nat : p[1] < p[2]}
<1>1. IsWellFoundedOn(R, Nat)
  BY NatLessThanWellFounded, Zenon DEF OpToRel
<1>2. \A x, y \in Nat : y < x => <<y, x>> \in R
  BY SMT
<1> HIDE DEF R
<1>3. \E x \in T : \A y \in T : ~(<<y, x>> \in R)
  BY <1>1, WFMin, Zenon
<1>4. PICK x \in T : \A y \in T : ~(<<y, x>> \in R)
  BY <1>3, Zenon
<1>5. ASSUME NEW y \in T PROVE x <= y
  <2>1. x \in Nat /\ y \in Nat
    OBVIOUS
  <2>2. ~(y < x)
    BY <1>2, <1>4, <2>1, Zenon
  <2> QED
    BY <2>1, <2>2
<1> QED
  BY <1>5

LEMMA Count ==
    ASSUME NEW M, NEW n, NEW w, Lists(w, n, M)
    PROVE  IsFiniteSet(M) /\ Cardinality(M) = n
<1>0. /\ n \in Nat /\ w \in [1 .. n -> M]
      /\ \A i, j \in 1 .. n : w[i] = w[j] => i = j
      /\ \A c \in M : \E i \in 1 .. n : w[i] = c
  BY DEF Lists
<1>1. w \in Bijection(1 .. n, M)
  BY <1>0, Fun_IsBij
<1>2. ExistsBijection(1 .. n, M)
  BY <1>1 DEF ExistsBijection
<1> QED
  BY <1>0, <1>2, FS_CountingElements, FS_NatBijection

\* Nodes have different ids, so there are at most as many as there are ids.
LEMMA IdsSuffice ==
    ASSUME TypeOK, MapExact, NEW n, NEW w, Lists(w, n, mem)
    PROVE  n <= IdSpace - 1
<1>0. /\ n \in Nat /\ w \in [1 .. n -> mem]
      /\ \A i, j \in 1 .. n : w[i] = w[j] => i = j
      /\ IdSpace \in Nat /\ IdSpace > 1
  BY ListAssumption DEF Lists, ListAssumption
<1> DEFINE f == [i \in 1 .. n |-> idOf[w[i]]]
<1>1. \A c \in mem : idOf[c] \in Ids /\ nodes[idOf[c]] = c
  BY DEF TypeOK, MapExact
<1>2. f \in [1 .. n -> Ids]
  BY <1>0, <1>1
<1>3. \A i, j \in 1 .. n : f[i] = f[j] => i = j
  BY <1>0, <1>1
<1> HIDE DEF f
<1>4. f \in Injection(1 .. n, Ids)
  BY <1>2, <1>3, Fun_IsInj
<1>5. /\ IsFiniteSet(Ids) /\ Cardinality(Ids) = IdSpace - 1
      /\ Cardinality(1 .. n) = n
  <2>1. /\ IsFiniteSet(1 .. IdSpace - 1)
        /\ Cardinality(1 .. IdSpace - 1) = IF 1 > IdSpace - 1 THEN 0 ELSE (IdSpace - 1) - 1 + 1
    BY <1>0, FS_Interval
  <2>2. Cardinality(1 .. n) = IF 1 > n THEN 0 ELSE n - 1 + 1
    BY <1>0, FS_Interval
  <2> QED
    BY <1>0, <2>1, <2>2 DEF Ids
<1>6. Cardinality(1 .. n) <= Cardinality(Ids)
  BY <1>4, <1>5, FS_Injection
<1> QED
  BY <1>5, <1>6

\* v[1] .. v[m] is a walk through M from the sentinel until it is back
Path(p, v, m, M) ==
    /\ m \in Nat /\ v \in [1 .. m -> M]
    /\ \A i \in 0 .. m : p.next[CellAt(v, i)] = CellAt(v, i + 1)

\* Two walks along the same pointers, neither of which meets the sentinel before its
\* end, are the same: at the first place where they differ their predecessors agree.
LEMMA WalkUnique ==
    ASSUME NEW p, NEW M, Sentinel \notin M,
           NEW m, NEW v, Path(p, v, m, M), NEW n, NEW w, Path(p, w, n, M)
    PROVE  v = w /\ m = n
<1>0. /\ m \in Nat /\ v \in [1 .. m -> M]
      /\ n \in Nat /\ w \in [1 .. n -> M]
      /\ \A i \in 0 .. m : p.next[CellAt(v, i)] = CellAt(v, i + 1)
      /\ \A i \in 0 .. n : p.next[CellAt(w, i)] = CellAt(w, i + 1)
  BY DEF Path
<1> USE <1>0
<1> DEFINE D == {i \in Nat : i <= m + 1 /\ i <= n + 1 /\ CellAt(v, i) # CellAt(w, i)}
<1>1. D = {}
  <2> SUFFICES ASSUME D # {} PROVE FALSE
    OBVIOUS
  <2>1. PICK d \in D : \A k \in D : d <= k
    BY Least
  <2>2. d \in Nat /\ d <= m + 1 /\ d <= n + 1 /\ CellAt(v, d) # CellAt(w, d)
    OBVIOUS
  <2>3. d # 0
    BY <2>2 DEF CellAt
  <2>4. PICK e \in Nat : d = e + 1
    <3>1. d - 1 \in Nat /\ d = (d - 1) + 1
      BY <2>2, <2>3
    <3> QED
      BY <3>1
  <2>5. e \notin D /\ e \in 0 .. m /\ e \in 0 .. n
    BY <2>1, <2>2, <2>4
  <2>6. CellAt(v, e) = CellAt(w, e)
    BY <2>5
  <2> QED
    BY <2>2, <2>4, <2>5, <2>6
<1>2. \A i \in Nat : i <= m + 1 /\ i <= n + 1 => CellAt(v, i) = CellAt(w, i)
  BY <1>1
<1>3. m = n
  <2>1. CASE m < n
    <3>1. CellAt(v, m + 1) = CellAt(w, m + 1)
      BY <1>2, <2>1
    <3>2. CellAt(v, m + 1) = Sentinel /\ CellAt(w, m + 1) \in M
      BY <2>1 DEF CellAt
    <3> QED
      BY <3>1, <3>2
  <2>2. CASE n < m
    <3>1. CellAt(v, n + 1) = CellAt(w, n + 1)
      BY <1>2, <2>2
    <3>2. CellAt(w, n + 1) = Sentinel /\ CellAt(v, n + 1) \in M
      BY <2>2 DEF CellAt
    <3> QED
      BY <3>1, <3>2
  <2> QED
    BY <2>1, <2>2
<1>4. \A i \in 1 .. n : v[i] = w[i]
  BY <1>2, <1>3 DEF CellAt
<1> QED
  BY <1>3, <1>4

\* DeepCopy's walk visits the nodes of the ring in their order.
LEMMA WalkIs ==
    ASSUME mem \subseteq Addr, NEW n, NEW w, Linked(ptr, w, n, mem)
    PROVE  Walk = w /\ n \in Nat /\ w \in [1 .. n -> mem] /\ Len(w) = n
<1>1. /\ n \in Nat /\ w \in [1 .. n -> mem] /\ Lists(w, n, mem) /\ Sentinel \notin mem
      /\ \A i \in 0 .. n : ptr.next[CellAt(w, i)] = CellAt(w, i + 1)
  BY ListAssumption DEF Linked, Lists, ListAssumption
<1>2. Cardinality(mem) = n
  BY <1>1, Count
<1>3. \A k \in Nat : \A u \in [1 .. k -> mem] : Len(u) = k
  OBVIOUS
<1> DEFINE S == UNION {[1 .. k -> mem] : k \in 0 .. Cardinality(mem)}
<1>4. w \in S /\ Follows(ptr, w)
  BY <1>1, <1>2, <1>3 DEF Follows
<1>5. Walk \in S /\ Follows(ptr, Walk)
  BY <1>4 DEF Walk
<1>6. PICK m \in 0 .. Cardinality(mem) : Walk \in [1 .. m -> mem]
  BY <1>5
<1> HIDE DEF S
<1>7. m \in Nat
  BY <1>1, <1>2, <1>6
<1> DEFINE v == Walk
<1>8. v \in [1 .. m -> mem] /\ Follows(ptr, v)
  BY <1>5, <1>6
<1> HIDE DEF v
<1>9. \A i \in 0 .. m : ptr.next[CellAt(v, i)] = CellAt(v, i + 1)
  BY <1>3, <1>7, <1>8 DEF Follows
<1>10. v = w
  <2>1. Path(ptr, v, m, mem) /\ Path(ptr, w, n, mem)
    BY <1>1, <1>7, <1>8, <1>9 DEF Path
  <2> QED
    BY <1>1, <2>1, WalkUnique
<1> QED
  BY <1>1, <1>3, <1>10 DEF v

-----------------------------------------------------------------------------
(* Rings as a whole                                                        *)

\* Pointers that link all nodes in both directions are a closed ring.
LEMMA LinkedCloses ==
    ASSUME mem \subseteq Addr, LinkedInv PROVE RingClosed
<1>1. PICK n, w : Linked(ptr, w, n, mem)
  BY DEF LinkedInv
<1>2. Lists(w, n, mem)
  BY <1>1 DEF Linked
<1>3. /\ n \in Nat
      /\ CellAt(w, 0) = Sentinel /\ CellAt(w, n + 1) = Sentinel
      /\ \A i \in 1 .. n : CellAt(w, i) = w[i]
      /\ \A i \in 0 .. n + 1 : CellAt(w, i) \in mem \cup {Sentinel}
  <2>1. Cells(w, n, mem)
    BY <1>2, CellFacts
  <2> QED
    BY <2>1 DEF Cells
<1> USE <1>3
<1>4. \A i \in 0 .. n : /\ ptr.next[CellAt(w, i)] = CellAt(w, i + 1)
                        /\ ptr.prev[CellAt(w, i + 1)] = CellAt(w, i)
  BY <1>1 DEF Linked
<1>5. \A c \in mem : \E i \in 1 .. n : CellAt(w, i) = c
  BY <1>2 DEF Lists
<1>6. ASSUME NEW c \in mem \cup {Sentinel}
      PROVE  /\ ptr.next[c] \in mem \cup {Sentinel} /\ ptr.prev[c] \in mem \cup {Sentinel}
             /\ ptr.prev[ptr.next[c]] = c /\ ptr.next[ptr.prev[c]] = c
  <2>1. PICK i \in 0 .. n : CellAt(w, i) = c
    <3>1. CASE c = Sentinel
      <4>1. 0 \in 0 .. n
        OBVIOUS
      <4> QED
        BY <3>1, <4>1
    <3>2. CASE c \in mem
      <4>1. \A i \in 1 .. n : i \in 0 .. n
        OBVIOUS
      <4> QED
        BY <1>5, <3>2, <4>1
    <3> QED
      BY <3>1, <3>2
  <2>2. PICK j \in 0 .. n : CellAt(w, j + 1) = c
    <3>1. CASE c = Sentinel
      <4>1. n \in 0 .. n
        OBVIOUS
      <4> QED
        BY <3>1, <4>1
    <3>2. CASE c \in mem
      <4>1. PICK k \in 1 .. n : CellAt(w, k) = c
        BY <1>5, <3>2
      <4>2. k - 1 \in 0 .. n /\ (k - 1) + 1 = k
        OBVIOUS
      <4> QED
        BY <4>1, <4>2
    <3> QED
      BY <3>1, <3>2
  <2>3. i + 1 \in 0 .. n + 1 /\ j \in 0 .. n + 1
    OBVIOUS
  <2> QED
    BY <1>4, <2>1, <2>2, <2>3
<1> QED
  BY <1>6 DEF RingClosed

\* The ring that DeepCopy builds is linked in the order of its nodes.
LEMMA RingLinked ==
    ASSUME NEW n \in Nat, NEW a \in Injections(n)
    PROVE  /\ Ring(a) \in Rings /\ Linked(Ring(a), a, n, Range(a))
           /\ Range(a) \subseteq Addr /\ a \in [1 .. n -> Addr] /\ Len(a) = n
           /\ \A i \in 1 .. n : IndexOf(a, a[i]) = i
<1> DEFINE M == Range(a)
           p == Ring(a)
<1>1. a \in [1 .. n -> Addr] /\ \A i, j \in 1 .. n : a[i] = a[j] => i = j
  BY DEF Injections, IsInjective
<1>2. M = {a[i] : i \in 1 .. n} /\ Len(a) = n /\ DOMAIN a = 1 .. n
  BY <1>1 DEF Range
<1>3. Lists(a, n, M) /\ M \subseteq Addr
  BY <1>1, <1>2 DEF Lists
<1>4. \A i \in 1 .. n : IndexOf(a, a[i]) = i
  BY <1>1, <1>2 DEF IndexOf
<1> HIDE DEF M
<1>5. Cells(a, n, M)
  BY <1>3, CellFacts
<1>6. /\ CellAt(a, 0) = Sentinel /\ CellAt(a, n + 1) = Sentinel
      /\ \A i \in 1 .. n : CellAt(a, i) = a[i] /\ a[i] \in M /\ a[i] # Sentinel
      /\ \A i \in 0 .. n + 1 : CellAt(a, i) \in Cell
  BY <1>5 DEF Cells
<1>7. \A c \in M : \E i \in 1 .. n : c = a[i] /\ IndexOf(a, c) = i
  BY <1>2, <1>4
<1>8. p.next = [c \in Cell |-> IF c = Sentinel THEN CellAt(a, 1)
                               ELSE IF c \in M THEN CellAt(a, IndexOf(a, c) + 1)
                               ELSE Sentinel]
  BY DEF Ring, M
<1>9. p.prev = [c \in Cell |-> IF c = Sentinel THEN CellAt(a, n)
                               ELSE IF c \in M THEN CellAt(a, IndexOf(a, c) - 1)
                               ELSE Sentinel]
  BY <1>2 DEF Ring, M
<1>10. p = [next |-> p.next, prev |-> p.prev]
  BY DEF Ring
<1> HIDE DEF p
<1>11. p \in Rings
  <2>1. Sentinel \in Cell
    BY DEF Cell
  <2>2. 1 \in 0 .. n + 1 /\ n \in 0 .. n + 1
    OBVIOUS
  <2>3. \A i \in 1 .. n : i + 1 \in 0 .. n + 1 /\ i - 1 \in 0 .. n + 1
    OBVIOUS
  <2>4. \A c \in M : CellAt(a, IndexOf(a, c) + 1) \in Cell /\ CellAt(a, IndexOf(a, c) - 1) \in Cell
    BY <1>6, <1>7, <2>3
  <2>5. p.next \in [Cell -> Cell] /\ p.prev \in [Cell -> Cell]
    BY <1>6, <1>8, <1>9, <2>1, <2>2, <2>4
  <2> QED
    BY <1>10, <2>5 DEF Rings
<1>12. \A i \in 1 .. n : p.next[a[i]] = CellAt(a, i + 1) /\ p.prev[a[i]] = CellAt(a, i - 1)
  <2> SUFFICES ASSUME NEW i \in 1 .. n
               PROVE  p.next[a[i]] = CellAt(a, i + 1) /\ p.prev[a[i]] = CellAt(a, i - 1)
    OBVIOUS
  <2>1. a[i] \in Cell /\ a[i] \in M /\ a[i] # Sentinel /\ IndexOf(a, a[i]) = i
    BY <1>1, <1>4, <1>6 DEF Cell
  <2> QED
    BY <1>8, <1>9, <2>1
<1>13. p.next[Sentinel] = CellAt(a, 1) /\ p.prev[Sentinel] = CellAt(a, n)
  BY <1>8, <1>9 DEF Cell
<1>14. ASSUME NEW i \in 0 .. n
       PROVE  p.next[CellAt(a, i)] = CellAt(a, i + 1)
  <2>1. CASE i = 0
    BY <1>6, <1>13, <2>1
  <2>2. CASE i \in 1 .. n
    BY <1>6, <1>12, <2>2
  <2> QED
    BY <2>1, <2>2
<1>15. ASSUME NEW i \in 0 .. n
       PROVE  p.prev[CellAt(a, i + 1)] = CellAt(a, i)
  <2>1. CASE i = n
    BY <1>6, <1>13, <2>1
  <2>2. CASE i # n
    <3>1. i + 1 \in 1 .. n /\ (i + 1) - 1 = i
      BY <2>2
    <3> QED
      BY <1>6, <1>12, <3>1
  <2> QED
    BY <2>1, <2>2
<1>16. Linked(p, a, n, M)
  BY <1>3, <1>14, <1>15 DEF Linked
<1> QED
  BY <1>1, <1>2, <1>3, <1>4, <1>11, <1>16 DEF p, M

-----------------------------------------------------------------------------
(* Ids                                                                     *)

\* The id that NextId gives out is in use nowhere, and the ids left behind are fresh
\* still when it is in use.
NextIdFresh ==
    /\ NextId.id \in Ids /\ NextId.id \notin DOMAIN nodes
    /\ NextId.free \in Seq(Ids) /\ NextId.next \in 0 .. IdSpace - 1
    /\ \A i \in DOMAIN NextId.free : /\ NextId.free[i] \notin DOMAIN nodes
                                     /\ NextId.free[i] # NextId.id
    /\ \A i, j \in DOMAIN NextId.free : NextId.free[i] = NextId.free[j] => i = j
    /\ NextId.next # 0 => /\ \A id \in DOMAIN nodes \cup {NextId.id} : id < NextId.next
                          /\ \A i \in DOMAIN NextId.free : NextId.free[i] < NextId.next

LEMMA NextIdIsFresh ==
    ASSUME TypeOK, IdsFresh, HasId PROVE NextIdFresh
<1>1. /\ DOMAIN nodes \subseteq Ids /\ free \in Seq(Ids) /\ nextId \in 0 .. IdSpace - 1
      /\ IdSpace \in Nat /\ IdSpace > 1
  BY ListAssumption DEF TypeOK, ListAssumption
<1>2. /\ \A i \in DOMAIN free : free[i] \notin DOMAIN nodes /\ free[i] \in Ids
      /\ \A i, j \in DOMAIN free : free[i] = free[j] => i = j
      /\ nextId # 0 => \A id \in DOMAIN nodes : id < nextId
      /\ nextId # 0 => \A i \in DOMAIN free : free[i] < nextId
  BY <1>1 DEF IdsFresh
<1>3. CASE free # <<>>
  <2>1. NextId = [id |-> Head(free), free |-> Tail(free), next |-> nextId]
    BY <1>3 DEF NextId
  <2>2. /\ 1 \in DOMAIN free /\ Head(free) = free[1] /\ Tail(free) \in Seq(Ids)
        /\ \A i \in DOMAIN Tail(free) : /\ i + 1 \in DOMAIN free /\ i + 1 # 1
                                        /\ Tail(free)[i] = free[i + 1] /\ i \in Int
    BY <1>1, <1>3
  <2>3. \A i, j \in DOMAIN Tail(free) : Tail(free)[i] = Tail(free)[j] => i = j
    <3> SUFFICES ASSUME NEW i \in DOMAIN Tail(free), NEW j \in DOMAIN Tail(free),
                        Tail(free)[i] = Tail(free)[j]
                 PROVE  i = j
      OBVIOUS
    <3>1. i + 1 = j + 1 /\ i \in Int /\ j \in Int
      BY <1>2, <2>2
    <3> QED
      BY <3>1
  <2> DEFINE h == Head(free)
             t == Tail(free)
  <2>4. /\ h \in Ids /\ h \notin DOMAIN nodes /\ t \in Seq(Ids)
        /\ \A i \in DOMAIN t : t[i] \notin DOMAIN nodes /\ t[i] # h
        /\ nextId # 0 => h < nextId /\ \A i \in DOMAIN t : t[i] < nextId
    BY <1>2, <2>2
  <2>5. NextId.id = h /\ NextId.free = t /\ NextId.next = nextId
    BY <2>1
  <2>6. \A i, j \in DOMAIN t : t[i] = t[j] => i = j
    BY <2>3
  <2> HIDE DEF h, t
  <2> QED
    BY <1>1, <1>2, <2>4, <2>5, <2>6 DEF NextIdFresh
<1>4. CASE free = <<>>
  <2>1. NextId = [id |-> nextId, free |-> free, next |-> (nextId + 1) % IdSpace]
    BY <1>4 DEF NextId
  <2>2. nextId # 0 /\ nextId \in Ids
    BY <1>1, <1>4 DEF HasId, Ids
  <2>3. DOMAIN free = {} /\ \A id \in Ids : id \in Int
    BY <1>4 DEF Ids
  <2> DEFINE x == (nextId + 1) % IdSpace
  <2>4. x \in 0 .. IdSpace - 1 /\ (x # 0 => x = nextId + 1)
    <3>1. CASE nextId = IdSpace - 1
      <4>1. nextId + 1 = IdSpace
        BY <1>1, <3>1
      <4>2. IdSpace % IdSpace = 0
        BY <1>1
      <4> QED
        BY <1>1, <4>1, <4>2
    <3>2. CASE nextId # IdSpace - 1
      <4>1. nextId + 1 \in 0 .. IdSpace - 1
        BY <1>1, <3>2
      <4>2. x = nextId + 1
        BY <1>1, <4>1
      <4> QED
        BY <4>1, <4>2
    <3> QED
      BY <3>1, <3>2
  <2>5. NextId.id = nextId /\ NextId.free = free /\ NextId.next = x
    BY <2>1
  <2> HIDE DEF x
  <2>6. x # 0 => \A id \in DOMAIN nodes \cup {nextId} : id < x
    BY <1>1, <1>2, <2>2, <2>3, <2>4
  <2>7. nextId \notin DOMAIN nodes
    BY <1>1, <1>2, <2>2, <2>3
  <2> QED
    BY <1>1, <2>2, <2>3, <2>4, <2>5, <2>6, <2>7 DEF NextIdFresh
<1> QED
  BY <1>3, <1>4

-----------------------------------------------------------------------------
(* What the calls make of the list w[1] .. w[n]                            *)

Sound(w, n) == TypeOK /\ MapExact /\ IdsFresh /\ Linked(ptr, w, n, mem)

\* The types that a call needs, and that the constants give
LEMMA CallTypes ==
    ASSUME NEW op \in Ops, NEW id \in Ids \cup {0}, NEW x \in Int, Call(op, id, x)
    PROVE  out' \in [op : Ops, id : Ids \cup {0}, ret : Int]
BY DEF Call

LEMMA PushSound ==
    ASSUME NEW n, NEW w, Sound(w, n), NEW op \in Ops, NEW a \in Addr, NEW v \in Value,
           NEW k \in 0 .. n, Push(op, a, v, CellAt(w, k + 1))
    PROVE  Sound(Inserted(w, n, k, a), n + 1)'
<1>1. /\ TypeOK /\ MapExact /\ IdsFresh /\ Linked(ptr, w, n, mem) /\ a \notin mem /\ HasId
      /\ mem \subseteq Addr /\ ptr \in Rings
  BY DEF Sound, Push, TypeOK, Rings
<1>2. NextIdFresh
  BY <1>1, NextIdIsFresh
<1> DEFINE id == NextId.id
           f == NextId.free
           x == NextId.next
<1>3. /\ id \in Ids /\ id \notin DOMAIN nodes /\ f \in Seq(Ids) /\ x \in 0 .. IdSpace - 1
      /\ \A i \in DOMAIN f : f[i] \notin DOMAIN nodes /\ f[i] # id
      /\ \A i, j \in DOMAIN f : f[i] = f[j] => i = j
      /\ x # 0 => /\ \A d \in DOMAIN nodes \cup {id} : d < x
                  /\ \A i \in DOMAIN f : f[i] < x
  BY <1>2 DEF NextIdFresh
<1>4. /\ mem' = mem \cup {a} /\ val' = [val EXCEPT ![a] = v] /\ idOf' = [idOf EXCEPT ![a] = id]
      /\ free' = f /\ nextId' = x /\ ptr' = InsertBefore(ptr, CellAt(w, k + 1), a)
      /\ nodes' = With(nodes, id, a) /\ Call(op, 0, id)
  BY DEF Push
<1> HIDE DEF id, f, x
<1>5. ptr' \in Rings /\ Linked(ptr', Inserted(w, n, k, a), n + 1, mem')
  BY <1>1, <1>4, InsertLinked
<1>6. /\ DOMAIN nodes' = DOMAIN nodes \cup {id} /\ nodes'[id] = a
      /\ \A d \in DOMAIN nodes : nodes'[d] = nodes[d]
  BY <1>3, <1>4 DEF With
<1>7. TypeOK'
  <2>1. id \in Int /\ 0 \in Ids \cup {0}
    BY <1>3 DEF Ids
  <2>2. out' \in [op : Ops, id : Ids \cup {0}, ret : Int]
    BY <1>4, <2>1, CallTypes
  <2>3. DOMAIN nodes' \subseteq Ids /\ nodes' \in [DOMAIN nodes' -> Addr]
    <3>1. DOMAIN nodes \subseteq Ids /\ \A d \in DOMAIN nodes : nodes[d] \in Addr
      BY <1>1 DEF TypeOK
    <3>2. nodes' = [d \in DOMAIN nodes \cup {id} |-> IF d = id THEN a ELSE nodes[d]]
      BY <1>4 DEF With
    <3> QED
      BY <1>3, <3>1, <3>2
  <2>4. val' \in [Addr -> Value] /\ idOf' \in [Addr -> Ids \cup {0}] /\ mem' \subseteq Addr
    BY <1>1, <1>3, <1>4 DEF TypeOK
  <2> QED
    BY <1>3, <1>4, <1>5, <2>2, <2>3, <2>4 DEF TypeOK, Rings
<1>8. MapExact'
  <2>1. idOf'[a] = id /\ \A c \in mem : idOf'[c] = idOf[c] /\ c # a
    BY <1>1, <1>4 DEF TypeOK
  <2>2. /\ \A d \in DOMAIN nodes : nodes[d] \in mem /\ idOf[nodes[d]] = d
        /\ \A c \in mem : idOf[c] \in DOMAIN nodes /\ nodes[idOf[c]] = c
    BY <1>1 DEF MapExact
  <2>3. \A d \in DOMAIN nodes' : nodes'[d] \in mem' /\ idOf'[nodes'[d]] = d
    BY <1>4, <1>6, <2>1, <2>2
  <2>4. \A c \in mem' : idOf'[c] \in DOMAIN nodes' /\ nodes'[idOf'[c]] = c
    BY <1>4, <1>6, <2>1, <2>2
  <2> QED
    BY <2>3, <2>4 DEF MapExact
<1>9. IdsFresh'
  <2>1. \A i \in DOMAIN f : f[i] \notin DOMAIN nodes'
    BY <1>3, <1>6
  <2>2. x # 0 => \A d \in DOMAIN nodes' \cup {f[i] : i \in DOMAIN f} : d < x
    BY <1>3, <1>6
  <2> QED
    BY <1>3, <1>4, <2>1, <2>2 DEF IdsFresh
<1> QED
  BY <1>5, <1>7, <1>8, <1>9 DEF Sound

LEMMA DeleteSound ==
    ASSUME NEW n, NEW w, Sound(w, n), NEW op \in Ops, NEW id \in Ids \cup {0},
           NEW k \in 1 .. n, Delete(op, id, w[k])
    PROVE  Sound(Removed(w, n, k), n - 1)'
<1> DEFINE c == w[k]
           d == idOf[c]
<1>1. /\ TypeOK /\ MapExact /\ IdsFresh /\ Linked(ptr, w, n, mem)
      /\ mem \subseteq Addr /\ ptr \in Rings
  BY DEF Sound, TypeOK, Rings
<1>2. n \in Nat /\ w \in [1 .. n -> mem]
  BY <1>1 DEF Linked, Lists
<1>3. c \in mem /\ c \in Addr
  BY <1>1, <1>2
<1>4. LET q == Unlink(ptr, c)
      IN q \in Rings /\ Linked(q, Removed(w, n, k), n - 1, mem \ {c})
  BY <1>1, UnlinkLinked
<1>5. /\ ptr' = Released(Unlink(ptr, c), c) /\ nodes' = Without(nodes, d)
      /\ free' = Append(free, d) /\ val' = [val EXCEPT ![c] = 0] /\ idOf' = [idOf EXCEPT ![c] = 0]
      /\ mem' = mem \ {c} /\ nextId' = nextId /\ Call(op, id, val[c])
  BY DEF Delete
<1> DEFINE v == Removed(w, n, k)
<1> HIDE DEF c, v
<1>6. ptr' \in Rings /\ Linked(ptr', v, n - 1, mem')
  <2>1. c \in Addr \ (mem \ {c}) /\ mem \ {c} \subseteq Addr
    BY <1>1, <1>3
  <2> QED
    BY <1>4, <1>5, <2>1, ReleasedLinked DEF v
<1>7. /\ d \in Ids /\ d \in DOMAIN nodes /\ nodes[d] = c
      /\ \A e \in DOMAIN nodes : nodes[e] \in mem /\ idOf[nodes[e]] = e
      /\ \A b \in mem : idOf[b] \in DOMAIN nodes /\ nodes[idOf[b]] = b
  BY <1>1, <1>3 DEF MapExact, TypeOK
<1> HIDE DEF d
<1>8. /\ DOMAIN nodes' = DOMAIN nodes \ {d} /\ \A e \in DOMAIN nodes \ {d} : nodes'[e] = nodes[e]
  BY <1>5 DEF Without
<1>9. TypeOK'
  <2>1. val[c] \in Int /\ 0 \in Value
    BY <1>1, <1>3, ListAssumption DEF TypeOK, ListAssumption
  <2>2. out' \in [op : Ops, id : Ids \cup {0}, ret : Int]
    BY <1>5, <2>1, CallTypes
  <2>3. DOMAIN nodes' \subseteq Ids /\ nodes' \in [DOMAIN nodes' -> Addr]
    <3>1. DOMAIN nodes \subseteq Ids /\ \A e \in DOMAIN nodes : nodes[e] \in Addr
      BY <1>1 DEF TypeOK
    <3>2. nodes' = [e \in DOMAIN nodes \ {d} |-> nodes[e]]
      BY <1>5 DEF Without
    <3> QED
      BY <3>1, <3>2
  <2>4. val' \in [Addr -> Value] /\ idOf' \in [Addr -> Ids \cup {0}] /\ mem' \subseteq Addr
    BY <1>1, <1>5, <2>1 DEF TypeOK
  <2>5. free' \in Seq(Ids) /\ nextId' \in 0 .. IdSpace - 1
    BY <1>1, <1>5, <1>7 DEF TypeOK
  <2> QED
    BY <1>6, <2>2, <2>3, <2>4, <2>5 DEF TypeOK, Rings
<1>10. MapExact'
  <2>1. \A b \in mem' : idOf'[b] = idOf[b] /\ b \in mem /\ b # c
    BY <1>1, <1>5 DEF TypeOK
  <2>2. \A e \in DOMAIN nodes' : nodes'[e] = nodes[e] /\ e \in DOMAIN nodes /\ nodes[e] # c
    BY <1>7, <1>8 DEF d
  <2>3. \A e \in DOMAIN nodes' : nodes'[e] \in mem' /\ idOf'[nodes'[e]] = e
    BY <1>5, <1>7, <2>1, <2>2
  <2>4. \A b \in mem' : idOf'[b] \in DOMAIN nodes' /\ nodes'[idOf'[b]] = b
    BY <1>7, <1>8, <2>1
  <2> QED
    BY <2>3, <2>4 DEF MapExact
<1>11. IdsFresh'
  <2>1. free \in Seq(Ids)
    BY <1>1 DEF TypeOK
  <2>2. /\ \A i \in DOMAIN free' : \/ i \in DOMAIN free /\ free'[i] = free[i]
                                   \/ i = Len(free) + 1 /\ free'[i] = d
        /\ Len(free) + 1 \notin DOMAIN free
    BY <1>5, <1>7, <2>1
  <2>3. /\ \A i \in DOMAIN free : free[i] \notin DOMAIN nodes
        /\ \A i, j \in DOMAIN free : free[i] = free[j] => i = j
        /\ nextId # 0 => \A e \in DOMAIN nodes : e < nextId
        /\ nextId # 0 => \A i \in DOMAIN free : free[i] < nextId
    BY <1>1 DEF IdsFresh
  <2>4. \A i \in DOMAIN free' : free'[i] \notin DOMAIN nodes'
    BY <1>8, <2>2, <2>3
  <2>5. \A i, j \in DOMAIN free' : free'[i] = free'[j] => i = j
    BY <1>7, <2>2, <2>3
  <2>6. nextId # 0 => \A e \in DOMAIN nodes' \cup {free'[i] : i \in DOMAIN free'} : e < nextId
    BY <1>7, <1>8, <2>2, <2>3
  <2> QED
    BY <1>5, <2>4, <2>5, <2>6 DEF IdsFresh
<1> QED
  BY <1>6, <1>9, <1>10, <1>11 DEF Sound, v

\* The k-th node unlinked and inserted after the first j of the others
LEMMA MoveSound ==
    ASSUME NEW n, NEW w, Sound(w, n), NEW op \in Ops, NEW id \in Ids, Call(op, id, 0),
           NEW k \in 1 .. n, NEW j \in 0 .. n - 1,
           ptr' = InsertBefore(Unlink(ptr, w[k]), CellAt(Removed(w, n, k), j + 1), w[k]),
           UNCHANGED <<val, idOf, mem, nodes, free, nextId>>
    PROVE  Sound(Inserted(Removed(w, n, k), n - 1, j, w[k]), n)'
<1> DEFINE c == w[k]
           q == Unlink(ptr, c)
           u == Removed(w, n, k)
           M == mem \ {c}
<1>1. /\ TypeOK /\ MapExact /\ IdsFresh /\ Linked(ptr, w, n, mem)
      /\ mem \subseteq Addr /\ ptr \in Rings
  BY DEF Sound, TypeOK, Rings
<1>2. n \in Nat /\ w \in [1 .. n -> mem]
  BY <1>1 DEF Linked, Lists
<1>3. c \in mem /\ c \in Addr \ M /\ M \subseteq Addr /\ M \cup {c} = mem
  BY <1>1, <1>2
<1>4. q \in Rings /\ Linked(q, u, n - 1, M)
  BY <1>1, UnlinkLinked
<1>5. ptr' = InsertBefore(q, CellAt(u, j + 1), c)
  OBVIOUS
<1> HIDE DEF c, q, u, M
<1>6. /\ InsertBefore(q, CellAt(u, j + 1), c) \in Rings
      /\ Linked(InsertBefore(q, CellAt(u, j + 1), c), Inserted(u, n - 1, j, c), (n - 1) + 1, M \cup {c})
  BY <1>3, <1>4, InsertLinked
<1>7. (n - 1) + 1 = n
  BY <1>2
<1>8. ptr' \in Rings /\ Linked(ptr', Inserted(u, n - 1, j, c), n, mem')
  BY <1>3, <1>5, <1>6, <1>7
<1>9. out' \in [op : Ops, id : Ids \cup {0}, ret : Int]
  BY CallTypes
<1>10. TypeOK'
  BY <1>1, <1>8, <1>9 DEF TypeOK, Rings
<1>11. MapExact' /\ IdsFresh'
  BY <1>1 DEF MapExact, IdsFresh
<1> QED
  BY <1>8, <1>10, <1>11 DEF Sound, c, u

LEMMA ReturnsSound ==
    ASSUME NEW n, NEW w, Sound(w, n), NEW op \in Ops, NEW id \in Ids \cup {0}, NEW x \in Int,
           Returns(op, id, x)
    PROVE  Sound(w, n)'
<1>1. out' \in [op : Ops, id : Ids \cup {0}, ret : Int]
  BY CallTypes DEF Returns
<1>2. TypeOK'
  BY <1>1 DEF TypeOK, Sound, Returns
<1>3. MapExact' /\ IdsFresh' /\ Linked(ptr', w, n, mem')
  BY DEF MapExact, IdsFresh, Sound, Returns
<1> QED
  BY <1>2, <1>3 DEF Sound

LEMMA SetValueSound ==
    ASSUME NEW n, NEW w, Sound(w, n), NEW id \in Ids, NEW v \in Value, SetValue(id, v)
    PROVE  Sound(w, n)'
<1>1. out' \in [op : Ops, id : Ids \cup {0}, ret : Int]
  BY DEF SetValue, Call, Ops
<1>2. TypeOK'
  BY <1>1 DEF TypeOK, Sound, SetValue
<1>3. MapExact' /\ IdsFresh' /\ Linked(ptr', w, n, mem')
  BY DEF MapExact, IdsFresh, Sound, SetValue
<1> QED
  BY <1>2, <1>3 DEF Sound

\* The list as it is created, and after Clear
Empty ==
    /\ ptr = EmptyRing /\ val = [a \in Addr |-> 0] /\ idOf = [a \in Addr |-> 0]
    /\ mem = {} /\ nodes = <<>> /\ free = <<>> /\ nextId \in 0 .. IdSpace - 1
    /\ out \in [op : Ops, id : Ids \cup {0}, ret : Int]

LEMMA EmptySound == Empty => Sound(<<>>, 0)
<1> SUFFICES ASSUME Empty PROVE Sound(<<>>, 0)
  OBVIOUS
<1>0. /\ ptr = EmptyRing /\ val = [a \in Addr |-> 0] /\ idOf = [a \in Addr |-> 0]
      /\ mem = {} /\ nodes = <<>> /\ free = <<>> /\ nextId \in 0 .. IdSpace - 1
      /\ out \in [op : Ops, id : Ids \cup {0}, ret : Int]
  BY DEF Empty
<1> USE <1>0
<1>1. DOMAIN nodes = {} /\ nodes \in [DOMAIN nodes -> Addr] /\ DOMAIN free = {} /\ free \in Seq(Ids)
  OBVIOUS
<1>2. ptr \in Rings
  BY DEF EmptyRing, Rings, Cell
<1>3. TypeOK
  BY <1>1, <1>2, ListAssumption DEF TypeOK, Rings, ListAssumption
<1>4. MapExact /\ IdsFresh
  BY <1>1 DEF MapExact, IdsFresh
<1>5. Lists(<<>>, 0, mem)
  BY DEF Lists
<1>6. \A i \in Nat : CellAt(<<>>, i) = Sentinel
  BY DEF CellAt
<1>7. ptr.next[Sentinel] = Sentinel /\ ptr.prev[Sentinel] = Sentinel
  BY DEF EmptyRing, Cell
<1>8. Linked(ptr, <<>>, 0, mem)
  BY <1>5, <1>6, <1>7 DEF Linked
<1> QED
  BY <1>3, <1>4, <1>8 DEF Sound

LEMMA CopySound ==
    ASSUME NEW n, NEW w, Sound(w, n), NEW a \in Injections(n), Copy(a), Walk = w
    PROVE  Sound(a, n)'
<1>1. /\ TypeOK /\ MapExact /\ Linked(ptr, w, n, mem) /\ mem \subseteq Addr
      /\ n \in Nat /\ w \in [1 .. n -> mem] /\ Lists(w, n, mem)
  BY DEF Sound, TypeOK, Linked, Lists
<1>2. /\ Ring(a) \in Rings /\ Linked(Ring(a), a, n, Range(a))
      /\ Range(a) \subseteq Addr /\ a \in [1 .. n -> Addr] /\ Len(a) = n
      /\ \A i \in 1 .. n : IndexOf(a, a[i]) = i
  BY <1>1, RingLinked
<1>3. n <= IdSpace - 1 /\ IdSpace \in Nat /\ IdSpace > 1
  BY <1>1, IdsSuffice, ListAssumption DEF ListAssumption
<1> DEFINE x == (n + 1) % IdSpace
<1>4. x \in 0 .. IdSpace - 1 /\ (x # 0 => x = n + 1)
  <2>1. CASE n = IdSpace - 1
    <3>1. n + 1 = IdSpace /\ IdSpace % IdSpace = 0
      BY <1>1, <1>3, <2>1
    <3> QED
      BY <1>1, <1>3, <3>1
  <2>2. CASE n # IdSpace - 1
    <3>1. n + 1 \in 0 .. IdSpace - 1
      BY <1>1, <1>3, <2>2
    <3>2. x = n + 1
      BY <1>3, <3>1
    <3> QED
      BY <3>1, <3>2
  <2> QED
    BY <2>1, <2>2
<1>5. /\ ptr' = Ring(a) /\ mem' = Range(a) /\ nodes' = a /\ free' = <<>> /\ nextId' = x
      /\ val' = [c \in Addr |-> IF c \in Range(a) THEN val[w[IndexOf(a, c)]] ELSE 0]
      /\ idOf' = [c \in Addr |-> IF c \in Range(a) THEN IndexOf(a, c) ELSE 0]
      /\ out' = [op |-> "Copy", id |-> 0, ret |-> 0]
  BY <1>2 DEF Copy, Call
<1> HIDE DEF x
<1>6. \A c \in Range(a) : \E i \in 1 .. n : c = a[i] /\ IndexOf(a, c) = i
  BY <1>2 DEF Range
<1>7. DOMAIN a = 1 .. n /\ \A i \in 1 .. n : i \in Ids /\ a[i] \in Range(a) /\ w[i] \in Addr
  BY <1>1, <1>2, <1>3 DEF Range, Ids
<1>8. TypeOK'
  <2>1. val' \in [Addr -> Value]
    <3>1. 0 \in Value /\ \A c \in Addr : val[c] \in Value
      BY <1>1, ListAssumption DEF TypeOK, ListAssumption
    <3>2. \A c \in Range(a) : val[w[IndexOf(a, c)]] \in Value
      BY <1>6, <1>7, <3>1
    <3> QED
      BY <1>5, <3>1, <3>2
  <2>2. idOf' \in [Addr -> Ids \cup {0}]
    <3>1. \A c \in Range(a) : IndexOf(a, c) \in Ids
      BY <1>6, <1>7
    <3> QED
      BY <1>5, <3>1
  <2>3. DOMAIN nodes' \subseteq Ids /\ nodes' \in [DOMAIN nodes' -> Addr]
    BY <1>2, <1>5, <1>7
  <2>4. out' \in [op : Ops, id : Ids \cup {0}, ret : Int] /\ free' \in Seq(Ids)
    BY <1>5 DEF Ops
  <2> QED
    BY <1>2, <1>4, <1>5, <2>1, <2>2, <2>3, <2>4 DEF TypeOK, Rings
<1>9. MapExact'
  <2>1. \A c \in Range(a) : idOf'[c] \in 1 .. n /\ a[idOf'[c]] = c
    BY <1>2, <1>5, <1>6
  <2>2. \A i \in 1 .. n : a[i] \in Range(a) /\ idOf'[a[i]] = i
    BY <1>2, <1>5, <1>7
  <2> QED
    BY <1>5, <1>7, <2>1, <2>2 DEF MapExact
<1>10. IdsFresh'
  <2>1. DOMAIN free' = {}
    BY <1>5
  <2>2. x # 0 => \A i \in DOMAIN nodes' : i < x
    BY <1>1, <1>4, <1>5, <1>7
  <2> QED
    BY <1>5, <2>1, <2>2 DEF IdsFresh
<1> QED
  BY <1>2, <1>5, <1>8, <1>9, <1>10 DEF Sound

\* The ends of the list, and where a node is in it
Ends(w, n) ==
    /\ n \in Nat /\ w \in [1 .. n -> mem]
    /\ ptr.next[Sentinel] = CellAt(w, 1) /\ ptr.prev[Sentinel] = CellAt(w, n)
    /\ n = 0 <=> DOMAIN nodes = {}
    /\ n # 0 => ptr.next[Sentinel] = w[1] /\ ptr.prev[Sentinel] = w[n]
    /\ \A id \in DOMAIN nodes : \E k \in 1 .. n : nodes[id] = w[k]
    /\ Walk = w /\ Len(w) = n

LEMMA ListEnds ==
    ASSUME NEW n, NEW w, Sound(w, n) PROVE Ends(w, n)
<1>1. /\ TypeOK /\ MapExact /\ Linked(ptr, w, n, mem) /\ mem \subseteq Addr
      /\ n \in Nat /\ w \in [1 .. n -> mem] /\ Lists(w, n, mem)
      /\ \A c \in mem : \E i \in 1 .. n : w[i] = c
      /\ \A i \in 0 .. n : /\ ptr.next[CellAt(w, i)] = CellAt(w, i + 1)
                           /\ ptr.prev[CellAt(w, i + 1)] = CellAt(w, i)
  BY DEF Sound, TypeOK, Linked, Lists
<1>2. Cells(w, n, mem)
  BY <1>1, CellFacts
<1>3. /\ CellAt(w, 0) = Sentinel /\ CellAt(w, n + 1) = Sentinel
      /\ \A i \in 1 .. n : CellAt(w, i) = w[i]
  BY <1>2 DEF Cells
<1>4. ptr.next[Sentinel] = CellAt(w, 1) /\ ptr.prev[Sentinel] = CellAt(w, n)
  <2>1. 0 \in 0 .. n /\ n \in 0 .. n /\ 0 + 1 = 1
    BY <1>1
  <2> QED
    BY <1>1, <1>3, <2>1
<1>5. n = 0 <=> DOMAIN nodes = {}
  <2>1. CASE n = 0
    <3>1. mem = {}
      BY <1>1, <2>1
    <3> QED
      BY <1>1, <2>1, <3>1 DEF MapExact
  <2>2. CASE n # 0
    <3>1. 1 \in 1 .. n
      BY <1>1, <2>2
    <3> QED
      BY <1>1, <2>2, <3>1 DEF MapExact
  <2> QED
    BY <2>1, <2>2
<1>6. n # 0 => CellAt(w, 1) = w[1] /\ CellAt(w, n) = w[n]
  BY <1>1, <1>3
<1>7. \A id \in DOMAIN nodes : \E k \in 1 .. n : nodes[id] = w[k]
  BY <1>1 DEF MapExact
<1>8. Walk = w /\ Len(w) = n
  BY <1>1, WalkIs
<1> QED
  BY <1>1, <1>4, <1>5, <1>6, <1>7, <1>8 DEF Ends

-----------------------------------------------------------------------------
(* The list in memory is sound                                             *)

LEMMA InitSound == Init => Sound(<<>>, 0)
<1> SUFFICES ASSUME Init PROVE Sound(<<>>, 0)
  OBVIOUS
<1>1. nextId \in 0 .. IdSpace - 1 /\ out \in [op : Ops, id : Ids \cup {0}, ret : Int]
  BY ListAssumption DEF Init, ListAssumption, Ops
<1> QED
  BY <1>1, EmptySound DEF Init, Empty

LEMMA ClearSound ==
    ASSUME NEW n, NEW w, Sound(w, n), Clear PROVE Sound(<<>>, 0)'
<1>1. nextId' \in 0 .. IdSpace - 1 /\ out' \in [op : Ops, id : Ids \cup {0}, ret : Int]
  BY DEF Sound, TypeOK, Clear, Call, Ops
<1>2. /\ ptr' = EmptyRing /\ val' = [a \in Addr |-> 0] /\ idOf' = [a \in Addr |-> 0]
      /\ mem' = {} /\ nodes' = <<>> /\ free' = <<>>
  BY DEF Clear
<1>3. Empty'
  BY <1>1, <1>2 DEF Empty, EmptyRing, Cell
<1>4. (Empty => Sound(<<>>, 0))'
  BY EmptySound, PTL
<1> QED
  BY <1>3, <1>4

\* The list after each call: what is inserted, removed or moved, and where
LEMMA PushFrontSound ==
    ASSUME NEW n, NEW w, Sound(w, n), NEW a \in Addr, NEW v \in Value, PushFront(a, v)
    PROVE  Sound(Inserted(w, n, 0, a), n + 1)'
<1>1. Ends(w, n)
  BY ListEnds
<1>2. 0 \in 0 .. n /\ ptr.next[Sentinel] = CellAt(w, 0 + 1)
  BY <1>1 DEF Ends
<1>3. Push("PushFront", a, v, CellAt(w, 0 + 1)) /\ "PushFront" \in Ops
  BY <1>2 DEF PushFront, Ops
<1> QED
  BY <1>2, <1>3, PushSound

LEMMA PushBackSound ==
    ASSUME NEW n, NEW w, Sound(w, n), NEW a \in Addr, NEW v \in Value, PushBack(a, v)
    PROVE  Sound(Inserted(w, n, n, a), n + 1)'
<1>1. Ends(w, n)
  BY ListEnds
<1>2. n \in 0 .. n /\ CellAt(w, n + 1) = Sentinel
  BY <1>1 DEF Ends, CellAt
<1>3. Push("PushBack", a, v, CellAt(w, n + 1)) /\ "PushBack" \in Ops
  BY <1>2 DEF PushBack, Ops
<1> QED
  BY <1>2, <1>3, PushSound

LEMMA PopFrontSound ==
    ASSUME NEW n, NEW w, Sound(w, n), PopFront
    PROVE  \/ n = 0 /\ Sound(w, n)'
           \/ n # 0 /\ Sound(Removed(w, n, 1), n - 1)'
<1>1. Ends(w, n)
  BY ListEnds
<1>2. "PopFront" \in Ops /\ 0 \in Ids \cup {0} /\ 0 \in Int /\ n \in Nat
  BY <1>1 DEF Ops, Ends
<1>3. CASE n = 0
  <2>1. Returns("PopFront", 0, 0)
    BY <1>1, <1>3 DEF PopFront, Ends
  <2> QED
    BY <1>2, <1>3, <2>1, ReturnsSound
<1>4. CASE n # 0
  <2>1. 1 \in 1 .. n /\ Delete("PopFront", 0, w[1])
    BY <1>1, <1>2, <1>4 DEF PopFront, Ends
  <2> QED
    BY <1>2, <1>4, <2>1, DeleteSound
<1> QED
  BY <1>3, <1>4

LEMMA PopBackSound ==
    ASSUME NEW n, NEW w, Sound(w, n), PopBack
    PROVE  \/ n = 0 /\ Sound(w, n)'
           \/ n # 0 /\ Sound(Removed(w, n, n), n - 1)'
<1>1. Ends(w, n)
  BY ListEnds
<1>2. "PopBack" \in Ops /\ 0 \in Ids \cup {0} /\ 0 \in Int /\ n \in Nat
  BY <1>1 DEF Ops, Ends
<1>3. CASE n = 0
  <2>1. Returns("PopBack", 0, 0)
    BY <1>1, <1>3 DEF PopBack, Ends
  <2> QED
    BY <1>2, <1>3, <2>1, ReturnsSound
<1>4. CASE n # 0
  <2>1. n \in 1 .. n /\ Delete("PopBack", 0, w[n])
    BY <1>1, <1>2, <1>4 DEF PopBack, Ends
  <2> QED
    BY <1>2, <1>4, <2>1, DeleteSound
<1> QED
  BY <1>3, <1>4

LEMMA RemoveSound ==
    ASSUME NEW n, NEW w, Sound(w, n), NEW id \in Ids, Remove(id)
    PROVE  \/ ~Found(id) /\ Sound(w, n)'
           \/ Found(id) /\ \E k \in 1 .. n : nodes[id] = w[k] /\ Sound(Removed(w, n, k), n - 1)'
<1>1. Ends(w, n)
  BY ListEnds
<1>2. "Remove" \in Ops /\ id \in Ids \cup {0} /\ 0 \in Int
  BY DEF Ops
<1>3. CASE ~Found(id)
  <2>1. Returns("Remove", id, 0)
    BY <1>3 DEF Remove
  <2> QED
    BY <1>2, <1>3, <2>1, ReturnsSound
<1>4. CASE Found(id)
  <2>1. PICK k \in 1 .. n : nodes[id] = w[k]
    BY <1>1, <1>4 DEF Ends, Found
  <2>2. Delete("Remove", id, w[k])
    BY <1>4, <2>1 DEF Remove
  <2>3. Sound(Removed(w, n, k), n - 1)'
    BY <1>2, <2>2, DeleteSound
  <2> QED
    BY <1>4, <2>1, <2>3
<1> QED
  BY <1>3, <1>4

\* A node that is moved to the front or back, unless it is there already
LEMMA MoveToFrontSound ==
    ASSUME NEW n, NEW w, Sound(w, n), NEW id \in Ids, MoveToFront(id)
    PROVE  \/ ~Found(id) /\ Sound(w, n)'
           \/ Found(id) /\ n # 0 /\ nodes[id] = w[1] /\ Sound(w, n)'
           \/ Found(id) /\ \E k \in 1 .. n :
                  nodes[id] = w[k] /\ Sound(Inserted(Removed(w, n, k), n - 1, 0, w[k]), n)'
<1>1. Ends(w, n)
  BY ListEnds
<1>2. "MoveToFront" \in Ops /\ id \in Ids \cup {0} /\ 0 \in Int /\ n \in Nat
  BY <1>1 DEF Ops, Ends
<1>3. CASE ~Found(id) \/ nodes[id] = ptr.next[Sentinel]
  <2>1. Returns("MoveToFront", id, 0)
    BY <1>3 DEF MoveToFront, MoveTo
  <2>2. Sound(w, n)'
    BY <1>2, <2>1, ReturnsSound
  <2>3. Found(id) => n # 0
    BY <1>1 DEF Ends, Found
  <2>4. Found(id) => nodes[id] = w[1]
    BY <1>1, <1>3, <2>3 DEF Ends
  <2> QED
    BY <2>2, <2>3, <2>4
<1>4. CASE Found(id) /\ nodes[id] # ptr.next[Sentinel]
  <2>1. PICK k \in 1 .. n : nodes[id] = w[k]
    BY <1>1, <1>4 DEF Ends, Found
  <2>2. /\ ptr' = InsertBefore(Unlink(ptr, w[k]), Unlink(ptr, w[k]).next[Sentinel], w[k])
        /\ Call("MoveToFront", id, 0) /\ UNCHANGED <<val, idOf, mem, nodes, free, nextId>>
    BY <1>4, <2>1 DEF MoveToFront, MoveTo
  <2> DEFINE u == Removed(w, n, k)
             q == Unlink(ptr, w[k])
  <2>3. q \in Rings /\ Linked(q, u, n - 1, mem \ {w[k]}) /\ mem \subseteq Addr
    <3>1. ptr \in Rings /\ mem \subseteq Addr /\ Linked(ptr, w, n, mem)
      BY DEF Sound, TypeOK, Rings
    <3> QED
      BY <3>1, UnlinkLinked
  <2> HIDE DEF u, q
  <2>4. 0 \in 0 .. n - 1 /\ 0 + 1 = 1
    BY <1>2
  <2>5. q.next[Sentinel] = CellAt(u, 0 + 1)
    <3>1. q.next[CellAt(u, 0)] = CellAt(u, 0 + 1) /\ Lists(u, n - 1, mem \ {w[k]})
      BY <2>3, <2>4 DEF Linked
    <3>2. CellAt(u, 0) = Sentinel
      <4>1. DOMAIN u = 1 .. n - 1
        BY <3>1 DEF Lists
      <4> QED
        BY <1>2, <4>1 DEF CellAt
    <3> QED
      BY <3>1, <3>2
  <2>6. ptr' = InsertBefore(Unlink(ptr, w[k]), CellAt(Removed(w, n, k), 0 + 1), w[k])
    BY <2>2, <2>5 DEF q, u
  <2>7. Sound(Inserted(Removed(w, n, k), n - 1, 0, w[k]), n)'
    BY <1>2, <2>2, <2>4, <2>6, MoveSound
  <2> QED
    BY <1>4, <2>1, <2>7
<1> QED
  BY <1>3, <1>4

LEMMA MoveToBackSound ==
    ASSUME NEW n, NEW w, Sound(w, n), NEW id \in Ids, MoveToBack(id)
    PROVE  \/ ~Found(id) /\ Sound(w, n)'
           \/ Found(id) /\ n # 0 /\ nodes[id] = w[n] /\ Sound(w, n)'
           \/ Found(id) /\ \E k \in 1 .. n :
                  nodes[id] = w[k] /\ Sound(Inserted(Removed(w, n, k), n - 1, n - 1, w[k]), n)'
<1>1. Ends(w, n)
  BY ListEnds
<1>2. "MoveToBack" \in Ops /\ id \in Ids \cup {0} /\ 0 \in Int /\ n \in Nat
  BY <1>1 DEF Ops, Ends
<1>3. CASE ~Found(id) \/ nodes[id] = ptr.prev[Sentinel]
  <2>1. Returns("MoveToBack", id, 0)
    BY <1>3 DEF MoveToBack, MoveTo
  <2>2. Sound(w, n)'
    BY <1>2, <2>1, ReturnsSound
  <2>3. Found(id) => n # 0
    BY <1>1 DEF Ends, Found
  <2>4. Found(id) => nodes[id] = w[n]
    BY <1>1, <1>3, <2>3 DEF Ends
  <2> QED
    BY <2>2, <2>3, <2>4
<1>4. CASE Found(id) /\ nodes[id] # ptr.prev[Sentinel]
  <2>1. PICK k \in 1 .. n : nodes[id] = w[k]
    BY <1>1, <1>4 DEF Ends, Found
  <2>2. /\ ptr' = InsertBefore(Unlink(ptr, w[k]), Sentinel, w[k])
        /\ Call("MoveToBack", id, 0) /\ UNCHANGED <<val, idOf, mem, nodes, free, nextId>>
    BY <1>4, <2>1 DEF MoveToBack, MoveTo
  <2>3. n - 1 \in 0 .. n - 1 /\ (n - 1) + 1 \notin 1 .. n - 1
    BY <1>2
  <2>4. CellAt(Removed(w, n, k), (n - 1) + 1) = Sentinel
    BY <2>3 DEF CellAt, Removed
  <2>5. ptr' = InsertBefore(Unlink(ptr, w[k]), CellAt(Removed(w, n, k), (n - 1) + 1), w[k])
    BY <2>2, <2>4
  <2>6. Sound(Inserted(Removed(w, n, k), n - 1, n - 1, w[k]), n)'
    BY <1>2, <2>2, <2>3, <2>5, MoveSound
  <2> QED
    BY <1>4, <2>1, <2>6
<1> QED
  BY <1>3, <1>4

LEMMA QuerySound ==
    ASSUME NEW n, NEW w, Sound(w, n), NEW id \in Ids,
           First \/ Last \/ Size \/ GetValue(id) \/ NextOf(id) \/ PrevOf(id)
    PROVE  Sound(w, n)'
<1>1. {"First", "Last", "Size", "GetValue", "Next", "Prev"} \subseteq Ops
  BY DEF Ops
<1>2. Ends(w, n) /\ TypeOK /\ MapExact /\ LinkedInv
  BY ListEnds DEF Sound, LinkedInv
<1>3. RingClosed
  BY <1>2, LinkedCloses DEF TypeOK
<1>4. \A c \in mem \cup {Sentinel} : IdOfCell(c) \in Int
  BY <1>2 DEF IdOfCell, TypeOK, Ids
<1>5. Found(id) => nodes[id] \in mem /\ val[nodes[id]] \in Int
  BY <1>2, ListAssumption DEF Found, MapExact, TypeOK, ListAssumption
<1>6. Cardinality(DOMAIN nodes) \in Int
  <2>1. IsFiniteSet(Ids)
    BY ListAssumption, FS_Interval DEF Ids, ListAssumption
  <2>2. IsFiniteSet(DOMAIN nodes)
    BY <1>2, <2>1, FS_Subset DEF TypeOK
  <2> QED
    BY <2>2, FS_CardinalityType
<1>7. \A c \in mem \cup {Sentinel} : IdOfCell(ptr.next[c]) \in Int /\ IdOfCell(ptr.prev[c]) \in Int
  BY <1>3, <1>4 DEF RingClosed
<1>8. CASE First
  BY <1>1, <1>7, <1>8, ReturnsSound DEF First
<1>9. CASE Last
  BY <1>1, <1>7, <1>9, ReturnsSound DEF Last
<1>10. CASE Size
  BY <1>1, <1>6, <1>10, ReturnsSound DEF Size
<1>11. CASE GetValue(id)
  BY <1>1, <1>5, <1>11, ReturnsSound DEF GetValue
<1>12. CASE NextOf(id)
  BY <1>1, <1>5, <1>7, <1>12, ReturnsSound DEF NextOf
<1>13. CASE PrevOf(id)
  BY <1>1, <1>5, <1>7, <1>13, ReturnsSound DEF PrevOf
<1> QED
  BY <1>8, <1>9, <1>10, <1>11, <1>12, <1>13

IndInv == \E n, w : Sound(w, n)

LEMMA StepSound == IndInv /\ [Next]_vars => IndInv'
<1> SUFFICES ASSUME IndInv, [Next]_vars PROVE IndInv'
  OBVIOUS
<1>1. PICK n, w : Sound(w, n)
  BY DEF IndInv
<1>2. \A m, v : Sound(v, m)' => IndInv'
  BY DEF IndInv
<1>3. CASE UNCHANGED vars
  <2>1. Sound(w, n)'
    BY <1>1, <1>3 DEF Sound, TypeOK, MapExact, IdsFresh, vars
  <2> QED
    BY <1>2, <2>1
<1>4. ASSUME NEW a \in Addr, NEW v \in Value, PushFront(a, v) \/ PushBack(a, v) PROVE IndInv'
  BY <1>1, <1>2, <1>4, PushFrontSound, PushBackSound
<1>5. CASE PopFront
  BY <1>1, <1>2, <1>5, PopFrontSound
<1>6. CASE PopBack
  BY <1>1, <1>2, <1>6, PopBackSound
<1>7. CASE First \/ Last \/ Size
  <2>1. 1 \in Ids
    BY ListAssumption DEF Ids, ListAssumption
  <2> QED
    BY <1>1, <1>2, <1>7, <2>1, QuerySound
<1>8. CASE Clear
  BY <1>1, <1>2, <1>8, ClearSound
<1>9. ASSUME NEW id \in Ids, Remove(id) PROVE IndInv'
  BY <1>1, <1>2, <1>9, RemoveSound
<1>10. ASSUME NEW id \in Ids, MoveToFront(id) PROVE IndInv'
  BY <1>1, <1>2, <1>10, MoveToFrontSound
<1>11. ASSUME NEW id \in Ids, MoveToBack(id) PROVE IndInv'
  BY <1>1, <1>2, <1>11, MoveToBackSound
<1>12. ASSUME NEW id \in Ids, GetValue(id) \/ NextOf(id) \/ PrevOf(id) PROVE IndInv'
  BY <1>1, <1>2, <1>12, QuerySound
<1>13. ASSUME NEW id \in Ids, NEW v \in Value, SetValue(id, v) PROVE IndInv'
  BY <1>1, <1>2, <1>13, SetValueSound
<1>14. ASSUME NEW a \in Injections(Len(Walk)), Copy(a) PROVE IndInv'
  <2>1. Walk = w /\ a \in Injections(n)
    BY <1>1, ListEnds DEF Ends
  <2> QED
    BY <1>1, <1>2, <1>14, <2>1, CopySound
<1> QED
  BY <1>3, <1>4, <1>5, <1>6, <1>7, <1>8, <1>9, <1>10, <1>11, <1>12, <1>13, <1>14 DEF Next

\* After every call the list is sound: the ring is closed in both directions, the map
\* of ids is exact and no id is given out that is in use (linked_list.cpp).
THEOREM ListSound == Spec => []ListInv
<1>1. Init => IndInv
  BY InitSound DEF IndInv
<1>2. IndInv => ListInv
  BY LinkedCloses DEF IndInv, Sound, ListInv, LinkedInv, TypeOK
<1> QED
  BY <1>1, <1>2, StepSound, PTL DEF Spec

-----------------------------------------------------------------------------
(* Sequences: the operations of ListSpec in terms of Inserted and Removed  *)

LEMMA PrependInserts ==
    ASSUME NEW S, NEW s \in Seq(S), NEW e \in S
    PROVE  <<e>> \o s = Inserted(s, Len(s), 0, e)
<1> DEFINE c == <<e>> \o s
           d == Inserted(s, Len(s), 0, e)
<1>1. c \in Seq(S) /\ Len(c) = Len(s) + 1 /\ Len(s) \in Nat
  OBVIOUS
<1>2. \A i \in 1 .. Len(s) + 1 : c[i] = IF i = 1 THEN e ELSE s[i - 1]
  OBVIOUS
<1>3. c = [i \in 1 .. Len(s) + 1 |-> c[i]]
  BY <1>1
<1>4. d = [i \in 1 .. Len(s) + 1 |-> IF i <= 0 THEN s[i] ELSE IF i = 0 + 1 THEN e ELSE s[i - 1]]
  BY DEF Inserted
<1> HIDE DEF c, d
<1>5. \A i \in 1 .. Len(s) + 1 : d[i] = IF i = 1 THEN e ELSE s[i - 1]
  BY <1>1, <1>4
<1> QED
  BY <1>2, <1>3, <1>4, <1>5 DEF c, d

LEMMA AppendInserts ==
    ASSUME NEW S, NEW s \in Seq(S), NEW e \in S
    PROVE  Append(s, e) = Inserted(s, Len(s), Len(s), e)
<1> DEFINE c == Append(s, e)
           d == Inserted(s, Len(s), Len(s), e)
           n == Len(s)
<1>1. c \in Seq(S) /\ Len(c) = n + 1 /\ n \in Nat
  OBVIOUS
<1>2. \A i \in 1 .. n + 1 : c[i] = IF i = n + 1 THEN e ELSE s[i]
  OBVIOUS
<1> HIDE DEF c
<1>3. c = [i \in 1 .. n + 1 |-> c[i]]
  BY <1>1
<1>4. d = [i \in 1 .. n + 1 |-> IF i <= n THEN s[i] ELSE IF i = n + 1 THEN e ELSE s[i - 1]]
  BY DEF Inserted
<1> HIDE DEF d, n
<1>5. \A i \in 1 .. n + 1 : d[i] = IF i = n + 1 THEN e ELSE s[i]
  BY <1>1, <1>4
<1> QED
  BY <1>2, <1>3, <1>4, <1>5 DEF c, d, n

LEMMA CutRemoves ==
    ASSUME NEW S, NEW s \in Seq(S), NEW k \in 1 .. Len(s)
    PROVE  /\ SubSeq(s, 1, k - 1) \o SubSeq(s, k + 1, Len(s)) = Removed(s, Len(s), k)
           /\ Removed(s, Len(s), k) \in Seq(S) /\ Len(Removed(s, Len(s), k)) = Len(s) - 1
<1> DEFINE n == Len(s)
           f == SubSeq(s, 1, k - 1)
           b == SubSeq(s, k + 1, n)
           c == f \o b
           d == Removed(s, n, k)
<1>0. n \in Nat /\ k \in 1 .. n
  OBVIOUS
<1>1. f \in Seq(S) /\ Len(f) = k - 1 /\ \A i \in 1 .. k - 1 : f[i] = s[i]
  OBVIOUS
<1>2. b \in Seq(S) /\ Len(b) = n - k /\ \A i \in 1 .. n - k : b[i] = s[i + k]
  OBVIOUS
<1> HIDE DEF f, b, n
<1>3. c \in Seq(S) /\ Len(c) = n - 1
  <2>1. c \in Seq(S) /\ Len(c) = Len(f) + Len(b)
    BY <1>1, <1>2, ConcatProperties
  <2>2. (k - 1) + (n - k) = n - 1
    BY <1>0
  <2> QED
    BY <1>1, <1>2, <2>1, <2>2
<1>4. \A i \in 1 .. n - 1 : c[i] = IF i < k THEN s[i] ELSE s[i + 1]
  <2> SUFFICES ASSUME NEW i \in 1 .. n - 1 PROVE c[i] = IF i < k THEN s[i] ELSE s[i + 1]
    OBVIOUS
  <2>1. CASE i < k
    BY <1>0, <1>1, <1>2, <2>1
  <2>2. CASE i >= k
    <3>1. c[i] = b[i - (k - 1)] /\ i - (k - 1) \in 1 .. n - k /\ (i - (k - 1)) + k = i + 1
      BY <1>0, <1>1, <1>2, <2>2
    <3> QED
      BY <1>0, <1>2, <2>2, <3>1
  <2>3. i < k \/ i >= k
    BY <1>0
  <2> HIDE DEF c
  <2> QED
    BY <2>1, <2>2, <2>3
<1> HIDE DEF c
<1>5. c = [i \in 1 .. n - 1 |-> c[i]]
  BY <1>3
<1>6. c = d
  BY <1>4, <1>5 DEF Removed
<1> QED
  BY <1>3, <1>6 DEF n, f, b, c, d

-----------------------------------------------------------------------------
(* The list in memory implements the sequence                              *)

Element == [id : Ids, value : Value]
View(w, n) == [i \in 1 .. n |-> [id |-> idOf[w[i]], value |-> val[w[i]]]]

\* What the plugin sees of the list w[1] .. w[n]: its elements, and where their ids are
Seen(w, n) ==
    /\ n \in Nat /\ w \in [1 .. n -> mem]
    /\ Elements = View(w, n) /\ Elements \in Seq(Element) /\ Len(Elements) = n
    /\ \A i \in 1 .. n : /\ Elements[i] = [id |-> idOf[w[i]], value |-> val[w[i]]]
                         /\ Elements[i] \in Element
    /\ Abstract!IdsIn(Elements) = DOMAIN nodes
    /\ \A id : Abstract!Has(id) <=> Found(id)
    /\ \A id \in DOMAIN nodes, k \in 1 .. n : nodes[id] = w[k] => Abstract!At(id) = k

LEMMA ListSeen ==
    ASSUME NEW n, NEW w, Sound(w, n) PROVE Seen(w, n)
<1>1. Ends(w, n) /\ TypeOK /\ MapExact /\ Lists(w, n, mem)
  BY ListEnds DEF Sound, Linked
<1>2. n \in Nat /\ w \in [1 .. n -> mem] /\ Walk = w /\ DOMAIN w = 1 .. n
  BY <1>1 DEF Ends
<1>3. Elements = View(w, n)
  BY <1>2 DEF Elements, View
<1>4. \A c \in mem : idOf[c] \in Ids /\ val[c] \in Value /\ idOf[c] \in DOMAIN nodes /\ nodes[idOf[c]] = c
  BY <1>1 DEF TypeOK, MapExact
<1>5. \A i \in 1 .. n : /\ Elements[i] = [id |-> idOf[w[i]], value |-> val[w[i]]]
                        /\ Elements[i] \in Element
  BY <1>2, <1>3, <1>4 DEF View, Element
<1>6. Elements \in Seq(Element) /\ Len(Elements) = n /\ DOMAIN Elements = 1 .. n
  <2>1. Elements \in [1 .. n -> Element]
    BY <1>3, <1>5 DEF View
  <2> QED
    BY <1>2, <2>1
<1>7. \A i \in 1 .. n : Elements[i].id = idOf[w[i]] /\ w[i] \in mem
  <2> SUFFICES ASSUME NEW i \in 1 .. n PROVE Elements[i].id = idOf[w[i]] /\ w[i] \in mem
    OBVIOUS
  <2>1. Elements[i] = [id |-> idOf[w[i]], value |-> val[w[i]]]
    BY <1>5
  <2> HIDE DEF Elements
  <2> QED
    BY <1>2, <2>1
<1>8. Abstract!IdsIn(Elements) = DOMAIN nodes
  <2>1. Abstract!IdsIn(Elements) = {idOf[w[i]] : i \in 1 .. n}
    BY <1>6, <1>7 DEF Abstract!IdsIn
  <2>2. \A id \in DOMAIN nodes : \E i \in 1 .. n : idOf[w[i]] = id
    BY <1>1 DEF Lists, MapExact
  <2> QED
    BY <1>4, <1>7, <2>1, <2>2
<1>9. \A id : Abstract!Has(id) <=> Found(id)
  BY <1>8 DEF Abstract!Has, Found
<1>10. ASSUME NEW id \in DOMAIN nodes, NEW k \in 1 .. n, nodes[id] = w[k]
       PROVE  Abstract!At(id) = k
  <2>1. idOf[w[k]] = id
    BY <1>1, <1>10 DEF MapExact
  <2>2. \A i \in 1 .. n : idOf[w[i]] = id => i = k
    BY <1>1, <1>4, <1>7, <1>10 DEF Lists
  <2>3. \A i \in DOMAIN Elements : Elements[i].id = id <=> i = k
    BY <1>6, <1>7, <2>1, <2>2
  <2>4. k \in DOMAIN Elements
    BY <1>6
  <2> QED
    BY <2>3, <2>4 DEF Abstract!At
<1> QED
  BY <1>2, <1>3, <1>5, <1>6, <1>8, <1>9, <1>10 DEF Seen

EndsFollow == \A n, w : Sound(w, n) => Ends(w, n)

LEMMA AllEnds == EndsFollow
BY ListEnds DEF EndsFollow

\* What it sees after a call
LEMMA NextView ==
    ASSUME NEW n, NEW w, Sound(w, n)' PROVE Elements' = View(w, n)'
<1>1. EndsFollow'
  BY AllEnds, PTL
<1>2. Ends(w, n)'
  BY <1>1 DEF EndsFollow
<1>3. Walk' = w /\ DOMAIN w = 1 .. n
  BY <1>2 DEF Ends
<1> QED
  BY <1>3 DEF Elements, View

LEMMA InitRefines == Init => Abstract!Init
<1> SUFFICES ASSUME Init PROVE Abstract!Init
  OBVIOUS
<1>1. Seen(<<>>, 0)
  BY InitSound, ListSeen
<1>2. Elements = <<>>
  BY <1>1 DEF Seen
<1> QED
  BY <1>2 DEF Init, Abstract!Init

LEMMA PushView ==
    ASSUME NEW n, NEW w, Sound(w, n), NEW op, NEW a \in Addr, NEW v \in Value,
           NEW k \in 0 .. n, NEW pos, Push(op, a, v, pos), Sound(Inserted(w, n, k, a), n + 1)'
    PROVE  /\ NextId.id \in Ids \ DOMAIN nodes
           /\ Elements' = Inserted(Elements, n, k, [id |-> NextId.id, value |-> v])
<1>1. Seen(w, n) /\ TypeOK /\ IdsFresh /\ HasId /\ a \notin mem /\ mem \subseteq Addr
  BY ListSeen DEF Sound, Push, TypeOK
<1>2. NextId.id \in Ids \ DOMAIN nodes
  BY <1>1, NextIdIsFresh DEF NextIdFresh
<1> DEFINE u == Inserted(w, n, k, a)
           e == [id |-> NextId.id, value |-> v]
<1>3. Elements' = [i \in 1 .. n + 1 |-> [id |-> idOf'[u[i]], value |-> val'[u[i]]]]
  BY NextView DEF View
<1>4. idOf' = [idOf EXCEPT ![a] = NextId.id] /\ val' = [val EXCEPT ![a] = v]
  BY DEF Push
<1>5. n \in Nat /\ w \in [1 .. n -> mem] /\ idOf \in [Addr -> Ids \cup {0}] /\ val \in [Addr -> Value]
  BY <1>1 DEF Seen, TypeOK
<1>6. \A c \in mem : idOf'[c] = idOf[c] /\ val'[c] = val[c]
  BY <1>1, <1>4, <1>5
<1>7. idOf'[a] = NextId.id /\ val'[a] = v
  BY <1>4, <1>5
<1>8. \A i \in 1 .. n + 1 : u[i] = IF i <= k THEN w[i] ELSE IF i = k + 1 THEN a ELSE w[i - 1]
  BY DEF Inserted
<1> HIDE DEF u
<1>9. \A i \in 1 .. n : Elements[i] = [id |-> idOf'[w[i]], value |-> val'[w[i]]]
  <2>1. \A i \in 1 .. n : /\ Elements[i] = [id |-> idOf[w[i]], value |-> val[w[i]]]
                          /\ w[i] \in mem
    BY <1>1 DEF Seen
  <2> QED
    BY <1>6, <2>1
<1>10. ASSUME NEW i \in 1 .. n + 1
       PROVE  [id |-> idOf'[u[i]], value |-> val'[u[i]]] =
              IF i <= k THEN Elements[i] ELSE IF i = k + 1 THEN e ELSE Elements[i - 1]
  <2>1. CASE i <= k
    <3>1. i \in 1 .. n /\ u[i] = w[i]
      BY <1>5, <1>8, <2>1
    <3> QED
      BY <1>9, <2>1, <3>1
  <2>2. CASE i = k + 1
    <3>1. u[i] = a /\ ~(i <= k)
      BY <1>5, <1>8, <2>2
    <3> QED
      BY <1>7, <2>2, <3>1
  <2>3. CASE i > k + 1
    <3>1. i - 1 \in 1 .. n /\ u[i] = w[i - 1] /\ ~(i <= k) /\ i # k + 1
      BY <1>5, <1>8, <2>3
    <3> QED
      BY <1>9, <2>3, <3>1
  <2> QED
    BY <1>5, <2>1, <2>2, <2>3
<1> HIDE DEF e
<1>11. Elements' = Inserted(Elements, n, k, e)
  BY <1>3, <1>10 DEF Inserted
<1> QED
  BY <1>2, <1>11 DEF e

LEMMA PushFrontRefines ==
    ASSUME NEW n, NEW w, Sound(w, n), NEW a \in Addr, NEW v \in Value, PushFront(a, v)
    PROVE  Abstract!PushFront
<1>1. Sound(Inserted(w, n, 0, a), n + 1)' /\ Seen(w, n)
  BY PushFrontSound, ListSeen
<1>2. 0 \in 0 .. n /\ Push("PushFront", a, v, ptr.next[Sentinel])
  BY <1>1 DEF PushFront, Seen
<1> DEFINE id == NextId.id
           e == [id |-> id, value |-> v]
<1>3. id \in Ids \ DOMAIN nodes /\ Elements' = Inserted(Elements, n, 0, e)
  BY <1>1, <1>2, PushView
<1>4. out' = [op |-> "PushFront", id |-> 0, ret |-> id]
  BY <1>2 DEF Push, Call
<1> HIDE DEF id
<1>5. e \in Element
  BY <1>3 DEF Element
<1>6. Elements' = <<e>> \o Elements
  BY <1>1, <1>3, <1>5, PrependInserts DEF Seen
<1>7. id \in Ids \ Abstract!IdsIn(Elements)
  BY <1>1, <1>3 DEF Seen
<1> QED
  BY <1>4, <1>6, <1>7 DEF Abstract!PushFront, Abstract!Call

LEMMA PushBackRefines ==
    ASSUME NEW n, NEW w, Sound(w, n), NEW a \in Addr, NEW v \in Value, PushBack(a, v)
    PROVE  Abstract!PushBack
<1>1. Sound(Inserted(w, n, n, a), n + 1)' /\ Seen(w, n)
  BY PushBackSound, ListSeen
<1>2. n \in 0 .. n /\ Push("PushBack", a, v, Sentinel)
  BY <1>1 DEF PushBack, Seen
<1> DEFINE id == NextId.id
           e == [id |-> id, value |-> v]
<1>3. id \in Ids \ DOMAIN nodes /\ Elements' = Inserted(Elements, n, n, e)
  BY <1>1, <1>2, PushView
<1>4. out' = [op |-> "PushBack", id |-> 0, ret |-> id]
  BY <1>2 DEF Push, Call
<1> HIDE DEF id
<1>5. e \in Element
  BY <1>3 DEF Element
<1>6. Elements' = Append(Elements, e)
  BY <1>1, <1>3, <1>5, AppendInserts DEF Seen
<1>7. id \in Ids \ Abstract!IdsIn(Elements)
  BY <1>1, <1>3 DEF Seen
<1> QED
  BY <1>4, <1>6, <1>7 DEF Abstract!PushBack, Abstract!Call

LEMMA SameView ==
    ASSUME NEW n, NEW w, Sound(w, n), Sound(w, n)', idOf' = idOf, val' = val
    PROVE  Elements' = Elements
<1>1. Elements = View(w, n)
  BY ListSeen DEF Seen
<1>2. Elements' = View(w, n)'
  BY NextView
<1> QED
  BY <1>1, <1>2 DEF View

LEMMA DeleteRefines ==
    ASSUME NEW n, NEW w, Sound(w, n), NEW op, NEW id, NEW k \in 1 .. n, Delete(op, id, w[k]),
           Sound(Removed(w, n, k), n - 1)'
    PROVE  Abstract!Take(op, id, k)
<1>1. Seen(w, n) /\ TypeOK /\ mem \subseteq Addr /\ Lists(w, n, mem)
  BY ListSeen DEF Sound, TypeOK, Linked
<1> DEFINE u == Removed(w, n, k)
<1>2. Elements' = [i \in 1 .. n - 1 |-> [id |-> idOf'[u[i]], value |-> val'[u[i]]]]
  BY NextView DEF View
<1>3. idOf' = [idOf EXCEPT ![w[k]] = 0] /\ val' = [val EXCEPT ![w[k]] = 0]
      /\ out' = [op |-> op, id |-> id, ret |-> val[w[k]]]
  BY DEF Delete, Call
<1>4. /\ n \in Nat /\ w \in [1 .. n -> mem]
      /\ idOf \in [Addr -> Ids \cup {0}] /\ val \in [Addr -> Value]
      /\ \A i \in 1 .. n : i # k => w[i] # w[k]
  BY <1>1 DEF Seen, TypeOK, Lists
<1>5. \A i \in 1 .. n : i # k => idOf'[w[i]] = idOf[w[i]] /\ val'[w[i]] = val[w[i]]
  BY <1>1, <1>3, <1>4
<1>6. \A i \in 1 .. n : Elements[i] = [id |-> idOf[w[i]], value |-> val[w[i]]]
  BY <1>1 DEF Seen
<1>7. \A i \in 1 .. n - 1 : u[i] = IF i < k THEN w[i] ELSE w[i + 1]
  BY DEF Removed
<1> HIDE DEF u
<1>8. ASSUME NEW i \in 1 .. n - 1
      PROVE  [id |-> idOf'[u[i]], value |-> val'[u[i]]] =
             IF i < k THEN Elements[i] ELSE Elements[i + 1]
  <2>1. CASE i < k
    <3>1. i \in 1 .. n /\ i # k /\ u[i] = w[i]
      BY <1>4, <1>7, <2>1
    <3> QED
      BY <1>5, <1>6, <2>1, <3>1
  <2>2. CASE ~(i < k)
    <3>1. i + 1 \in 1 .. n /\ i + 1 # k /\ u[i] = w[i + 1]
      BY <1>4, <1>7, <2>2
    <3> QED
      BY <1>5, <1>6, <2>2, <3>1
  <2> QED
    BY <2>1, <2>2
<1>9. Elements' = Removed(Elements, n, k)
  BY <1>2, <1>8 DEF Removed
<1>10. Elements \in Seq(Element) /\ Len(Elements) = n /\ k \in DOMAIN Elements
  BY <1>1 DEF Seen
<1>11. Elements' = Abstract!Without(k)
  BY <1>9, <1>10, CutRemoves DEF Abstract!Without
<1>12. Elements[k].value = val[w[k]]
  <2>1. Elements[k] = [id |-> idOf[w[k]], value |-> val[w[k]]]
    BY <1>6
  <2> HIDE DEF Elements
  <2> QED
    BY <2>1
<1> QED
  BY <1>3, <1>10, <1>11, <1>12 DEF Abstract!Take, Abstract!Call

LEMMA PopRefines ==
    ASSUME NEW n, NEW w, Sound(w, n), PopFront \/ PopBack
    PROVE  Abstract!PopFront \/ Abstract!PopBack
<1>1. Seen(w, n) /\ Ends(w, n)
  BY ListSeen, ListEnds
<1>2. n \in Nat /\ Elements \in Seq(Element) /\ Len(Elements) = n /\ DOMAIN Elements = 1 .. n
  BY <1>1 DEF Seen
<1>3. ASSUME n = 0, NEW op \in {"PopFront", "PopBack"}, Returns(op, 0, 0), Sound(w, n)', NEW k \in Nat, k \notin 1 .. n
      PROVE  Abstract!Take(op, 0, k)
  <2>1. Elements' = Elements /\ out' = [op |-> op, id |-> 0, ret |-> 0]
    BY <1>3, SameView DEF Returns, Call
  <2> QED
    BY <1>2, <1>3, <2>1 DEF Abstract!Take, Abstract!Call
<1>4. CASE PopFront
  <2>1. CASE n = 0
    <3>1. Returns("PopFront", 0, 0) /\ Sound(w, n)' /\ 1 \notin 1 .. n
      BY <1>1, <1>4, <2>1, PopFrontSound DEF PopFront, Ends
    <3> QED
      BY <1>3, <2>1, <3>1 DEF Abstract!PopFront
  <2>2. CASE n # 0
    <3>1. /\ Delete("PopFront", 0, w[1]) /\ Sound(Removed(w, n, 1), n - 1)'
          /\ 1 \in 1 .. n
      BY <1>1, <1>2, <1>4, <2>2, PopFrontSound DEF PopFront, Ends
    <3> QED
      BY <3>1, DeleteRefines DEF Abstract!PopFront
  <2> QED
    BY <2>1, <2>2
<1>5. CASE PopBack
  <2>1. CASE n = 0
    <3>1. Returns("PopBack", 0, 0) /\ Sound(w, n)' /\ n \notin 1 .. n
      BY <1>1, <1>5, <2>1, PopBackSound DEF PopBack, Ends
    <3> QED
      BY <1>2, <1>3, <2>1, <3>1 DEF Abstract!PopBack
  <2>2. CASE n # 0
    <3>1. /\ Delete("PopBack", 0, w[n]) /\ Sound(Removed(w, n, n), n - 1)'
          /\ n \in 1 .. n
      BY <1>1, <1>2, <1>5, <2>2, PopBackSound DEF PopBack, Ends
    <3>2. Abstract!Take("PopBack", 0, n)
      BY <3>1, DeleteRefines
    <3> QED
      BY <1>2, <3>2 DEF Abstract!PopBack
  <2> QED
    BY <2>1, <2>2
<1> QED
  BY <1>4, <1>5

LEMMA RemoveRefines ==
    ASSUME NEW n, NEW w, Sound(w, n), NEW id \in Ids, Remove(id)
    PROVE  Abstract!Remove(id)
<1>1. Seen(w, n)
  BY ListSeen
<1>2. n \in Nat /\ Elements \in Seq(Element) /\ Len(Elements) = n /\ DOMAIN Elements = 1 .. n
      /\ (Abstract!Has(id) <=> Found(id))
  BY <1>1 DEF Seen
<1>3. CASE ~Found(id)
  <2>1. Returns("Remove", id, 0) /\ Sound(w, n)'
    BY <1>3, RemoveSound DEF Remove
  <2>2. Elements' = Elements /\ out' = [op |-> "Remove", id |-> id, ret |-> 0]
    BY <2>1, SameView DEF Returns, Call
  <2>3. 0 \notin DOMAIN Elements
    BY <1>2
  <2> QED
    BY <1>2, <1>3, <2>2, <2>3 DEF Abstract!Remove, Abstract!Take, Abstract!Call
<1>4. CASE Found(id)
  <2>1. PICK k \in 1 .. n : nodes[id] = w[k] /\ Sound(Removed(w, n, k), n - 1)'
    BY <1>4, RemoveSound
  <2>2. Delete("Remove", id, w[k])
    BY <1>4, <2>1 DEF Remove
  <2>3. Abstract!Take("Remove", id, k)
    BY <2>1, <2>2, DeleteRefines
  <2>4. Abstract!At(id) = k
    BY <1>1, <1>4, <2>1 DEF Seen, Found
  <2> QED
    BY <1>2, <1>4, <2>3, <2>4 DEF Abstract!Remove
<1> QED
  BY <1>3, <1>4

\* What is taken out of a sequence at an end and put back there makes it the same.
LEMMA PutBack ==
    ASSUME NEW S, NEW s \in Seq(S), NEW n, n = Len(s), n # 0
    PROVE  /\ Inserted(Removed(s, n, 1), n - 1, 0, s[1]) = s
           /\ Inserted(Removed(s, n, n), n - 1, n - 1, s[n]) = s
<1>0. n \in Nat /\ (n - 1) + 1 = n
  OBVIOUS
<1>1. s = [i \in 1 .. n |-> s[i]]
  OBVIOUS
<1>2. Inserted(Removed(s, n, 1), n - 1, 0, s[1]) = s
  <2> DEFINE r == Removed(s, n, 1)
             t == Inserted(r, n - 1, 0, s[1])
  <2>1. \A i \in 1 .. n - 1 : r[i] = s[i + 1]
    BY <1>0 DEF Removed
  <2> HIDE DEF r
  <2>2. t = [i \in 1 .. n |-> IF i <= 0 THEN r[i] ELSE IF i = 0 + 1 THEN s[1] ELSE r[i - 1]]
    BY <1>0 DEF Inserted
  <2> HIDE DEF t
  <2>3. ASSUME NEW i \in 1 .. n PROVE t[i] = s[i]
    <3>1. CASE i = 1
      BY <1>0, <2>2, <3>1
    <3>2. CASE i # 1
      <4>1. i - 1 \in 1 .. n - 1 /\ (i - 1) + 1 = i /\ ~(i <= 0)
        BY <1>0, <3>2
      <4>2. t[i] = r[i - 1]
        BY <2>2, <3>2, <4>1
      <4>3. r[i - 1] = s[(i - 1) + 1]
        BY <2>1, <4>1
      <4> QED
        BY <4>1, <4>2, <4>3
    <3> QED
      BY <3>1, <3>2
  <2> QED
    BY <1>1, <2>2, <2>3 DEF t, r
<1>3. Inserted(Removed(s, n, n), n - 1, n - 1, s[n]) = s
  <2> DEFINE r == Removed(s, n, n)
             t == Inserted(r, n - 1, n - 1, s[n])
  <2>1. \A i \in 1 .. n - 1 : r[i] = s[i]
    BY <1>0 DEF Removed
  <2> HIDE DEF r
  <2>2. t = [i \in 1 .. n |-> IF i <= n - 1 THEN r[i] ELSE IF i = (n - 1) + 1 THEN s[n] ELSE r[i - 1]]
    BY <1>0 DEF Inserted
  <2> HIDE DEF t
  <2>3. ASSUME NEW i \in 1 .. n PROVE t[i] = s[i]
    <3>1. CASE i = n
      <4>1. ~(i <= n - 1) /\ i = (n - 1) + 1
        BY <1>0, <3>1
      <4> QED
        BY <2>2, <3>1, <4>1
    <3>2. CASE i # n
      <4>1. i \in 1 .. n - 1 /\ i <= n - 1
        BY <1>0, <3>2
      <4>2. t[i] = r[i]
        BY <2>2, <4>1
      <4> QED
        BY <2>1, <4>1, <4>2
    <3> QED
      BY <3>1, <3>2
  <2> QED
    BY <1>1, <2>2, <2>3 DEF t, r
<1> QED
  BY <1>2, <1>3

LEMMA MoveView ==
    ASSUME NEW n, NEW w, Sound(w, n), NEW k \in 1 .. n, NEW j \in 0 .. n - 1,
           Sound(Inserted(Removed(w, n, k), n - 1, j, w[k]), n)', idOf' = idOf, val' = val
    PROVE  Elements' = Inserted(Removed(Elements, n, k), n - 1, j, Elements[k])
<1>1. Seen(w, n)
  BY ListSeen
<1>2. n \in Nat /\ (n - 1) + 1 = n
  BY <1>1 DEF Seen
<1> DEFINE r == Removed(w, n, k)
           u == Inserted(r, n - 1, j, w[k])
           R == Removed(Elements, n, k)
           e(c) == [id |-> idOf[c], value |-> val[c]]
<1>3. Elements' = [i \in 1 .. n |-> e(u[i])]
  BY NextView DEF View
<1>4. \A i \in 1 .. n : Elements[i] = e(w[i])
  BY <1>1 DEF Seen
<1> HIDE DEF e
<1>5. \A i \in 1 .. n - 1 : R[i] = e(r[i])
  <2>1. \A i \in 1 .. n - 1 : r[i] = IF i < k THEN w[i] ELSE w[i + 1]
    BY DEF Removed
  <2>2. \A i \in 1 .. n - 1 : R[i] = IF i < k THEN Elements[i] ELSE Elements[i + 1]
    BY DEF Removed
  <2>3. \A i \in 1 .. n - 1 : i \in 1 .. n /\ i + 1 \in 1 .. n
    BY <1>2
  <2> HIDE DEF r, R
  <2> QED
    BY <1>4, <2>1, <2>2, <2>3
<1> HIDE DEF r, R
<1>6. \A i \in 1 .. n : u[i] = IF i <= j THEN r[i] ELSE IF i = j + 1 THEN w[k] ELSE r[i - 1]
  BY <1>2 DEF Inserted
<1> HIDE DEF u
<1>7. ASSUME NEW i \in 1 .. n
      PROVE  e(u[i]) = IF i <= j THEN R[i] ELSE IF i = j + 1 THEN Elements[k] ELSE R[i - 1]
  <2>1. CASE i <= j
    <3>1. i \in 1 .. n - 1
      BY <1>2, <2>1
    <3> QED
      BY <1>5, <1>6, <2>1, <3>1
  <2>2. CASE i = j + 1
    BY <1>2, <1>4, <1>6, <2>2
  <2>3. CASE i > j + 1
    <3>1. i - 1 \in 1 .. n - 1 /\ ~(i <= j) /\ i # j + 1
      BY <1>2, <2>3
    <3> QED
      BY <1>5, <1>6, <3>1
  <2> QED
    BY <1>2, <2>1, <2>2, <2>3
<1>8. Inserted(R, n - 1, j, Elements[k]) =
      [i \in 1 .. n |-> IF i <= j THEN R[i] ELSE IF i = j + 1 THEN Elements[k] ELSE R[i - 1]]
  BY <1>2 DEF Inserted
<1>9. Elements' = Inserted(R, n - 1, j, Elements[k])
  BY <1>3, <1>7, <1>8
<1> QED
  BY <1>9 DEF R

LEMMA MoveToFrontRefines ==
    ASSUME NEW n, NEW w, Sound(w, n), NEW id \in Ids, MoveToFront(id)
    PROVE  Abstract!MoveToFront(id)
<1>1. Seen(w, n)
  BY ListSeen
<1>2. /\ n \in Nat /\ Elements \in Seq(Element) /\ Len(Elements) = n
      /\ (Abstract!Has(id) <=> Found(id))
      /\ \A k \in 1 .. n : Found(id) /\ nodes[id] = w[k] => Abstract!At(id) = k
      /\ \A i \in 1 .. n : Elements[i] \in Element
  BY <1>1 DEF Seen, Found
<1>3. /\ out' = [op |-> "MoveToFront", id |-> id, ret |-> 0]
      /\ idOf' = idOf /\ val' = val
  BY DEF MoveToFront, MoveTo, Returns, Call
<1>4. CASE ~Found(id) /\ Sound(w, n)'
  <2>1. Elements' = Elements
    BY <1>3, <1>4, SameView
  <2> QED
    BY <1>2, <1>3, <1>4, <2>1 DEF Abstract!MoveToFront, Abstract!Call
<1>5. ASSUME Found(id), NEW k \in 1 .. n, nodes[id] = w[k],
             Elements' = Inserted(Removed(Elements, n, k), n - 1, 0, Elements[k])
      PROVE  Abstract!MoveToFront(id)
  <2> DEFINE R == Removed(Elements, n, k)
  <2>1. R = Abstract!Without(k) /\ R \in Seq(Element) /\ Len(R) = n - 1
    BY <1>2, CutRemoves DEF Abstract!Without
  <2> HIDE DEF R
  <2>2. <<Elements[k]>> \o R = Inserted(R, n - 1, 0, Elements[k])
    BY <1>2, <2>1, PrependInserts
  <2>3. Elements' = <<Elements[k]>> \o Abstract!Without(k)
    BY <1>5, <2>1, <2>2 DEF R
  <2>4. Abstract!At(id) = k /\ Abstract!Has(id)
    BY <1>2, <1>5
  <2> QED
    BY <1>3, <2>3, <2>4 DEF Abstract!MoveToFront, Abstract!Call
<1>6. CASE Found(id) /\ n # 0 /\ nodes[id] = w[1] /\ Sound(w, n)'
  <2>1. Elements' = Elements
    BY <1>3, <1>6, SameView
  <2>2. Elements = Inserted(Removed(Elements, n, 1), n - 1, 0, Elements[1])
    BY <1>2, <1>6, PutBack
  <2>3. 1 \in 1 .. n
    BY <1>2, <1>6
  <2> QED
    BY <1>5, <1>6, <2>1, <2>2, <2>3
<1>7. ASSUME Found(id), NEW k \in 1 .. n, nodes[id] = w[k],
             Sound(Inserted(Removed(w, n, k), n - 1, 0, w[k]), n)'
      PROVE  Abstract!MoveToFront(id)
  <2>1. 0 \in 0 .. n - 1
    BY <1>2
  <2>2. Elements' = Inserted(Removed(Elements, n, k), n - 1, 0, Elements[k])
    BY <1>3, <1>7, <2>1, MoveView
  <2> QED
    BY <1>5, <1>7, <2>2
<1> QED
  BY <1>4, <1>6, <1>7, MoveToFrontSound

LEMMA MoveToBackRefines ==
    ASSUME NEW n, NEW w, Sound(w, n), NEW id \in Ids, MoveToBack(id)
    PROVE  Abstract!MoveToBack(id)
<1>1. Seen(w, n)
  BY ListSeen
<1>2. /\ n \in Nat /\ Elements \in Seq(Element) /\ Len(Elements) = n
      /\ (Abstract!Has(id) <=> Found(id))
      /\ \A k \in 1 .. n : Found(id) /\ nodes[id] = w[k] => Abstract!At(id) = k
      /\ \A i \in 1 .. n : Elements[i] \in Element
  BY <1>1 DEF Seen, Found
<1>3. /\ out' = [op |-> "MoveToBack", id |-> id, ret |-> 0]
      /\ idOf' = idOf /\ val' = val
  BY DEF MoveToBack, MoveTo, Returns, Call
<1>4. CASE ~Found(id) /\ Sound(w, n)'
  <2>1. Elements' = Elements
    BY <1>3, <1>4, SameView
  <2> QED
    BY <1>2, <1>3, <1>4, <2>1 DEF Abstract!MoveToBack, Abstract!Call
<1>5. ASSUME Found(id), NEW k \in 1 .. n, nodes[id] = w[k],
             Elements' = Inserted(Removed(Elements, n, k), n - 1, n - 1, Elements[k])
      PROVE  Abstract!MoveToBack(id)
  <2> DEFINE R == Removed(Elements, n, k)
  <2>1. R = Abstract!Without(k) /\ R \in Seq(Element) /\ Len(R) = n - 1
    BY <1>2, CutRemoves DEF Abstract!Without
  <2> HIDE DEF R
  <2>2. Append(R, Elements[k]) = Inserted(R, n - 1, n - 1, Elements[k])
    BY <1>2, <2>1, AppendInserts
  <2>3. Elements' = Append(Abstract!Without(k), Elements[k])
    BY <1>5, <2>1, <2>2 DEF R
  <2>4. Abstract!At(id) = k /\ Abstract!Has(id)
    BY <1>2, <1>5
  <2> QED
    BY <1>3, <2>3, <2>4 DEF Abstract!MoveToBack, Abstract!Call
<1>6. CASE Found(id) /\ n # 0 /\ nodes[id] = w[n] /\ Sound(w, n)'
  <2>1. Elements' = Elements
    BY <1>3, <1>6, SameView
  <2>2. Elements = Inserted(Removed(Elements, n, n), n - 1, n - 1, Elements[n])
    BY <1>2, <1>6, PutBack
  <2>3. n \in 1 .. n
    BY <1>2, <1>6
  <2> QED
    BY <1>5, <1>6, <2>1, <2>2, <2>3
<1>7. ASSUME Found(id), NEW k \in 1 .. n, nodes[id] = w[k],
             Sound(Inserted(Removed(w, n, k), n - 1, n - 1, w[k]), n)'
      PROVE  Abstract!MoveToBack(id)
  <2>1. n - 1 \in 0 .. n - 1
    BY <1>2
  <2>2. Elements' = Inserted(Removed(Elements, n, k), n - 1, n - 1, Elements[k])
    BY <1>3, <1>7, <2>1, MoveView
  <2> QED
    BY <1>5, <1>7, <2>2
<1> QED
  BY <1>4, <1>6, <1>7, MoveToBackSound

LEMMA SetValueRefines ==
    ASSUME NEW n, NEW w, Sound(w, n), NEW id \in Ids, NEW v \in Value, SetValue(id, v)
    PROVE  Abstract!SetValue(id)
<1>1. Seen(w, n) /\ Ends(w, n) /\ Sound(w, n)' /\ TypeOK /\ mem \subseteq Addr /\ Lists(w, n, mem)
  <2>1. Seen(w, n) /\ Ends(w, n) /\ Sound(w, n)'
    BY ListSeen, ListEnds, SetValueSound
  <2>2. TypeOK /\ mem \subseteq Addr /\ Lists(w, n, mem)
    BY DEF Sound, TypeOK, Linked
  <2> QED
    BY <2>1, <2>2
<1>2. /\ n \in Nat /\ w \in [1 .. n -> mem] /\ Elements \in Seq(Element) /\ Len(Elements) = n
      /\ (Abstract!Has(id) <=> Found(id))
      /\ \A i \in 1 .. n : Elements[i] = [id |-> idOf[w[i]], value |-> val[w[i]]]
      /\ val \in [Addr -> Value]
  BY <1>1 DEF Seen, TypeOK
<1>3. idOf' = idOf /\ out' = [op |-> "SetValue", id |-> id, ret |-> 0]
  BY DEF SetValue, Call
<1>4. CASE ~Found(id)
  <2>1. Elements' = Elements
    BY <1>1, <1>3, <1>4, SameView DEF SetValue
  <2> QED
    BY <1>2, <1>3, <1>4, <2>1 DEF Abstract!SetValue, Abstract!Call
<1>5. CASE Found(id)
  <2>1. PICK k \in 1 .. n : nodes[id] = w[k]
    BY <1>1, <1>5 DEF Ends, Found
  <2>2. Abstract!At(id) = k
    BY <1>1, <1>5, <2>1 DEF Seen, Found
  <2>3. val' = [val EXCEPT ![w[k]] = v]
    BY <1>5, <2>1 DEF SetValue
  <2>4. val'[w[k]] = v /\ \A i \in 1 .. n : i # k => val'[w[i]] = val[w[i]]
    BY <1>1, <1>2, <2>3 DEF Lists
  <2>5. Elements' = [i \in 1 .. n |-> [id |-> idOf[w[i]], value |-> val'[w[i]]]]
    BY <1>1, <1>3, NextView DEF View
  <2> DEFINE L == Elements
             N == [L EXCEPT ![k].value = v]
  <2>6. L \in Seq(Element) /\ Len(L) = n /\ DOMAIN L = 1 .. n
        /\ \A i \in 1 .. n : L[i] = [id |-> idOf[w[i]], value |-> val[w[i]]]
    BY <1>2
  <2> HIDE DEF L
  <2>7. N = [i \in 1 .. n |-> IF i = k THEN [L[i] EXCEPT !.value = v] ELSE L[i]]
    BY <2>6
  <2>8. ASSUME NEW i \in 1 .. n
        PROVE  (IF i = k THEN [L[i] EXCEPT !.value = v] ELSE L[i])
               = [id |-> idOf[w[i]], value |-> val'[w[i]]]
    BY <2>4, <2>6
  <2>9. Elements' = N
    BY <2>5, <2>7, <2>8
  <2> QED
    BY <1>2, <1>3, <1>5, <2>2, <2>9 DEF Abstract!SetValue, Abstract!Call, L
<1> QED
  BY <1>4, <1>5

\* Ids of neighbours: where the ring has the sentinel the sequence has no element
Neighbours(w, n) ==
    /\ \A i \in 0 .. n + 1 : IdOfCell(CellAt(w, i)) = Abstract!IdAt(i)
    /\ \A k \in 1 .. n : ptr.next[w[k]] = CellAt(w, k + 1) /\ ptr.prev[w[k]] = CellAt(w, k - 1)

LEMMA ListNeighbours ==
    ASSUME NEW n, NEW w, Sound(w, n) PROVE Neighbours(w, n)
<1>1. Seen(w, n) /\ Lists(w, n, mem) /\ mem \subseteq Addr
  BY ListSeen DEF Sound, TypeOK, Linked
<1>2. Cells(w, n, mem)
  BY <1>1, CellFacts
<1>3. /\ n \in Nat /\ \A i \in 1 .. n : CellAt(w, i) = w[i] /\ w[i] # Sentinel
      /\ CellAt(w, 0) = Sentinel /\ CellAt(w, n + 1) = Sentinel
  BY <1>2 DEF Cells
<1>4. /\ DOMAIN Elements = 1 .. n
      /\ \A i \in 1 .. n : Elements[i] = [id |-> idOf[w[i]], value |-> val[w[i]]]
  BY <1>1 DEF Seen
<1>5. ASSUME NEW i \in 0 .. n + 1 PROVE IdOfCell(CellAt(w, i)) = Abstract!IdAt(i)
  <2>1. CASE i \in 1 .. n
    <3>1. Elements[i] = [id |-> idOf[w[i]], value |-> val[w[i]]]
      BY <1>4, <2>1
    <3>2. Elements[i].id = idOf[w[i]]
      <4> HIDE DEF Elements
      <4> QED
        BY <3>1
    <3> QED
      BY <1>3, <1>4, <2>1, <3>2 DEF IdOfCell, Abstract!IdAt
  <2>2. CASE i \notin 1 .. n
    <3>1. CellAt(w, i) = Sentinel
      BY <1>3, <2>2
    <3> QED
      BY <1>4, <2>2, <3>1 DEF IdOfCell, Abstract!IdAt
  <2> QED
    BY <2>1, <2>2
<1>6. \A i \in 0 .. n : /\ ptr.next[CellAt(w, i)] = CellAt(w, i + 1)
                        /\ ptr.prev[CellAt(w, i + 1)] = CellAt(w, i)
  BY DEF Sound, Linked
<1>7. ASSUME NEW k \in 1 .. n
      PROVE  ptr.next[w[k]] = CellAt(w, k + 1) /\ ptr.prev[w[k]] = CellAt(w, k - 1)
  <2>1. k \in 0 .. n /\ k - 1 \in 0 .. n /\ (k - 1) + 1 = k
    BY <1>3
  <2> QED
    BY <1>3, <1>6, <2>1
<1> QED
  BY <1>5, <1>7 DEF Neighbours

LEMMA SizeIs ==
    ASSUME NEW n, NEW w, Sound(w, n) PROVE Cardinality(DOMAIN nodes) = n
<1>1. Lists(w, n, mem) /\ MapExact
  BY DEF Sound, Linked
<1> DEFINE g == [i \in 1 .. n |-> idOf[w[i]]]
<1>2. Lists(g, n, DOMAIN nodes)
  BY <1>1 DEF Lists, MapExact
<1> QED
  BY <1>2, Count

LEMMA QueryRefines ==
    ASSUME NEW n, NEW w, Sound(w, n), NEW id \in Ids,
           First \/ Last \/ Size \/ GetValue(id) \/ NextOf(id) \/ PrevOf(id)
    PROVE  \/ Abstract!First \/ Abstract!Last \/ Abstract!Size
           \/ Abstract!GetValue(id) \/ Abstract!NextOf(id) \/ Abstract!PrevOf(id)
<1>1. Seen(w, n) /\ Ends(w, n) /\ Neighbours(w, n) /\ Sound(w, n)'
  BY ListSeen, ListEnds, ListNeighbours, QuerySound
<1>2. idOf' = idOf /\ val' = val
  BY DEF First, Last, Size, GetValue, NextOf, PrevOf, Returns
<1>3. Elements' = Elements
  BY <1>1, <1>2, SameView
<1>4. /\ n \in Nat /\ Len(Elements) = n /\ (Abstract!Has(id) <=> Found(id))
      /\ \A i \in 1 .. n : Elements[i] = [id |-> idOf[w[i]], value |-> val[w[i]]]
  BY <1>1 DEF Seen
<1>5. ASSUME Found(id)
      PROVE  \E k \in 1 .. n : nodes[id] = w[k] /\ Abstract!At(id) = k
  BY <1>1, <1>5 DEF Seen, Ends, Found
<1>6. \A i \in 0 .. n + 1 : IdOfCell(CellAt(w, i)) = Abstract!IdAt(i)
  BY <1>1 DEF Neighbours
<1>7. ptr.next[Sentinel] = CellAt(w, 1) /\ ptr.prev[Sentinel] = CellAt(w, n)
      /\ 1 \in 0 .. n + 1 /\ n \in 0 .. n + 1
  BY <1>1 DEF Ends
<1>8. CASE First
  <2>1. out' = [op |-> "First", id |-> 0, ret |-> Abstract!IdAt(1)]
    BY <1>6, <1>7, <1>8 DEF First, Returns, Call
  <2> QED
    BY <1>3, <2>1 DEF Abstract!First, Abstract!Call
<1>9. CASE Last
  <2>1. out' = [op |-> "Last", id |-> 0, ret |-> Abstract!IdAt(n)]
    BY <1>6, <1>7, <1>9 DEF Last, Returns, Call
  <2> QED
    BY <1>3, <1>4, <2>1 DEF Abstract!Last, Abstract!Call
<1>10. CASE Size
  <2>1. out' = [op |-> "Size", id |-> 0, ret |-> n]
    BY <1>10, SizeIs DEF Size, Returns, Call
  <2> QED
    BY <1>3, <1>4, <2>1 DEF Abstract!Size, Abstract!Call
<1>11. CASE GetValue(id)
  <2>1. Found(id) => Elements[Abstract!At(id)].value = val[nodes[id]]
    <3> SUFFICES ASSUME Found(id) PROVE Elements[Abstract!At(id)].value = val[nodes[id]]
      OBVIOUS
    <3>1. PICK k \in 1 .. n : nodes[id] = w[k] /\ Abstract!At(id) = k
      BY <1>5
    <3>2. Elements[k] = [id |-> idOf[w[k]], value |-> val[w[k]]]
      BY <1>4
    <3>3. Elements[k].value = val[w[k]]
      <4> HIDE DEF Elements
      <4> QED
        BY <3>2
    <3> QED
      BY <3>1, <3>3
  <2>2. out' = [op |-> "GetValue", id |-> id,
                ret |-> IF Abstract!Has(id) THEN Elements[Abstract!At(id)].value ELSE 0]
    BY <1>4, <1>11, <2>1 DEF GetValue, Returns, Call
  <2> QED
    BY <1>3, <2>2 DEF Abstract!GetValue, Abstract!Call
<1>12. CASE NextOf(id)
  <2>1. Found(id) => Abstract!IdAt(Abstract!At(id) + 1) = IdOfCell(ptr.next[nodes[id]])
    <3> SUFFICES ASSUME Found(id)
                 PROVE  Abstract!IdAt(Abstract!At(id) + 1) = IdOfCell(ptr.next[nodes[id]])
      OBVIOUS
    <3>1. PICK k \in 1 .. n : nodes[id] = w[k] /\ Abstract!At(id) = k
      BY <1>5
    <3>2. ptr.next[w[k]] = CellAt(w, k + 1) /\ k + 1 \in 0 .. n + 1
      BY <1>1, <1>4 DEF Neighbours
    <3> QED
      BY <1>6, <3>1, <3>2
  <2>2. out' = [op |-> "Next", id |-> id,
                ret |-> IF Abstract!Has(id) THEN Abstract!IdAt(Abstract!At(id) + 1) ELSE 0]
    BY <1>4, <1>12, <2>1 DEF NextOf, Returns, Call
  <2> QED
    BY <1>3, <2>2 DEF Abstract!NextOf, Abstract!Call
<1>13. CASE PrevOf(id)
  <2>1. Found(id) => Abstract!IdAt(Abstract!At(id) - 1) = IdOfCell(ptr.prev[nodes[id]])
    <3> SUFFICES ASSUME Found(id)
                 PROVE  Abstract!IdAt(Abstract!At(id) - 1) = IdOfCell(ptr.prev[nodes[id]])
      OBVIOUS
    <3>1. PICK k \in 1 .. n : nodes[id] = w[k] /\ Abstract!At(id) = k
      BY <1>5
    <3>2. ptr.prev[w[k]] = CellAt(w, k - 1) /\ k - 1 \in 0 .. n + 1
      BY <1>1, <1>4 DEF Neighbours
    <3> QED
      BY <1>6, <3>1, <3>2
  <2>2. out' = [op |-> "Prev", id |-> id,
                ret |-> IF Abstract!Has(id) THEN Abstract!IdAt(Abstract!At(id) - 1) ELSE 0]
    BY <1>4, <1>13, <2>1 DEF PrevOf, Returns, Call
  <2> QED
    BY <1>3, <2>2 DEF Abstract!PrevOf, Abstract!Call
<1> QED
  BY <1>8, <1>9, <1>10, <1>11, <1>12, <1>13

LEMMA ClearRefines ==
    ASSUME NEW n, NEW w, Sound(w, n), Clear PROVE Abstract!Clear
<1>1. Sound(<<>>, 0)'
  BY ClearSound
<1>2. Elements' = View(<<>>, 0)'
  BY <1>1, NextView
<1>3. Elements' = <<>>
  BY <1>2 DEF View
<1> QED
  BY <1>3 DEF Clear, Call, Abstract!Clear, Abstract!Call

LEMMA CopyRefines ==
    ASSUME NEW n, NEW w, Sound(w, n), NEW a \in Injections(n), Copy(a), Walk = w
    PROVE  Abstract!Copy
<1>1. Seen(w, n) /\ Sound(a, n)'
  BY ListSeen, CopySound
<1>2. /\ n \in Nat /\ Len(Elements) = n /\ DOMAIN Elements = 1 .. n
      /\ \A i \in 1 .. n : Elements[i] = [id |-> idOf[w[i]], value |-> val[w[i]]]
  BY <1>1 DEF Seen
<1>3. /\ a \in [1 .. n -> Addr] /\ \A i \in 1 .. n : IndexOf(a, a[i]) = i /\ a[i] \in Range(a)
  BY <1>2, RingLinked DEF Range
<1>4. /\ val' = [c \in Addr |-> IF c \in Range(a) THEN val[w[IndexOf(a, c)]] ELSE 0]
      /\ idOf' = [c \in Addr |-> IF c \in Range(a) THEN IndexOf(a, c) ELSE 0]
      /\ out' = [op |-> "Copy", id |-> 0, ret |-> 0]
  BY DEF Copy, Call
<1>5. \A i \in 1 .. n : val'[a[i]] = val[w[i]] /\ idOf'[a[i]] = i
  BY <1>3, <1>4
<1>6. Elements' = [i \in 1 .. n |-> [id |-> idOf'[a[i]], value |-> val'[a[i]]]]
  BY <1>1, NextView DEF View
<1>7. \A i \in 1 .. n : i \in Ids
  <2>1. n <= IdSpace - 1
    BY <1>1, IdsSuffice DEF Sound, Linked
  <2> QED
    BY <1>2, <2>1, ListAssumption DEF Ids, ListAssumption
<1> DEFINE L == Elements'
<1>8. L = [i \in 1 .. n |-> [id |-> i, value |-> val[w[i]]]]
  BY <1>5, <1>6
<1> HIDE DEF L
<1>9. Len(L) = n /\ DOMAIN L = 1 .. n /\ \A i \in 1 .. n : L[i].id = i /\ L[i].value = val[w[i]]
  BY <1>2, <1>8
<1>10. \A i \in 1 .. n : Elements[i].value = val[w[i]]
  <2> HIDE DEF Elements
  <2> QED
    BY <1>2
<1>11. /\ Len(L) = Len(Elements)
       /\ \A i \in DOMAIN Elements : L[i].value = Elements[i].value /\ L[i].id \in Ids
       /\ \A i, j \in DOMAIN L : L[i].id = L[j].id => i = j
  BY <1>2, <1>7, <1>9, <1>10
<1> QED
  BY <1>4, <1>11 DEF Abstract!Copy, Abstract!Call, L

LEMMA StepRefines == IndInv /\ [Next]_vars => IndInv' /\ [Abstract!Next]_<<Elements, out>>
<1> SUFFICES ASSUME IndInv, [Next]_vars PROVE [Abstract!Next]_<<Elements, out>>
  BY StepSound
<1>1. PICK n, w : Sound(w, n)
  BY DEF IndInv
<1>3. CASE UNCHANGED vars
  <2>1. Sound(w, n)'
    BY <1>1, <1>3 DEF Sound, TypeOK, MapExact, IdsFresh, vars
  <2>2. idOf' = idOf /\ val' = val /\ out' = out
    BY <1>3 DEF vars
  <2>3. Elements' = Elements
    BY <1>1, <2>1, <2>2, SameView
  <2> QED
    BY <2>2, <2>3
<1> SUFFICES ASSUME Next PROVE Abstract!Next
  BY <1>3
<1>4. ASSUME NEW a \in Addr, NEW v \in Value, PushFront(a, v) \/ PushBack(a, v) PROVE Abstract!Next
  <2>1. Abstract!PushFront \/ Abstract!PushBack
    BY <1>1, <1>4, PushFrontRefines, PushBackRefines
  <2> QED
    BY <2>1 DEF Abstract!Next
<1>5. CASE PopFront \/ PopBack
  BY <1>1, <1>5, PopRefines DEF Abstract!Next
<1>7. CASE First \/ Last \/ Size
  <2>1. 1 \in Ids
    BY ListAssumption DEF Ids, ListAssumption
  <2>2. \/ Abstract!First \/ Abstract!Last \/ Abstract!Size
        \/ Abstract!GetValue(1) \/ Abstract!NextOf(1) \/ Abstract!PrevOf(1)
    BY <1>1, <1>7, <2>1, QueryRefines
  <2> QED
    BY <2>1, <2>2 DEF Abstract!Next
<1>8. CASE Clear
  BY <1>1, <1>8, ClearRefines DEF Abstract!Next
<1>9. ASSUME NEW id \in Ids, Remove(id) PROVE Abstract!Next
  <2>1. Abstract!Remove(id)
    BY <1>1, <1>9, RemoveRefines
  <2> QED
    BY <2>1 DEF Abstract!Next
<1>10. ASSUME NEW id \in Ids, MoveToFront(id) PROVE Abstract!Next
  <2>1. Abstract!MoveToFront(id)
    BY <1>1, <1>10, MoveToFrontRefines
  <2> QED
    BY <2>1 DEF Abstract!Next
<1>11. ASSUME NEW id \in Ids, MoveToBack(id) PROVE Abstract!Next
  <2>1. Abstract!MoveToBack(id)
    BY <1>1, <1>11, MoveToBackRefines
  <2> QED
    BY <2>1 DEF Abstract!Next
<1>12. ASSUME NEW id \in Ids, GetValue(id) \/ NextOf(id) \/ PrevOf(id) PROVE Abstract!Next
  <2>1. \/ Abstract!First \/ Abstract!Last \/ Abstract!Size
        \/ Abstract!GetValue(id) \/ Abstract!NextOf(id) \/ Abstract!PrevOf(id)
    BY <1>1, <1>12, QueryRefines
  <2> QED
    BY <2>1 DEF Abstract!Next
<1>13. ASSUME NEW id \in Ids, NEW v \in Value, SetValue(id, v) PROVE Abstract!Next
  <2>1. Abstract!SetValue(id)
    BY <1>1, <1>13, SetValueRefines
  <2> QED
    BY <2>1 DEF Abstract!Next
<1>14. ASSUME NEW a \in Injections(Len(Walk)), Copy(a) PROVE Abstract!Next
  <2>1. Walk = w /\ a \in Injections(n)
    BY <1>1, ListEnds DEF Ends
  <2>2. Abstract!Copy
    BY <1>1, <1>14, <2>1, CopyRefines
  <2> QED
    BY <2>2 DEF Abstract!Next
<1> QED
  BY <1>4, <1>5, <1>7, <1>8, <1>9, <1>10, <1>11, <1>12, <1>13, <1>14 DEF Next

\* The list in memory is to a plugin the sequence that ListSpec describes: every native
\* of natives_linkedlist.cpp does and returns what it would there.
THEOREM ListImplements == Spec => ImplementsList
<1>1. Init => IndInv
  BY InitSound DEF IndInv
<1> QED
  BY <1>1, InitRefines, StepRefines, PTL DEF Spec, ImplementsList, Abstract!Spec
=============================================================================
