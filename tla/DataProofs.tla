----------------------------- MODULE DataProofs -----------------------------
(***************************************************************************)
(* Proofs about DataNodes: reference counts are exact, the threads keep    *)
(* apart, iterators and copies are what they should be, for every number   *)
(* of nodes, handles, keys and every length of arrays.                     *)
(*                                                                         *)
(* First the counting: how one change of a container's children moves      *)
(* references between containers and holders. Then one lemma per operation *)
(* on the heap, and last one lemma per action.                             *)
(***************************************************************************)
EXTENDS DataNodes, FiniteSetTheorems, FunctionTheorems, TLAPS

-----------------------------------------------------------------------------
(* Counting references.                                                    *)

(* Slots are numbers, and finitely many. *)
LEMMA SlotFinite == IsFiniteSet(Slot) /\ Slot \subseteq Nat
<1>1. IsFiniteSet(Key) /\ IsFiniteSet(Index)
  BY FS_Interval, DataAssumption DEF Key, Index
<1>2. IsFiniteSet(Slot)
  BY <1>1, FS_Union DEF Slot
<1>3. Slot \subseteq Nat
  BY DataAssumption DEF Slot, Key, Index
<1>4. QED BY <1>2, <1>3

(* The children of a node: a function from slots to nodes. *)
LEMMA KidMapsType ==
  ASSUME NEW f \in KidMaps
  PROVE  /\ DOMAIN f \subseteq Slot
         /\ f \in [DOMAIN f -> Node]
         /\ IsFiniteSet(DOMAIN f)
<1>1. PICK S \in SUBSET Slot : f \in [S -> Node]
  BY DEF KidMaps
<1>2. QED BY <1>1, SlotFinite, FS_Subset

LEMMA KidMapsIntro ==
  ASSUME NEW S \in SUBSET Slot, NEW f \in [S -> Node]
  PROVE  f \in KidMaps
BY DEF KidMaps

LEMMA NoKidsType == NoKids \in KidMaps /\ DOMAIN NoKids = {}
<1>1. NoKids \in [{} -> Node] /\ DOMAIN NoKids = {}
  BY DEF NoKids
<1>2. QED BY <1>1, KidMapsIntro

(* How often f refers to m is a number, positive when it does. *)
LEMMA RefsCount ==
  ASSUME NEW f, IsFiniteSet(DOMAIN f), NEW m \in Node
  PROVE  /\ Refs(f)[m] \in Nat
         /\ Refs(f)[m] > 0 <=> \E k \in DOMAIN f : f[k] = m
<1> DEFINE S == {k \in DOMAIN f : f[k] = m}
<1>1. Refs(f)[m] = Cardinality(S)
  BY DEF Refs
<1>2. IsFiniteSet(S)
  BY FS_Subset
<1>3. Cardinality(S) \in Nat /\ (Cardinality(S) = 0 <=> S = {})
  BY <1>2, FS_CardinalityType, FS_EmptySet
<1>4. QED BY <1>1, <1>3

LEMMA RefsNoKids ==
  ASSUME NEW m \in Node
  PROVE  Refs(NoKids)[m] = 0
<1>1. {k \in DOMAIN NoKids : NoKids[k] = m} = {}
  BY NoKidsType
<1>2. QED BY <1>1, FS_EmptySet DEF Refs

(* Storing c at k. *)
LEMMA RefsSet ==
  ASSUME NEW f, IsFiniteSet(DOMAIN f), NEW k, NEW c, NEW m \in Node
  PROVE  /\ IsFiniteSet(DOMAIN Set(f, k, c))
         /\ Refs(Set(f, k, c))[m] + (IF k \in DOMAIN f /\ f[k] = m THEN 1 ELSE 0)
              = Refs(f)[m] + One(c)[m]
<1> DEFINE S == {i \in DOMAIN f : f[i] = m}
           g == Set(f, k, c)
           T == {i \in DOMAIN g : g[i] = m}
<1>1. DOMAIN g = DOMAIN f \cup {k} /\ \A i \in DOMAIN g : g[i] = IF i = k THEN c ELSE f[i]
  BY DEF Set
<1>2. IsFiniteSet(DOMAIN g)
  BY <1>1, FS_AddElement
<1>3. Refs(f)[m] = Cardinality(S) /\ Refs(g)[m] = Cardinality(T)
  BY DEF Refs
<1>4. IsFiniteSet(S) /\ IsFiniteSet(S \ {k})
  BY FS_Subset
<1>5. /\ Cardinality(S \ {k}) = IF k \in S THEN Cardinality(S) - 1 ELSE Cardinality(S)
      /\ Cardinality(S) \in Nat
  BY <1>4, FS_RemoveElement, FS_CardinalityType
<1>6. T = IF c = m THEN (S \ {k}) \cup {k} ELSE S \ {k}
  BY <1>1
<1>7. Cardinality((S \ {k}) \cup {k}) = Cardinality(S \ {k}) + 1
  BY <1>4, FS_AddElement
<1>8. Cardinality(T) = Cardinality(S \ {k}) + (IF c = m THEN 1 ELSE 0)
  <2>1. Cardinality(S \ {k}) \in Nat
    BY <1>4, FS_CardinalityType
  <2>2. QED BY <2>1, <1>6, <1>7
<1>9. One(c)[m] = IF m = c THEN 1 ELSE 0
  BY DEF One
<1> HIDE DEF S, g, T
<1>10. (k \in DOMAIN f /\ f[k] = m) <=> k \in S
  BY DEF S
<1>11. QED BY <1>2, <1>3, <1>5, <1>8, <1>9, <1>10 DEF g

(* Removing the key k. *)
LEMMA RefsDelete ==
  ASSUME NEW f, IsFiniteSet(DOMAIN f), NEW k \in DOMAIN f, NEW m \in Node
  PROVE  /\ IsFiniteSet(DOMAIN Delete(f, k))
         /\ Refs(Delete(f, k))[m] + One(f[k])[m] = Refs(f)[m]
<1> DEFINE S == {i \in DOMAIN f : f[i] = m}
           g == Delete(f, k)
           T == {i \in DOMAIN g : g[i] = m}
<1>1. DOMAIN g = DOMAIN f \ {k} /\ \A i \in DOMAIN g : g[i] = f[i]
  BY DEF Delete
<1>2. IsFiniteSet(DOMAIN g)
  BY <1>1, FS_RemoveElement
<1>3. Refs(f)[m] = Cardinality(S) /\ Refs(g)[m] = Cardinality(T)
  BY DEF Refs
<1>4. IsFiniteSet(S)
  BY FS_Subset
<1>5. T = S \ {k}
  BY <1>1
<1>6. Cardinality(T) = IF k \in S THEN Cardinality(S) - 1 ELSE Cardinality(S)
  BY <1>4, <1>5, FS_RemoveElement
<1>7. One(f[k])[m] = IF k \in S THEN 1 ELSE 0
  BY DEF One
<1>8. Cardinality(S) \in Nat
  BY <1>4, FS_CardinalityType
<1> HIDE DEF S, g, T
<1>9. QED BY <1>2, <1>3, <1>6, <1>7, <1>8 DEF g

(* Removing element i of an array moves the ones behind it. *)
LEMMA RefsRemoveAt ==
  ASSUME NEW l \in Nat, NEW f, DOMAIN f = 1..l, NEW i \in 1..l, NEW m \in Node
  PROVE  /\ Length(f) = l
         /\ DOMAIN RemoveAt(f, i) = 1..(l - 1)
         /\ Refs(RemoveAt(f, i))[m] + One(f[i])[m] = Refs(f)[m]
<1>1. Length(f) = l /\ IsFiniteSet(DOMAIN f)
  BY FS_Interval DEF Length
<1> DEFINE S == {j \in 1..l : f[j] = m}
           g == RemoveAt(f, i)
           T == {j \in 1..(l - 1) : g[j] = m}
           sh == [j \in T |-> IF j < i THEN j ELSE j + 1]
<1>2. DOMAIN g = 1..(l - 1) /\ \A j \in 1..(l - 1) : g[j] = IF j < i THEN f[j] ELSE f[j + 1]
  BY <1>1 DEF RemoveAt
<1>3. Refs(f)[m] = Cardinality(S) /\ Refs(g)[m] = Cardinality(T)
  BY <1>2 DEF Refs
<1>4. IsFiniteSet(S) /\ IsFiniteSet(T)
  <2>1. IsFiniteSet(1..l) /\ IsFiniteSet(1..(l - 1))
    BY FS_Interval
  <2>2. QED BY <2>1, FS_Subset
<1>5. sh \in [T -> S \ {i}]
  BY <1>2
<1>6. \A a, b \in T : sh[a] = sh[b] => a = b
  OBVIOUS
<1>7. \A b \in S \ {i} : \E a \in T : sh[a] = b
  <2> TAKE b \in S \ {i}
  <2> DEFINE a == IF b < i THEN b ELSE b - 1
  <2>1. a \in 1..(l - 1)
    OBVIOUS
  <2>2. g[a] = m
    BY <2>1, <1>2
  <2>3. a \in T /\ sh[a] = b
    BY <2>1, <2>2
  <2>4. QED BY <2>3
<1> HIDE DEF sh, S, T, g
<1>8. ExistsBijection(T, S \ {i})
  <2>1. sh \in Bijection(T, S \ {i})
    BY <1>5, <1>6, <1>7, Fun_IsBij
  <2>2. QED BY <2>1 DEF ExistsBijection
<1>9. Cardinality(S \ {i}) = Cardinality(T)
  BY <1>8, <1>4, FS_Bijection
<1>10. /\ Cardinality(S \ {i}) = IF i \in S THEN Cardinality(S) - 1 ELSE Cardinality(S)
       /\ Cardinality(S) \in Nat
  BY <1>4, FS_RemoveElement, FS_CardinalityType
<1>11. One(f[i])[m] = IF i \in S THEN 1 ELSE 0
  BY DEF One, S
<1>12. QED BY <1>1, <1>2, <1>3, <1>9, <1>10, <1>11 DEF g

(* Links to m are finitely many. *)
LEMMA LinksFinite ==
  ASSUME NEW H, NEW m
  PROVE  IsFiniteSet(Links(H, m)) /\ Cardinality(Links(H, m)) \in Nat
<1>1. IsFiniteSet(Node \X Slot)
  BY SlotFinite, DataAssumption, FS_Product
<1>2. IsFiniteSet(Links(H, m))
  BY <1>1, FS_Subset DEF Links
<1>3. QED BY <1>2, FS_CardinalityType

(* The links to m are those from n and those from elsewhere. *)
LEMMA LinksSplit ==
  ASSUME NEW H, NEW n \in Node, NEW m \in Node, H.kids[n] \in KidMaps
  PROVE  LET Else == {p \in Links(H, m) : p[1] # n}
         IN  /\ Cardinality(Links(H, m)) = Cardinality(Else) + Refs(H.kids[n])[m]
             /\ Cardinality(Else) \in Nat
<1> DEFINE Else == {p \in Links(H, m) : p[1] # n}
           K == {k \in DOMAIN H.kids[n] : H.kids[n][k] = m}
           Here == {n} \X K
<1>1. DOMAIN H.kids[n] \subseteq Slot /\ IsFiniteSet(DOMAIN H.kids[n])
  BY KidMapsType
<1>2. Links(H, m) = Else \cup Here
  BY <1>1 DEF Links
<1>3. Else \cap Here = {}
  OBVIOUS
<1>4. IsFiniteSet(K)
  BY <1>1, FS_Subset
<1>5. IsFiniteSet(Here) /\ Cardinality(Here) = Cardinality(K) /\ Cardinality(K) \in Nat
  <2>1. IsFiniteSet({n}) /\ Cardinality({n}) = 1
    BY FS_Singleton
  <2>2. IsFiniteSet(Here) /\ Cardinality(Here) = Cardinality({n}) * Cardinality(K)
    BY <2>1, <1>4, FS_Product
  <2>3. Cardinality(K) \in Nat
    BY <1>4, FS_CardinalityType
  <2>4. QED BY <2>1, <2>2, <2>3
<1>6. IsFiniteSet(Else) /\ Cardinality(Else) \in Nat
  <2>1. IsFiniteSet(Else)
    BY LinksFinite, FS_Subset
  <2>2. QED BY <2>1, FS_CardinalityType
<1>7. Cardinality(Else \cap Here) = 0
  BY <1>3, FS_EmptySet
<1>8. Cardinality(Else \cup Here) = Cardinality(Else) + Cardinality(Here) - Cardinality(Else \cap Here)
  BY <1>5, <1>6, FS_Union
<1>9. Refs(H.kids[n])[m] = Cardinality(K)
  BY DEF Refs
<1> HIDE DEF Else, K, Here
<1>10. Cardinality(Links(H, m)) = Cardinality(Else) + Cardinality(K)
  BY <1>2, <1>5, <1>6, <1>7, <1>8
<1>11. QED BY <1>6, <1>9, <1>10 DEF Else

(* Changing the children of n changes the number of links by what they refer to. *)
LEMMA LinksChange ==
  ASSUME NEW H, NEW G, NEW n \in Node, NEW m \in Node,
         H.kids[n] \in KidMaps, G.kids[n] \in KidMaps,
         \A x \in Node \ {n} : G.kids[x] = H.kids[x]
  PROVE  Cardinality(Links(G, m)) + Refs(H.kids[n])[m]
           = Cardinality(Links(H, m)) + Refs(G.kids[n])[m]
<1> DEFINE ElseH == {p \in Links(H, m) : p[1] # n}
           ElseG == {p \in Links(G, m) : p[1] # n}
<1>1. ElseH = ElseG
  BY DEF Links
<1>2. /\ Cardinality(Links(H, m)) = Cardinality(ElseH) + Refs(H.kids[n])[m]
      /\ Cardinality(ElseH) \in Nat
  BY LinksSplit
<1>3. Cardinality(Links(G, m)) = Cardinality(ElseG) + Refs(G.kids[n])[m]
  BY LinksSplit
<1>4. Refs(H.kids[n])[m] \in Nat /\ Refs(G.kids[n])[m] \in Nat
  BY RefsCount, KidMapsType
<1> HIDE DEF ElseH, ElseG
<1>5. QED BY <1>1, <1>2, <1>3, <1>4

(* What is a child of something has a link. *)
LEMMA LinksPositive ==
  ASSUME NEW H, NEW n \in Node, H.kids[n] \in KidMaps, NEW c \in Kids(H, n)
  PROVE  c \in Node /\ Cardinality(Links(H, c)) > 0
<1>1. PICK k \in DOMAIN H.kids[n] : H.kids[n][k] = c
  BY DEF Kids
<1>2. k \in Slot /\ c \in Node
  BY <1>1, KidMapsType
<1>3. <<n, k>> \in Links(H, c)
  BY <1>1, <1>2 DEF Links
<1>4. Links(H, c) # {}
  BY <1>3
<1>5. Cardinality(Links(H, c)) # 0
  BY <1>4, LinksFinite, FS_EmptySet
<1>6. QED BY <1>2, <1>5, LinksFinite

-----------------------------------------------------------------------------
(* What is below a set of nodes.                                           *)

LEMMA BelowSelf ==
  ASSUME NEW H, NEW S \in SUBSET Node
  PROVE  S \subseteq Below(H, S)
BY DEF Below

LEMMA BelowClosed ==
  ASSUME NEW H, NEW S, NEW n \in Below(H, S), NEW c \in Kids(H, n), c \in Node
  PROVE  c \in Below(H, S)
BY DEF Below, ClosedUnder

LEMMA BelowLeast ==
  ASSUME NEW H, NEW S, NEW T \in SUBSET Node, S \subseteq T, ClosedUnder(H, T)
  PROVE  Below(H, S) \subseteq T
BY DEF Below

(* It does not shrink while the nodes in it keep their children. *)
LEMMA BelowGrows ==
  ASSUME NEW H, NEW G, NEW S \in SUBSET Node,
         \A n \in Node : Kids(H, n) \subseteq Node,
         \A n \in Below(H, S) : Kids(H, n) \subseteq Kids(G, n)
  PROVE  Below(H, S) \subseteq Below(G, S)
<1> SUFFICES ASSUME NEW T \in SUBSET Node, S \subseteq T, ClosedUnder(G, T)
             PROVE  Below(H, S) \subseteq T
  BY DEF Below
<1> DEFINE U == T \cap Below(H, S)
<1>1. S \subseteq U
  BY BelowSelf
<1>2. Below(H, S) \subseteq Node
  BY DEF Below
<1>3. ASSUME NEW n \in U, NEW c \in Kids(H, n)
      PROVE  c \in U
  <2>1. c \in Node
    BY <1>2, <1>3
  <2>2. c \in Below(H, S)
    BY <2>1, <1>3, BelowClosed
  <2>3. c \in Kids(G, n)
    BY <1>3
  <2>4. c \in T
    BY <2>3, <1>3 DEF ClosedUnder
  <2>5. QED BY <2>2, <2>4
<1>4. ClosedUnder(H, U)
  BY <1>3 DEF ClosedUnder
<1>5. Below(H, S) \subseteq U
  BY <1>1, <1>2, <1>4, BelowLeast
<1>6. QED BY <1>5

-----------------------------------------------------------------------------
(* A heap whose counts are exact for the holders x, and in which nodes of  *)
(* different holders (colours) are not linked.                             *)

Group == {"plugin", "body", "copy", "parsed", "event"}

NonFree(H, n) == H.type[n] # "Free"

Balanced(H, x) ==
    \A n \in Node :
        /\ H.ref[n] = Cardinality(Links(H, n)) + x[n]
        /\ H.type[n] = "Free" <=> H.ref[n] = 0

Coloured(H, col) == \A n \in Node : \A c \in Kids(H, n) : col[c] = col[n]

Good(H, x, col) ==
    /\ HeapType(H)
    /\ x \in [Node -> Nat]
    /\ col \in [Node -> Group]
    /\ Balanced(H, x)
    /\ NoCycle(H)
    /\ Coloured(H, col)

LEMMA HeapTypes ==
  ASSUME NEW H, HeapType(H)
  PROVE  /\ H.type \in [Node -> Containers \cup {"Int", "Free"}]
         /\ H.ref \in [Node -> Nat]
         /\ H.kids \in [Node -> KidMaps]
         /\ H.moved \in BOOLEAN
         /\ H = [type |-> H.type, ref |-> H.ref, kids |-> H.kids, moved |-> H.moved]
         /\ \A n \in Node : Kids(H, n) \subseteq Node
<1>1. H \in [type : [Node -> Containers \cup {"Int", "Free"}], ref : [Node -> Nat],
             kids : [Node -> KidMaps], moved : BOOLEAN]
  BY DEF HeapType
<1>2. \A n \in Node : H.kids[n] \in KidMaps
  BY <1>1
<1>3. \A n \in Node : Kids(H, n) \subseteq Node
  BY <1>2, KidMapsType DEF Kids
<1>4. QED BY <1>1, <1>3

(* What is held, or is a child, was not freed. *)
LEMMA HeldNonFree ==
  ASSUME NEW H, NEW x, NEW col, Good(H, x, col), NEW n \in Node, x[n] > 0
  PROVE  NonFree(H, n) /\ H.ref[n] >= x[n]
<1>1. H.ref[n] = Cardinality(Links(H, n)) + x[n] /\ (H.type[n] = "Free" <=> H.ref[n] = 0)
  BY DEF Good, Balanced
<1>2. x[n] \in Nat /\ Cardinality(Links(H, n)) \in Nat
  BY LinksFinite DEF Good
<1>3. QED BY <1>1, <1>2 DEF NonFree

LEMMA KidNonFree ==
  ASSUME NEW H, NEW x, NEW col, Good(H, x, col), NEW n \in Node, NEW c \in Kids(H, n)
  PROVE  c \in Node /\ NonFree(H, c) /\ NonFree(H, n)
<1>1. HeapType(H)
  BY DEF Good
<1>2. c \in Node /\ Cardinality(Links(H, c)) > 0
  BY <1>1, HeapTypes, LinksPositive
<1>3. H.ref[c] = Cardinality(Links(H, c)) + x[c] /\ (H.type[c] = "Free" <=> H.ref[c] = 0)
  BY <1>2 DEF Good, Balanced
<1>4. x[c] \in Nat /\ Cardinality(Links(H, c)) \in Nat
  BY <1>2, LinksFinite DEF Good
<1>5. NonFree(H, c)
  BY <1>2, <1>3, <1>4 DEF NonFree
<1>6. DOMAIN H.kids[n] # {}
  BY DEF Kids
<1>7. NonFree(H, n)
  BY <1>1, <1>6 DEF HeapType, WellFormed, NonFree
<1>8. QED BY <1>2, <1>5, <1>7

(* A free block has no children, no parent and no holder. *)
LEMMA FreeAlone ==
  ASSUME NEW H, NEW x, NEW col, Good(H, x, col), NEW m \in FreeNodes(H)
  PROVE  /\ m \in Node /\ H.kids[m] = NoKids /\ x[m] = 0
         /\ H.ref[m] = 0 /\ Cardinality(Links(H, m)) = 0
         /\ Kids(H, m) = {}
         /\ \A n \in Node : m \notin Kids(H, n)
<1>1. m \in Node /\ H.type[m] = "Free" /\ HeapType(H)
  BY DEF FreeNodes, Good
<1>2. DOMAIN H.kids[m] = {}
  BY <1>1 DEF HeapType, WellFormed
<1>3. H.kids[m] \in [{} -> Node]
  <2>1. H.kids[m] \in KidMaps
    BY <1>1, HeapTypes
  <2>2. H.kids[m] \in [DOMAIN H.kids[m] -> Node]
    BY <2>1, KidMapsType
  <2>3. QED BY <2>2, <1>2
<1>4. H.kids[m] = NoKids
  BY <1>3 DEF NoKids
<1>5. H.ref[m] = Cardinality(Links(H, m)) + x[m] /\ H.ref[m] = 0
  BY <1>1 DEF Good, Balanced
<1>6. x[m] \in Nat /\ Cardinality(Links(H, m)) \in Nat
  BY <1>1, LinksFinite DEF Good
<1>7. x[m] = 0 /\ Cardinality(Links(H, m)) = 0
  BY <1>5, <1>6
<1>8. \A n \in Node : m \notin Kids(H, n)
  BY <1>1, KidNonFree DEF NonFree
<1>9. Kids(H, m) = {}
  BY <1>2 DEF Kids
<1>10. QED BY <1>1, <1>4, <1>5, <1>7, <1>8, <1>9

-----------------------------------------------------------------------------
(* Operations on heaps.                                                    *)

(* A heap that has the same children has the same links. *)
LEMMA SameKids ==
  ASSUME NEW H, NEW G, \A n \in Node : G.kids[n] = H.kids[n]
  PROVE  /\ \A m \in Node : Links(G, m) = Links(H, m)
         /\ \A n \in Node : Kids(G, n) = Kids(H, n)
         /\ NoCycle(H) => NoCycle(G)
         /\ \A col : Coloured(H, col) => Coloured(G, col)
         /\ \A S : Below(G, S) = Below(H, S)
<1>1. \A m \in Node : Links(G, m) = Links(H, m)
  BY DEF Links
<1>2. \A n \in Node : Kids(G, n) = Kids(H, n)
  BY DEF Kids
<1>3. NoCycle(H) => NoCycle(G)
  BY <1>2 DEF NoCycle
<1>4. \A col : Coloured(H, col) => Coloured(G, col)
  BY <1>2 DEF Coloured
<1>5. \A T \in SUBSET Node : ClosedUnder(G, T) <=> ClosedUnder(H, T)
  BY <1>2 DEF ClosedUnder
<1>6. \A S : Below(G, S) = Below(H, S)
  BY <1>5 DEF Below
<1>7. QED BY <1>1, <1>2, <1>3, <1>4, <1>6

(* Free blocks are without colour. *)
LEMMA Recolour ==
  ASSUME NEW H, NEW x, NEW col, Good(H, x, col), NEW M \in SUBSET FreeNodes(H),
         NEW c2 \in [Node -> Group], \A n \in Node \ M : c2[n] = col[n]
  PROVE  Good(H, x, c2)
<1>1. Coloured(H, col)
  BY DEF Good
<1>2. \A m \in M : /\ m \in Node /\ Kids(H, m) = {}
                   /\ \A n \in Node : m \notin Kids(H, n)
  BY FreeAlone
<1>3. Coloured(H, c2)
  <2> SUFFICES ASSUME NEW n \in Node, NEW c \in Kids(H, n)
               PROVE  c2[c] = c2[n]
    BY DEF Coloured
  <2>1. c \in Node /\ c \notin M /\ n \notin M
    BY <1>2, KidNonFree
  <2>2. col[c] = col[n]
    BY <1>1 DEF Coloured
  <2>3. QED BY <2>1, <2>2
<1>4. HeapType(H) /\ x \in [Node -> Nat] /\ Balanced(H, x) /\ NoCycle(H)
  BY DEF Good
<1>5. QED BY <1>3, <1>4 DEF Good

(* Whole groups may change hands. *)
LEMMA Regroup ==
  ASSUME NEW H, NEW x, NEW col, Good(H, x, col), NEW c2 \in [Node -> Group],
         \A m, n \in Node : col[m] = col[n] => c2[m] = c2[n]
  PROVE  Good(H, x, c2)
<1>1. HeapType(H) /\ x \in [Node -> Nat] /\ Balanced(H, x) /\ NoCycle(H)
  BY DEF Good
<1>2. Coloured(H, col)
  BY DEF Good
<1>3. Coloured(H, c2)
  <2> SUFFICES ASSUME NEW n \in Node, NEW c \in Kids(H, n)
               PROVE  c2[c] = c2[n]
    BY DEF Coloured
  <2>1. c \in Node
    BY <1>1, HeapTypes
  <2>2. col[c] = col[n]
    BY <1>2 DEF Coloured
  <2>3. QED BY <2>1, <2>2
<1>4. QED BY <1>1, <1>3 DEF Good

(* The block m gets a type, a count and children. *)
LEMMA SetThree ==
  ASSUME NEW H, NEW m, NEW t, NEW r, NEW f,
         H = [type |-> H.type, ref |-> H.ref, kids |-> H.kids, moved |-> H.moved],
         NEW G, \/ G = [H EXCEPT !.type[m] = t, !.ref[m] = r, !.kids[m] = f]
                \/ G = [H EXCEPT !.ref[m] = r, !.type[m] = t, !.kids[m] = f]
  PROVE  /\ G.type = [H.type EXCEPT ![m] = t]
         /\ G.ref = [H.ref EXCEPT ![m] = r]
         /\ G.kids = [H.kids EXCEPT ![m] = f]
         /\ G.moved = H.moved
         /\ G = [type |-> G.type, ref |-> G.ref, kids |-> G.kids, moved |-> G.moved]
<1>1. CASE G = [H EXCEPT !.type[m] = t, !.ref[m] = r, !.kids[m] = f]
  <2> DEFINE A == [H EXCEPT !.type[m] = t]
             B == [A EXCEPT !.ref[m] = r]
             C == [B EXCEPT !.kids[m] = f]
  <2>1. A = [type |-> [H.type EXCEPT ![m] = t], ref |-> H.ref, kids |-> H.kids, moved |-> H.moved]
    OBVIOUS
  <2>2. B = [type |-> [H.type EXCEPT ![m] = t], ref |-> [H.ref EXCEPT ![m] = r],
             kids |-> H.kids, moved |-> H.moved]
    <3> HIDE DEF A
    <3>1. QED BY <2>1
  <2>3. C = [type |-> [H.type EXCEPT ![m] = t], ref |-> [H.ref EXCEPT ![m] = r],
             kids |-> [H.kids EXCEPT ![m] = f], moved |-> H.moved]
    <3> HIDE DEF B
    <3>1. QED BY <2>2
  <2>4. G = C
    BY <1>1
  <2> HIDE DEF C
  <2>5. QED BY <2>3, <2>4
<1>2. CASE G = [H EXCEPT !.ref[m] = r, !.type[m] = t, !.kids[m] = f]
  <2> DEFINE A == [H EXCEPT !.ref[m] = r]
             B == [A EXCEPT !.type[m] = t]
             C == [B EXCEPT !.kids[m] = f]
  <2>1. A = [type |-> H.type, ref |-> [H.ref EXCEPT ![m] = r], kids |-> H.kids, moved |-> H.moved]
    OBVIOUS
  <2>2. B = [type |-> [H.type EXCEPT ![m] = t], ref |-> [H.ref EXCEPT ![m] = r],
             kids |-> H.kids, moved |-> H.moved]
    <3> HIDE DEF A
    <3>1. QED BY <2>1
  <2>3. C = [type |-> [H.type EXCEPT ![m] = t], ref |-> [H.ref EXCEPT ![m] = r],
             kids |-> [H.kids EXCEPT ![m] = f], moved |-> H.moved]
    <3> HIDE DEF B
    <3>1. QED BY <2>2
  <2>4. G = C
    BY <1>2
  <2> HIDE DEF C
  <2>5. QED BY <2>3, <2>4
<1>3. QED BY <1>1, <1>2

(* G is H with the block m made. *)
MadeFrom(G, H, m, t) ==
    /\ G.kids = H.kids /\ G.moved = H.moved
    /\ G.type[m] = t /\ G.ref[m] = 1
    /\ \A n \in Node \ {m} : G.type[n] = H.type[n] /\ G.ref[n] = H.ref[n]

(* Make: one reference, which the caller holds. *)
LEMMA MakeGood ==
  ASSUME NEW H, NEW x, NEW col, Good(H, x, col), NEW m \in FreeNodes(H),
         NEW t \in Containers \cup {"Int"},
         NEW y \in [Node -> Nat], \A n \in Node : y[n] = x[n] + One(m)[n]
  PROVE  Good(Make(H, m, t), y, col) /\ MadeFrom(Make(H, m, t), H, m, t)
<1> DEFINE G == Make(H, m, t)
<1>1. HeapType(H) /\ m \in Node
  BY DEF Good, FreeNodes
<1>2. /\ H.kids[m] = NoKids /\ x[m] = 0
      /\ H.ref[m] = 0 /\ Cardinality(Links(H, m)) = 0
  BY FreeAlone
<1>3. /\ G.type = [H.type EXCEPT ![m] = t]
      /\ G.ref = [H.ref EXCEPT ![m] = 1]
      /\ G.kids = [H.kids EXCEPT ![m] = NoKids]
      /\ G.moved = H.moved
      /\ G = [type |-> G.type, ref |-> G.ref, kids |-> G.kids, moved |-> G.moved]
  <2>1. H = [type |-> H.type, ref |-> H.ref, kids |-> H.kids, moved |-> H.moved]
    BY <1>1, HeapTypes
  <2>2. G = [H EXCEPT !.type[m] = t, !.ref[m] = 1, !.kids[m] = NoKids]
    BY DEF Make
  <2> HIDE DEF G
  <2>3. QED BY <2>1, <2>2, SetThree
<1>4. G.kids = H.kids
  BY <1>1, <1>2, <1>3, HeapTypes
<1>5. HeapType(G)
  <2>1. G.type \in [Node -> Containers \cup {"Int", "Free"}] /\ G.ref \in [Node -> Nat]
    BY <1>1, <1>3, HeapTypes
  <2>2. G.kids \in [Node -> KidMaps] /\ G.moved \in BOOLEAN
    BY <1>1, <1>3, <1>4, HeapTypes
  <2>3. \A n \in Node : WellFormed(G.type[n], DOMAIN G.kids[n])
    <3> TAKE n \in Node
    <3>1. CASE n = m
      <4>1. G.type[n] = t /\ DOMAIN G.kids[n] = {}
        BY <3>1, <1>1, <1>2, <1>3, <1>4, HeapTypes, NoKidsType
      <4>2. {} = 1..0
        OBVIOUS
      <4>3. 0 \in 0..MaxLength
        BY DataAssumption
      <4>4. QED BY <4>1, <4>2, <4>3 DEF WellFormed
    <3>2. CASE n # m
      <4>1. G.type[n] = H.type[n]
        BY <3>2, <1>1, <1>3, HeapTypes
      <4>2. QED BY <4>1, <1>4, <1>1 DEF HeapType
    <3>3. QED BY <3>1, <3>2
  <2> HIDE DEF G
  <2>4. QED BY <1>3, <2>1, <2>2, <2>3 DEF HeapType
<1>6. Balanced(G, y)
  <2> SUFFICES ASSUME NEW n \in Node
               PROVE  /\ G.ref[n] = Cardinality(Links(G, n)) + y[n]
                      /\ G.type[n] = "Free" <=> G.ref[n] = 0
    BY DEF Balanced
  <2>1. Links(G, n) = Links(H, n)
    BY <1>4, SameKids
  <2>2. H.ref[n] = Cardinality(Links(H, n)) + x[n] /\ (H.type[n] = "Free" <=> H.ref[n] = 0)
    BY DEF Good, Balanced
  <2>3. y[n] = x[n] + (IF n = m THEN 1 ELSE 0)
    BY DEF One
  <2>4. CASE n = m
    <3>1. G.ref[n] = 1 /\ G.type[n] = t /\ t # "Free"
      BY <2>4, <1>1, <1>3, HeapTypes DEF Containers, Maps
    <3> HIDE DEF G
    <3>2. QED BY <2>1, <2>3, <2>4, <1>2, <3>1
  <2>5. CASE n # m
    <3>1. G.ref[n] = H.ref[n] /\ G.type[n] = H.type[n]
      BY <2>5, <1>1, <1>3, HeapTypes
    <3>2. x[n] \in Nat
      BY DEF Good
    <3> HIDE DEF G
    <3>3. QED BY <2>1, <2>2, <2>3, <2>5, <3>1, <3>2
  <2>6. QED BY <2>4, <2>5
<1>7. NoCycle(G) /\ Coloured(G, col)
  BY <1>4, SameKids DEF Good
<1> HIDE DEF G
<1>8. Good(G, y, col)
  BY <1>5, <1>6, <1>7 DEF Good
<1>9. MadeFrom(G, H, m, t)
  <2>1. H.type \in [Node -> Containers \cup {"Int", "Free"}] /\ H.ref \in [Node -> Nat]
    BY <1>1, HeapTypes
  <2>2. QED BY <1>1, <1>3, <1>4, <2>1 DEF MadeFrom
<1>10. QED BY <1>8, <1>9 DEF G

(* Incref: one reference more, which the caller holds. *)
LEMMA IncrefGood ==
  ASSUME NEW H, NEW x, NEW col, Good(H, x, col), NEW n \in Node, NonFree(H, n),
         NEW y \in [Node -> Nat], \A m \in Node : y[m] = x[m] + One(n)[m]
  PROVE  /\ Good(Incref(H, n), y, col)
         /\ Incref(H, n).kids = H.kids
         /\ Incref(H, n).type = H.type
         /\ Incref(H, n).moved = H.moved
<1> DEFINE G == Incref(H, n)
<1>1. HeapType(H)
  BY DEF Good
<1>2. /\ G.type = H.type
      /\ G.ref = [H.ref EXCEPT ![n] = H.ref[n] + 1]
      /\ G.kids = H.kids
      /\ G.moved = H.moved
      /\ G = [type |-> G.type, ref |-> G.ref, kids |-> G.kids, moved |-> G.moved]
  BY <1>1, HeapTypes DEF Incref
<1>3. HeapType(G)
  <2>1. G.ref \in [Node -> Nat]
    BY <1>1, <1>2, HeapTypes
  <2>2. \A k \in Node : WellFormed(G.type[k], DOMAIN G.kids[k])
    BY <1>1, <1>2 DEF HeapType
  <2>3. /\ G.type \in [Node -> Containers \cup {"Int", "Free"}]
        /\ G.kids \in [Node -> KidMaps] /\ G.moved \in BOOLEAN
    BY <1>1, <1>2, HeapTypes
  <2> HIDE DEF G
  <2>4. QED BY <1>2, <2>1, <2>2, <2>3 DEF HeapType
<1>4. Balanced(G, y)
  <2> SUFFICES ASSUME NEW m \in Node
               PROVE  /\ G.ref[m] = Cardinality(Links(G, m)) + y[m]
                      /\ G.type[m] = "Free" <=> G.ref[m] = 0
    BY DEF Balanced
  <2>1. Links(G, m) = Links(H, m)
    BY <1>2, SameKids
  <2>2. H.ref[m] = Cardinality(Links(H, m)) + x[m] /\ (H.type[m] = "Free" <=> H.ref[m] = 0)
    BY DEF Good, Balanced
  <2>3. y[m] = x[m] + (IF m = n THEN 1 ELSE 0) /\ x[m] \in Nat
    BY DEF One, Good
  <2>4. G.ref[m] = (IF m = n THEN H.ref[m] + 1 ELSE H.ref[m]) /\ G.type[m] = H.type[m]
    BY <1>1, <1>2, HeapTypes
  <2>5. H.ref[m] \in Nat /\ Cardinality(Links(H, m)) \in Nat
    BY <1>1, HeapTypes, LinksFinite
  <2> HIDE DEF G
  <2>6. QED BY <2>1, <2>2, <2>3, <2>4, <2>5 DEF NonFree
<1>5. NoCycle(G) /\ Coloured(G, col)
  BY <1>2, SameKids DEF Good
<1> HIDE DEF G
<1>6. Good(G, y, col)
  BY <1>3, <1>4, <1>5 DEF Good
<1>7. QED BY <1>2, <1>6 DEF G

-----------------------------------------------------------------------------
(* Operations that change the children of one container.                   *)

(* r is the heap that is left when n was given c, or nothing when c is no node,
   and the references that were released: nothing but the children of n and the
   mark of the iterator changed, and every reference is accounted for. *)
Op(H, n, c, r) ==
    /\ HeapType(r.heap)
    /\ r.heap.type = H.type /\ r.heap.ref = H.ref
    /\ \A m \in Node \ {n} : r.heap.kids[m] = H.kids[m]
    /\ r.out \in [Node -> Nat]
    /\ \A m \in Node : Refs(r.heap.kids[n])[m] + r.out[m] = Refs(H.kids[n])[m] + One(c)[m]
    /\ ~r.heap.moved =>
          /\ ~H.moved
          /\ n = iter.node /\ H.type[n] \in Maps => r.heap.kids[n] = H.kids[n]

LEMMA OneType ==
  ASSUME NEW m \in Node, NEW c
  PROVE  One(c)[m] \in Nat /\ One(c)[m] = IF m = c THEN 1 ELSE 0
BY DEF One

(* Replacing the children of n, with or without a mark for the iterator. *)
LEMMA SetKidsOp ==
  ASSUME NEW H, HeapType(H), NEW n \in Node, NEW f \in KidMaps, NEW b \in BOOLEAN,
         NEW c, NEW out \in [Node -> Nat], NEW G,
         G = [type |-> H.type, ref |-> H.ref, kids |-> [H.kids EXCEPT ![n] = f], moved |-> b],
         H.moved => b,
         n = iter.node /\ H.type[n] \in Maps => b \/ f = H.kids[n],
         WellFormed(H.type[n], DOMAIN f),
         \A m \in Node : Refs(f)[m] + out[m] = Refs(H.kids[n])[m] + One(c)[m]
  PROVE  Op(H, n, c, [heap |-> G, out |-> out])
<1>1. /\ H.type \in [Node -> Containers \cup {"Int", "Free"}]
      /\ H.ref \in [Node -> Nat]
      /\ H.kids \in [Node -> KidMaps]
      /\ H.moved \in BOOLEAN
  BY HeapTypes
<1>2. /\ G.type = H.type /\ G.ref = H.ref /\ G.moved = b
      /\ G.kids = [H.kids EXCEPT ![n] = f]
  OBVIOUS
<1>3. G.kids \in [Node -> KidMaps]
  BY <1>1, <1>2
<1>4. G.kids[n] = f /\ \A m \in Node \ {n} : G.kids[m] = H.kids[m]
  BY <1>1, <1>2
<1>5. \A m \in Node : WellFormed(G.type[m], DOMAIN G.kids[m])
  BY <1>2, <1>4 DEF HeapType
<1>6. G \in [type : [Node -> Containers \cup {"Int", "Free"}], ref : [Node -> Nat],
             kids : [Node -> KidMaps], moved : BOOLEAN]
  BY <1>1, <1>2, <1>3
<1>7. HeapType(G)
  BY <1>5, <1>6 DEF HeapType
<1> DEFINE r == [heap |-> G, out |-> out]
<1>8. r.heap = G /\ r.out = out
  OBVIOUS
<1> HIDE DEF r
<1>9. Op(H, n, c, r)
  BY <1>1, <1>2, <1>4, <1>7, <1>8 DEF Op
<1>10. QED BY <1>9 DEF r

(* The record forms of the heaps that container operations leave. *)
LEMMA SetKidsForm ==
  ASSUME NEW H, HeapType(H), NEW n \in Node, NEW f
  PROVE  /\ SetKids(H, n, f) =
              [type |-> H.type, ref |-> H.ref, kids |-> [H.kids EXCEPT ![n] = f],
               moved |-> H.moved]
         /\ SetKids(Bump(H, n), n, f) =
              [type |-> H.type, ref |-> H.ref, kids |-> [H.kids EXCEPT ![n] = f],
               moved |-> H.moved \/ n = iter.node]
         /\ Bump(H, n).kids = H.kids
<1>1. H = [type |-> H.type, ref |-> H.ref, kids |-> H.kids, moved |-> H.moved]
  BY HeapTypes
<1>2. Bump(H, n) = [type |-> H.type, ref |-> H.ref, kids |-> H.kids,
                    moved |-> H.moved \/ n = iter.node]
  BY <1>1 DEF Bump
<1> DEFINE B == Bump(H, n)
<1> HIDE DEF B
<1>3. B = [type |-> H.type, ref |-> H.ref, kids |-> H.kids, moved |-> H.moved \/ n = iter.node]
  BY <1>2 DEF B
<1>4. SetKids(B, n, f) =
        [type |-> H.type, ref |-> H.ref, kids |-> [H.kids EXCEPT ![n] = f],
         moved |-> H.moved \/ n = iter.node]
  BY <1>3 DEF SetKids
<1>5. SetKids(H, n, f) =
        [type |-> H.type, ref |-> H.ref, kids |-> [H.kids EXCEPT ![n] = f], moved |-> H.moved]
  BY <1>1 DEF SetKids
<1>6. Bump(H, n).kids = H.kids
  BY <1>2
<1>7. QED BY <1>4, <1>5, <1>6 DEF B

(* An operation that finds the wrong type releases what it was given. *)
LEMMA LeavesOp ==
  ASSUME NEW H, HeapType(H), NEW n \in Node, NEW c
  PROVE  /\ Op(H, n, None, Leaves(H))
         /\ Op(H, n, c, [heap |-> H, out |-> One(c)])
<1>1. \A m \in Node : Refs(H.kids[n])[m] \in Nat
  BY HeapTypes, KidMapsType, RefsCount
<1>2. \A m \in Node : One(None)[m] = 0 /\ Nothing[m] = 0
  BY DataAssumption DEF One, Nothing
<1>3. One(c) \in [Node -> Nat] /\ Nothing \in [Node -> Nat]
  BY DEF One, Nothing
<1> DEFINE r == Leaves(H)
           q == [heap |-> H, out |-> One(c)]
<1>4. r.heap = H /\ r.out = Nothing /\ q.heap = H /\ q.out = One(c)
  BY DEF Leaves
<1> HIDE DEF r, q
<1>5. Op(H, n, None, r)
  BY <1>1, <1>2, <1>3, <1>4 DEF Op
<1>6. Op(H, n, c, q)
  BY <1>1, <1>2, <1>3, <1>4 DEF Op
<1>7. QED BY <1>5, <1>6 DEF r, q

(* The children of a node stay well formed when c is stored at k. *)
LEMMA SetType ==
  ASSUME NEW f \in KidMaps, NEW k \in Slot, NEW c \in Node
  PROVE  Set(f, k, c) \in KidMaps /\ DOMAIN Set(f, k, c) = DOMAIN f \cup {k}
<1>1. DOMAIN f \subseteq Slot /\ f \in [DOMAIN f -> Node]
  BY KidMapsType
<1>2. Set(f, k, c) \in [DOMAIN f \cup {k} -> Node]
  BY <1>1 DEF Set
<1>3. DOMAIN f \cup {k} \in SUBSET Slot
  BY <1>1
<1>4. QED BY <1>2, <1>3, KidMapsIntro

LEMMA DeleteType ==
  ASSUME NEW f \in KidMaps, NEW k \in DOMAIN f
  PROVE  /\ Delete(f, k) \in KidMaps /\ DOMAIN Delete(f, k) = DOMAIN f \ {k}
         /\ f[k] \in Node
<1>1. DOMAIN f \subseteq Slot /\ f \in [DOMAIN f -> Node]
  BY KidMapsType
<1>2. Delete(f, k) \in [DOMAIN f \ {k} -> Node]
  BY <1>1 DEF Delete
<1>3. DOMAIN f \ {k} \in SUBSET Slot
  BY <1>1
<1>4. QED BY <1>1, <1>2, <1>3, KidMapsIntro

LEMMA NodeMaps ==
  ASSUME NEW H, HeapType(H), NEW n \in Node
  PROVE  /\ H.kids[n] \in KidMaps
         /\ WellFormed(H.type[n], DOMAIN H.kids[n])
         /\ H.type[n] \in Containers \cup {"Int", "Free"}
         /\ H.moved \in BOOLEAN
<1>1. H.kids \in [Node -> KidMaps] /\ H.moved \in BOOLEAN
      /\ H.type \in [Node -> Containers \cup {"Int", "Free"}]
  BY HeapTypes
<1>2. QED BY <1>1 DEF HeapType

(* Storing c at k of a map or in an array, with the mark b. *)
LEMMA PutOp ==
  ASSUME NEW H, HeapType(H), NEW n \in Node, NEW k \in Slot, NEW c \in Node, NEW b \in BOOLEAN,
         NEW G, G = [type |-> H.type, ref |-> H.ref,
                     kids |-> [H.kids EXCEPT ![n] = Set(H.kids[n], k, c)], moved |-> b],
         H.moved => b, n = iter.node /\ H.type[n] \in Maps => b,
         WellFormed(H.type[n], DOMAIN H.kids[n] \cup {k}),
         NEW out, out = IF k \in DOMAIN H.kids[n] THEN One(H.kids[n][k]) ELSE Nothing
  PROVE  Op(H, n, c, [heap |-> G, out |-> out])
<1> DEFINE f == H.kids[n]
           g == Set(f, k, c)
<1>1. f \in KidMaps
  BY NodeMaps
<1>2. g \in KidMaps /\ DOMAIN g = DOMAIN f \cup {k}
  BY <1>1, SetType
<1>3. out \in [Node -> Nat]
  BY DEF One, Nothing
<1>4. ASSUME NEW m \in Node
      PROVE  Refs(g)[m] + out[m] = Refs(f)[m] + One(c)[m]
  <2>1. IsFiniteSet(DOMAIN f)
    BY <1>1, KidMapsType
  <2>2. Refs(g)[m] + (IF k \in DOMAIN f /\ f[k] = m THEN 1 ELSE 0) = Refs(f)[m] + One(c)[m]
    BY <2>1, RefsSet
  <2>3. out[m] = IF k \in DOMAIN f /\ f[k] = m THEN 1 ELSE 0
    BY DEF One, Nothing
  <2>4. QED BY <2>2, <2>3
<1>5. G = [type |-> H.type, ref |-> H.ref, kids |-> [H.kids EXCEPT ![n] = g], moved |-> b]
  OBVIOUS
<1>6. WellFormed(H.type[n], DOMAIN g)
  BY <1>2
<1>7. \A m \in Node : Refs(g)[m] + out[m] = Refs(H.kids[n])[m] + One(c)[m]
  BY <1>4
<1> HIDE DEF g
<1>8. QED BY <1>2, <1>3, <1>5, <1>6, <1>7, SetKidsOp

LEMMA MapInsertOp ==
  ASSUME NEW H, HeapType(H), NEW n \in Node, NEW t \in Maps, NEW k \in Key, NEW c \in Node
  PROVE  Op(H, n, c, MapInsert(H, n, t, k, c))
<1>1. CASE H.type[n] # t
  <2>1. MapInsert(H, n, t, k, c) = [heap |-> H, out |-> One(c)]
    BY <1>1 DEF MapInsert
  <2>2. QED BY <2>1, LeavesOp
<1>2. CASE H.type[n] = t
  <2> DEFINE b == H.moved \/ n = iter.node
             G == Put(Bump(H, n), n, k, c)
             out == IF k \in DOMAIN H.kids[n] THEN One(H.kids[n][k]) ELSE Nothing
  <2>1. G = [type |-> H.type, ref |-> H.ref,
             kids |-> [H.kids EXCEPT ![n] = Set(H.kids[n], k, c)], moved |-> b]
    BY SetKidsForm DEF Put
  <2>2. k \in Slot /\ WellFormed(H.type[n], DOMAIN H.kids[n] \cup {k})
    BY <1>2, NodeMaps DEF WellFormed, Slot, Maps
  <2>3. MapInsert(H, n, t, k, c) = [heap |-> G, out |-> out]
    BY <1>2 DEF MapInsert
  <2>4. b \in BOOLEAN /\ (H.moved => b) /\ (n = iter.node => b)
    BY NodeMaps
  <2>5. out = IF k \in DOMAIN H.kids[n] THEN One(H.kids[n][k]) ELSE Nothing
    OBVIOUS
  <2> HIDE DEF b, G, out
  <2>6. Op(H, n, c, [heap |-> G, out |-> out])
    BY <2>1, <2>2, <2>4, <2>5, PutOp
  <2>7. QED BY <2>3, <2>6
<1>3. QED BY <1>1, <1>2

(* Removing the key k of a map, with the mark b. *)
LEMMA RemoveOp ==
  ASSUME NEW H, HeapType(H), NEW n \in Node, H.type[n] \in Maps,
         NEW k \in DOMAIN H.kids[n], NEW b \in BOOLEAN,
         NEW G, G = [type |-> H.type, ref |-> H.ref,
                     kids |-> [H.kids EXCEPT ![n] = Delete(H.kids[n], k)], moved |-> b],
         H.moved => b, n = iter.node => b
  PROVE  Op(H, n, None, [heap |-> G, out |-> One(H.kids[n][k])])
<1> DEFINE f == H.kids[n]
           g == Delete(f, k)
           out == One(f[k])
<1>1. f \in KidMaps
  BY NodeMaps
<1>2. g \in KidMaps /\ DOMAIN g = DOMAIN f \ {k}
  BY <1>1, DeleteType
<1>3. out \in [Node -> Nat]
  BY DEF One
<1>4. ASSUME NEW m \in Node
      PROVE  Refs(g)[m] + out[m] = Refs(f)[m] + One(None)[m]
  <2>1. IsFiniteSet(DOMAIN f)
    BY <1>1, KidMapsType
  <2>2. Refs(g)[m] + out[m] = Refs(f)[m] /\ Refs(f)[m] \in Nat
    BY <2>1, RefsDelete, RefsCount
  <2>3. One(None)[m] = 0
    BY DataAssumption DEF One
  <2>4. QED BY <2>2, <2>3
<1>5. WellFormed(H.type[n], DOMAIN g)
  BY <1>2, NodeMaps DEF WellFormed, Maps
<1>6. G = [type |-> H.type, ref |-> H.ref, kids |-> [H.kids EXCEPT ![n] = g], moved |-> b]
  OBVIOUS
<1>7. \A m \in Node : Refs(g)[m] + out[m] = Refs(H.kids[n])[m] + One(None)[m]
  BY <1>4
<1> HIDE DEF g, out
<1>8. Op(H, n, None, [heap |-> G, out |-> out])
  BY <1>2, <1>3, <1>5, <1>6, <1>7, SetKidsOp
<1>9. QED BY <1>8 DEF out

LEMMA MapEraseOp ==
  ASSUME NEW H, HeapType(H), NEW n \in Node, NEW k
  PROVE  /\ Op(H, n, None, ObjErase(H, n, k))
         /\ Op(H, n, None, IntMapErase(H, n, k))
<1>1. ASSUME H.type[n] \in Maps, k \in DOMAIN H.kids[n]
      PROVE  Op(H, n, None, MapErase(H, n, k))
  <2> DEFINE b == H.moved \/ n = iter.node
             G == SetKids(Bump(H, n), n, Delete(H.kids[n], k))
  <2>1. G = [type |-> H.type, ref |-> H.ref,
             kids |-> [H.kids EXCEPT ![n] = Delete(H.kids[n], k)], moved |-> b]
    BY SetKidsForm
  <2>2. b \in BOOLEAN /\ (H.moved => b) /\ (n = iter.node => b)
    BY NodeMaps
  <2>3. MapErase(H, n, k) = [heap |-> G, out |-> One(H.kids[n][k])]
    BY DEF MapErase
  <2> HIDE DEF b, G
  <2>4. Op(H, n, None, [heap |-> G, out |-> One(H.kids[n][k])])
    BY <1>1, <2>1, <2>2, RemoveOp
  <2>5. QED BY <2>3, <2>4
<1>2. "Object" \in Maps /\ "IntMap" \in Maps
  BY DEF Maps
<1>3. QED BY <1>1, <1>2, LeavesOp DEF ObjErase, IntMapErase

(* Emptying a container, with the mark b. *)
LEMMA EmptyOp ==
  ASSUME NEW H, HeapType(H), NEW n \in Node, H.type[n] \in Containers, NEW b \in BOOLEAN,
         NEW G, G = [type |-> H.type, ref |-> H.ref,
                     kids |-> [H.kids EXCEPT ![n] = NoKids], moved |-> b],
         H.moved => b, n = iter.node /\ H.type[n] \in Maps => b
  PROVE  Op(H, n, None, [heap |-> G, out |-> Refs(H.kids[n])])
<1> DEFINE f == H.kids[n]
           out == Refs(f)
<1>1. f \in KidMaps /\ NoKids \in KidMaps /\ DOMAIN NoKids = {}
  BY NodeMaps, NoKidsType
<1>2. \A m \in Node : Refs(f)[m] \in Nat
  BY <1>1, KidMapsType, RefsCount
<1>3. out \in [Node -> Nat]
  BY <1>2 DEF Refs
<1>4. \A m \in Node : Refs(NoKids)[m] + out[m] = Refs(H.kids[n])[m] + One(None)[m]
  <2>1. \A m \in Node : Refs(NoKids)[m] = 0 /\ One(None)[m] = 0
    BY RefsNoKids, DataAssumption DEF One
  <2>2. QED BY <2>1, <1>2
<1>5. WellFormed(H.type[n], DOMAIN NoKids)
  <2>1. {} = 1..0 /\ 0 \in 0..MaxLength
    BY DataAssumption
  <2>2. QED BY <1>1, <2>1 DEF WellFormed
<1> HIDE DEF out
<1>6. Op(H, n, None, [heap |-> G, out |-> out])
  BY <1>1, <1>3, <1>4, <1>5, SetKidsOp
<1>7. QED BY <1>6 DEF out

LEMMA ClearOp ==
  ASSUME NEW H, HeapType(H), NEW n \in Node
  PROVE  /\ Op(H, n, None, ObjClear(H, n))
         /\ Op(H, n, None, IntMapClear(H, n))
         /\ Op(H, n, None, ArrClear(H, n))
<1>1. ASSUME H.type[n] \in Containers
      PROVE  Op(H, n, None, MapClear(H, n))
  <2> DEFINE b == H.moved \/ n = iter.node
             G == SetKids(Bump(H, n), n, NoKids)
  <2>1. G = [type |-> H.type, ref |-> H.ref,
             kids |-> [H.kids EXCEPT ![n] = NoKids], moved |-> b]
    BY SetKidsForm
  <2>2. b \in BOOLEAN /\ (H.moved => b) /\ (n = iter.node => b)
    BY NodeMaps
  <2>3. MapClear(H, n) = [heap |-> G, out |-> Refs(H.kids[n])]
    BY DEF MapClear
  <2> HIDE DEF b, G
  <2>4. Op(H, n, None, [heap |-> G, out |-> Refs(H.kids[n])])
    BY <1>1, <2>1, <2>2, EmptyOp
  <2>5. QED BY <2>3, <2>4
<1>2. ASSUME H.type[n] = "Array"
      PROVE  Op(H, n, None, [heap |-> SetKids(H, n, NoKids), out |-> Refs(H.kids[n])])
  <2>1. SetKids(H, n, NoKids) = [type |-> H.type, ref |-> H.ref,
             kids |-> [H.kids EXCEPT ![n] = NoKids], moved |-> H.moved]
    BY SetKidsForm
  <2>2. H.type[n] \in Containers /\ H.type[n] \notin Maps /\ H.moved \in BOOLEAN
    BY <1>2, NodeMaps DEF Containers, Maps
  <2>3. QED BY <2>1, <2>2, EmptyOp
<1>3. "Object" \in Containers /\ "IntMap" \in Containers
  BY DEF Containers, Maps
<1>4. QED BY <1>1, <1>2, <1>3, LeavesOp DEF ObjClear, IntMapClear, ArrClear

(* The children of an array are numbered from 1. *)
LEMMA ArrayLength ==
  ASSUME NEW H, HeapType(H), NEW n \in Node, H.type[n] = "Array"
  PROVE  /\ Length(H.kids[n]) \in 0..MaxLength
         /\ DOMAIN H.kids[n] = 1..Length(H.kids[n])
<1>1. PICK l \in 0..MaxLength : DOMAIN H.kids[n] = 1..l
  BY NodeMaps DEF WellFormed
<1>2. Length(H.kids[n]) = l
  BY <1>1, FS_Interval, DataAssumption DEF Length
<1>3. QED BY <1>1, <1>2

LEMMA ArrRemoveOp ==
  ASSUME NEW H, HeapType(H), NEW n \in Node, NEW i
  PROVE  Op(H, n, None, ArrRemove(H, n, i))
<1>1. CASE ~InArray(H, n, i)
  BY <1>1, LeavesOp DEF ArrRemove
<1>2. CASE InArray(H, n, i)
  <2> DEFINE f == H.kids[n]
             l == Length(f)
             g == RemoveAt(f, i)
             out == One(f[i])
             G == SetKids(H, n, g)
  <2>1. H.type[n] = "Array" /\ i \in DOMAIN f
    BY <1>2 DEF InArray
  <2>2. l \in 0..MaxLength /\ DOMAIN f = 1..l
    BY <2>1, ArrayLength
  <2>3. f \in KidMaps
    BY NodeMaps
  <2>4. f \in [1..l -> Node] /\ 1..l \subseteq Slot
    BY <2>2, <2>3, KidMapsType
  <2>5. l \in Nat /\ i \in 1..l
    BY <2>1, <2>2, DataAssumption
  <2>6. ASSUME NEW m \in Node
        PROVE  DOMAIN g = 1..(l - 1) /\ Refs(g)[m] + One(f[i])[m] = Refs(f)[m] /\ Refs(f)[m] \in Nat
    <3>1. IsFiniteSet(DOMAIN f)
      BY <2>3, KidMapsType
    <3> HIDE DEF f, l
    <3>2. QED BY <3>1, <2>2, <2>5, RefsRemoveAt, RefsCount
  <2>7. DOMAIN g = 1..(l - 1)
    <3> HIDE DEF f, g
    <3>1. QED BY <2>6
  <2>8. g \in [1..(l - 1) -> Node]
    BY <2>4, <2>5 DEF RemoveAt
  <2>9. g \in KidMaps
    <3>1. 1..(l - 1) \subseteq Slot
      BY <2>4, <2>5
    <3> HIDE DEF g, l
    <3>2. QED BY <3>1, <2>8, KidMapsIntro
  <2>10. WellFormed(H.type[n], DOMAIN g)
    <3> HIDE DEF g, l
    <3>1. l - 1 \in 0..MaxLength
      BY <2>2, <2>5, DataAssumption
    <3>2. QED BY <3>1, <2>1, <2>7 DEF WellFormed, Maps
  <2>11. out \in [Node -> Nat]
    BY DEF One
  <2>12. \A m \in Node : Refs(g)[m] + out[m] = Refs(H.kids[n])[m] + One(None)[m]
    <3> TAKE m \in Node
    <3>1. Refs(g)[m] + out[m] = Refs(f)[m] /\ Refs(f)[m] \in Nat
      BY <2>6
    <3>2. One(None)[m] = 0
      BY DataAssumption DEF One
    <3> HIDE DEF g, out
    <3>3. QED BY <3>1, <3>2
  <2>13. G = [type |-> H.type, ref |-> H.ref, kids |-> [H.kids EXCEPT ![n] = g], moved |-> H.moved]
    BY SetKidsForm
  <2>14. H.moved \in BOOLEAN /\ H.type[n] \notin Maps
    BY <2>1, NodeMaps DEF Maps
  <2>15. ArrRemove(H, n, i) = [heap |-> G, out |-> out]
    BY <1>2 DEF ArrRemove
  <2> HIDE DEF g, G, out
  <2>16. Op(H, n, None, [heap |-> G, out |-> out])
    BY <2>9, <2>10, <2>11, <2>12, <2>13, <2>14, SetKidsOp
  <2>17. QED BY <2>15, <2>16
<1>3. QED BY <1>1, <1>2

LEMMA ArrSetOp ==
  ASSUME NEW H, HeapType(H), NEW n \in Node, NEW i, NEW c \in Node
  PROVE  Op(H, n, c, ArrSet(H, n, i, c))
<1>1. CASE ~InArray(H, n, i)
  BY <1>1, LeavesOp DEF ArrSet
<1>2. CASE InArray(H, n, i)
  <2> DEFINE f == H.kids[n]
             G == Put(H, n, i, c)
             out == One(f[i])
  <2>1. H.type[n] = "Array" /\ i \in DOMAIN f
    BY <1>2 DEF InArray
  <2>2. i \in Slot
    BY <2>1, NodeMaps, KidMapsType
  <2>3. G = [type |-> H.type, ref |-> H.ref,
             kids |-> [H.kids EXCEPT ![n] = Set(H.kids[n], i, c)], moved |-> H.moved]
    BY SetKidsForm DEF Put
  <2>4. WellFormed(H.type[n], DOMAIN f \cup {i})
    <3>1. DOMAIN f \cup {i} = DOMAIN f
      BY <2>1
    <3>2. QED BY <3>1, NodeMaps
  <2>5. H.moved \in BOOLEAN /\ H.type[n] \notin Maps
    BY <2>1, NodeMaps DEF Maps
  <2>6. ArrSet(H, n, i, c) = [heap |-> G, out |-> out]
    BY <1>2 DEF ArrSet
  <2>7. out = IF i \in DOMAIN H.kids[n] THEN One(H.kids[n][i]) ELSE Nothing
    BY <2>1
  <2> HIDE DEF G, out
  <2>8. Op(H, n, c, [heap |-> G, out |-> out])
    BY <2>2, <2>3, <2>4, <2>5, <2>7, PutOp
  <2>9. QED BY <2>6, <2>8
<1>3. QED BY <1>1, <1>2

LEMMA AppendOp ==
  ASSUME NEW H, HeapType(H), NEW n \in Node, H.type[n] = "Array",
         Length(H.kids[n]) < MaxLength, NEW c \in Node
  PROVE  Op(H, n, c, Leaves(Append2(H, n, c)))
<1> DEFINE f == H.kids[n]
           i == Length(f) + 1
           G == Append2(H, n, c)
<1>1. Length(f) \in 0..MaxLength /\ DOMAIN f = 1..Length(f)
  BY ArrayLength
<1>2. Length(f) \in Nat /\ i \in Index /\ i \in Slot /\ i \in 0..MaxLength
  BY <1>1, DataAssumption DEF Index, Slot
<1>3. DOMAIN f \cup {i} = 1..i /\ i \notin DOMAIN f
  BY <1>1, <1>2
<1>4. WellFormed(H.type[n], DOMAIN f \cup {i})
  BY <1>2, <1>3 DEF WellFormed, Maps
<1>5. G = [type |-> H.type, ref |-> H.ref,
           kids |-> [H.kids EXCEPT ![n] = Set(H.kids[n], i, c)], moved |-> H.moved]
  BY SetKidsForm DEF Put, Append2
<1>6. H.moved \in BOOLEAN /\ H.type[n] \notin Maps
  BY NodeMaps DEF Maps
<1>7. Nothing = IF i \in DOMAIN H.kids[n] THEN One(H.kids[n][i]) ELSE Nothing
  BY <1>3
<1> HIDE DEF i, G
<1>8. Op(H, n, c, [heap |-> G, out |-> Nothing])
  BY <1>2, <1>4, <1>5, <1>6, <1>7, PutOp
<1>9. QED BY <1>8 DEF Leaves, G

(* A node that gets c as a child, where it is not below c, closes no cycle. *)
LEMMA NoCycleAdd ==
  ASSUME NEW H, NEW G, NEW n \in Node, NEW c, NoCycle(H),
         \A m \in Node : Kids(H, m) \subseteq Node,
         \A m \in Node \ {n} : Kids(G, m) = Kids(H, m),
         Kids(G, n) \subseteq Kids(H, n) \cup {c},
         c \in Node => n \notin Below(H, {c})
  PROVE  NoCycle(G)
<1> SUFFICES ASSUME NEW S \in SUBSET Node, S # {}
             PROVE  \E s \in S : Kids(G, s) \cap S = {}
  BY DEF NoCycle
<1>1. PICK s \in S : Kids(H, s) \cap S = {}
  BY DEF NoCycle
<1>2. CASE s # n \/ c \notin S
  BY <1>1, <1>2
<1>3. CASE s = n /\ c \in S
  <2> DEFINE B == Below(H, {c})
             T == S \cap B
  <2>1. c \in Node /\ n \notin B
    BY <1>3
  <2>2. c \in B /\ B \subseteq Node
    BY <2>1, BelowSelf DEF Below
  <2>3. T # {} /\ T \in SUBSET Node
    BY <1>3, <2>2
  <2> HIDE DEF B
  <2>4. PICK u \in T : Kids(H, u) \cap T = {}
    BY <2>3 DEF NoCycle
  <2>5. Kids(H, u) \subseteq B
    <3> SUFFICES ASSUME NEW k \in Kids(H, u)
                 PROVE  k \in B
      OBVIOUS
    <3>1. k \in Node
      BY <2>3
    <3>2. QED BY <3>1, BelowClosed DEF B
  <2>6. Kids(H, u) \cap S = {} /\ u # n /\ u \in S
    BY <2>1, <2>4, <2>5
  <2>7. QED BY <2>6
<1>4. QED BY <1>2, <1>3

(* Such an operation keeps the heap good. The caller's reference to c becomes
   the container's, and what is released is held by the caller. *)
LEMMA OpGood ==
  ASSUME NEW H, NEW x, NEW col, Good(H, x, col), NEW n \in Node, NEW c \in Node \cup {None},
         NEW r, Op(H, n, c, r),
         c \in Node => col[c] = col[n] /\ n \notin Below(H, {c}),
         NEW y \in [Node -> Nat], \A m \in Node : y[m] + One(c)[m] = x[m] + r.out[m]
  PROVE  /\ Good(r.heap, y, col)
         /\ \A m \in Node : r.out[m] > 0 => col[m] = col[n]
<1> DEFINE G == r.heap
<1>1. /\ HeapType(G)
      /\ G.type = H.type /\ G.ref = H.ref
      /\ \A m \in Node \ {n} : G.kids[m] = H.kids[m]
      /\ r.out \in [Node -> Nat]
      /\ \A m \in Node : Refs(G.kids[n])[m] + r.out[m] = Refs(H.kids[n])[m] + One(c)[m]
  BY DEF Op
<1>2. HeapType(H) /\ col \in [Node -> Group] /\ x \in [Node -> Nat] /\ NoCycle(H)
      /\ Coloured(H, col)
  BY DEF Good
<1>3. H.kids[n] \in KidMaps /\ G.kids[n] \in KidMaps
  BY <1>1, <1>2, NodeMaps
<1>4. \A m \in Node : Refs(G.kids[n])[m] \in Nat /\ Refs(H.kids[n])[m] \in Nat
  BY <1>3, KidMapsType, RefsCount
<1>5. \A m \in Node : m \in Kids(H, n) <=> Refs(H.kids[n])[m] > 0
  BY <1>3, KidMapsType, RefsCount DEF Kids
<1>6. \A m \in Node : m \in Kids(G, n) <=> Refs(G.kids[n])[m] > 0
  BY <1>3, KidMapsType, RefsCount DEF Kids
<1> HIDE DEF G
<1>7. \A m \in Node : r.out[m] > 0 \/ Refs(G.kids[n])[m] > 0 => m \in Kids(H, n) \/ m = c
  <2> TAKE m \in Node
  <2>1. r.out[m] \in Nat /\ Refs(G.kids[n])[m] \in Nat /\ Refs(H.kids[n])[m] \in Nat
        /\ Refs(G.kids[n])[m] + r.out[m] = Refs(H.kids[n])[m] + One(c)[m]
    BY <1>1, <1>4
  <2>2. One(c)[m] = IF m = c THEN 1 ELSE 0
    BY OneType
  <2>3. QED BY <2>1, <2>2, <1>5
<1>8. \A m \in Node : r.out[m] > 0 => col[m] = col[n]
  <2> SUFFICES ASSUME NEW m \in Node, r.out[m] > 0
               PROVE  col[m] = col[n]
    OBVIOUS
  <2>1. m \in Kids(H, n) \/ m = c
    BY <1>7
  <2>2. QED BY <2>1, <1>2 DEF Coloured
<1>9. Kids(G, n) \subseteq Kids(H, n) \cup {c}
  <2>1. Kids(G, n) \subseteq Node
    BY <1>1, HeapTypes
  <2>2. QED BY <2>1, <1>6, <1>7
<1>10. \A m \in Node \ {n} : Kids(G, m) = Kids(H, m)
  BY <1>1 DEF Kids
<1>11. Coloured(G, col)
  <2> SUFFICES ASSUME NEW m \in Node, NEW k \in Kids(G, m)
               PROVE  col[k] = col[m]
    BY DEF Coloured
  <2>0. k \in Node
    BY <1>1, HeapTypes
  <2>1. CASE k \in Kids(H, m)
    BY <2>1, <1>2 DEF Coloured
  <2>2. CASE k = c /\ m = n
    BY <2>0, <2>2
  <2>3. QED BY <2>1, <2>2, <1>9, <1>10
<1>12. NoCycle(G)
  <2>1. \A m \in Node : Kids(H, m) \subseteq Node
    BY <1>2, HeapTypes
  <2>2. QED BY <2>1, <1>2, <1>9, <1>10, NoCycleAdd
<1>13. Balanced(G, y)
  <2> SUFFICES ASSUME NEW m \in Node
               PROVE  /\ G.ref[m] = Cardinality(Links(G, m)) + y[m]
                      /\ G.type[m] = "Free" <=> G.ref[m] = 0
    BY DEF Balanced
  <2>1. H.ref[m] = Cardinality(Links(H, m)) + x[m] /\ (H.type[m] = "Free" <=> H.ref[m] = 0)
    BY DEF Good, Balanced
  <2>2. Cardinality(Links(G, m)) + Refs(H.kids[n])[m] = Cardinality(Links(H, m)) + Refs(G.kids[n])[m]
    BY <1>1, <1>3, LinksChange, SMTT(40)
  <2>3. /\ Cardinality(Links(G, m)) \in Nat /\ Cardinality(Links(H, m)) \in Nat
        /\ Refs(H.kids[n])[m] \in Nat /\ Refs(G.kids[n])[m] \in Nat
        /\ x[m] \in Nat /\ y[m] \in Nat /\ r.out[m] \in Nat /\ One(c)[m] \in Nat
    BY <1>1, <1>2, <1>4, LinksFinite, OneType
  <2>4. /\ Refs(G.kids[n])[m] + r.out[m] = Refs(H.kids[n])[m] + One(c)[m]
        /\ y[m] + One(c)[m] = x[m] + r.out[m]
    BY <1>1
  <2>5. Cardinality(Links(G, m)) + y[m] = Cardinality(Links(H, m)) + x[m]
    BY <2>2, <2>3, <2>4
  <2>6. QED BY <1>1, <2>1, <2>5
<1>14. Good(G, y, col)
  BY <1>1, <1>2, <1>11, <1>12, <1>13 DEF Good
<1>15. QED BY <1>8, <1>14 DEF G

(* The two heaps that Decref leaves. *)
DecrefForm(H, n, G) ==
    /\ G.type = H.type
    /\ G.ref = [H.ref EXCEPT ![n] = H.ref[n] - 1]
    /\ G.kids = H.kids
    /\ G.moved = H.moved
    /\ G = [type |-> G.type, ref |-> G.ref, kids |-> G.kids, moved |-> G.moved]

FreeForm(H, n, G) ==
    /\ G.type = [H.type EXCEPT ![n] = "Free"]
    /\ G.ref = [H.ref EXCEPT ![n] = 0]
    /\ G.kids = [H.kids EXCEPT ![n] = NoKids]
    /\ G.moved = H.moved
    /\ G = [type |-> G.type, ref |-> G.ref, kids |-> G.kids, moved |-> G.moved]

LEMMA DecrefForms ==
  ASSUME NEW H, HeapType(H), NEW n \in Node
  PROVE  /\ DecrefForm(H, n, [H EXCEPT !.ref[n] = @ - 1])
         /\ FreeForm(H, n, [H EXCEPT !.ref[n] = 0, !.type[n] = "Free", !.kids[n] = NoKids])
<1>1. H = [type |-> H.type, ref |-> H.ref, kids |-> H.kids, moved |-> H.moved]
  BY HeapTypes
<1> DEFINE D == [H EXCEPT !.ref[n] = @ - 1]
           F == [H EXCEPT !.ref[n] = 0, !.type[n] = "Free", !.kids[n] = NoKids]
<1>2. DecrefForm(H, n, D)
  <2>1. /\ D.type = H.type
        /\ D.ref = [H.ref EXCEPT ![n] = H.ref[n] - 1]
        /\ D.kids = H.kids
        /\ D.moved = H.moved
        /\ D = [type |-> D.type, ref |-> D.ref, kids |-> D.kids, moved |-> D.moved]
    BY <1>1
  <2> HIDE DEF D
  <2>2. QED BY <2>1 DEF DecrefForm
<1>3. FreeForm(H, n, F)
  <2>1. F = [H EXCEPT !.ref[n] = 0, !.type[n] = "Free", !.kids[n] = NoKids]
    OBVIOUS
  <2> HIDE DEF F
  <2>2. QED BY <1>1, <2>1, SetThree DEF FreeForm
<1>4. QED BY <1>2, <1>3

(* Decref, of a reference that the caller holds. *)
LEMMA DecrefGood ==
  ASSUME NEW H, NEW x, NEW col, Good(H, x, col), NEW n \in Node, x[n] > 0, H.ref[n] > 1,
         NEW G, DecrefForm(H, n, G),
         NEW y \in [Node -> Nat], \A m \in Node : y[m] + One(n)[m] = x[m]
  PROVE  /\ Good(G, y, col)
         /\ G.type = H.type /\ G.kids = H.kids /\ G.moved = H.moved
         /\ \A m \in Node \ {n} : G.ref[m] = H.ref[m]
<1>1. HeapType(H) /\ x \in [Node -> Nat] /\ NoCycle(H) /\ Coloured(H, col)
  BY DEF Good
<1>2. /\ G.type = H.type
      /\ G.ref = [H.ref EXCEPT ![n] = H.ref[n] - 1]
      /\ G.kids = H.kids
      /\ G.moved = H.moved
      /\ G = [type |-> G.type, ref |-> G.ref, kids |-> G.kids, moved |-> G.moved]
  BY DEF DecrefForm
<1>3. H.ref \in [Node -> Nat]
  BY <1>1, HeapTypes
<1>4. HeapType(G)
  <2>1. G.ref \in [Node -> Nat]
    BY <1>2, <1>3
  <2>2. \A k \in Node : WellFormed(G.type[k], DOMAIN G.kids[k])
    BY <1>1, <1>2 DEF HeapType
  <2>3. /\ G.type \in [Node -> Containers \cup {"Int", "Free"}]
        /\ G.kids \in [Node -> KidMaps] /\ G.moved \in BOOLEAN
    BY <1>1, <1>2, HeapTypes
  <2>4. QED BY <1>2, <2>1, <2>2, <2>3 DEF HeapType
<1>5. Balanced(G, y)
  <2> SUFFICES ASSUME NEW m \in Node
               PROVE  /\ G.ref[m] = Cardinality(Links(G, m)) + y[m]
                      /\ G.type[m] = "Free" <=> G.ref[m] = 0
    BY DEF Balanced
  <2>1. Links(G, m) = Links(H, m)
    BY <1>2, SameKids
  <2>2. H.ref[m] = Cardinality(Links(H, m)) + x[m] /\ (H.type[m] = "Free" <=> H.ref[m] = 0)
    BY DEF Good, Balanced
  <2>3. y[m] + (IF m = n THEN 1 ELSE 0) = x[m] /\ x[m] \in Nat /\ y[m] \in Nat
    BY <1>1, OneType
  <2>4. G.ref[m] = (IF m = n THEN H.ref[m] - 1 ELSE H.ref[m]) /\ G.type[m] = H.type[m]
    BY <1>2, <1>3
  <2>5. H.ref[m] \in Nat /\ Cardinality(Links(H, m)) \in Nat
    BY <1>3, LinksFinite
  <2>6. QED BY <2>1, <2>2, <2>3, <2>4, <2>5
<1>6. NoCycle(G) /\ Coloured(G, col)
  BY <1>1, <1>2, SameKids
<1>7. Good(G, y, col)
  BY <1>4, <1>5, <1>6 DEF Good
<1>8. QED BY <1>2, <1>3, <1>7

(* The last reference: the block is freed and the caller holds its children. *)
LEMMA FreeGood ==
  ASSUME NEW H, NEW x, NEW col, Good(H, x, col), NEW n \in Node, x[n] > 0, ~(H.ref[n] > 1),
         NEW G, FreeForm(H, n, G),
         NEW y, y \in [Node -> Int],
         \A m \in Node : y[m] + One(n)[m] = x[m] + Refs(H.kids[n])[m]
  PROVE  /\ Good(G, y, col)
         /\ G.moved = H.moved /\ x[n] = 1
         /\ y \in [Node -> Nat]
         /\ \A m \in Node \ {n} :
               G.type[m] = H.type[m] /\ G.kids[m] = H.kids[m] /\ G.ref[m] = H.ref[m]
         /\ \A m \in Node : Refs(H.kids[n])[m] > 0 => col[m] = col[n]
         /\ G.type[n] = "Free"
<1>1. HeapType(H) /\ x \in [Node -> Nat] /\ NoCycle(H) /\ Coloured(H, col)
      /\ col \in [Node -> Group]
  BY DEF Good
<1>2. /\ G.type = [H.type EXCEPT ![n] = "Free"]
      /\ G.ref = [H.ref EXCEPT ![n] = 0]
      /\ G.kids = [H.kids EXCEPT ![n] = NoKids]
      /\ G.moved = H.moved
      /\ G = [type |-> G.type, ref |-> G.ref, kids |-> G.kids, moved |-> G.moved]
  BY DEF FreeForm
<1>3. H.ref \in [Node -> Nat] /\ H.type \in [Node -> Containers \cup {"Int", "Free"}]
      /\ H.kids \in [Node -> KidMaps] /\ H.moved \in BOOLEAN
  BY <1>1, HeapTypes
<1>4. /\ \A m \in Node \ {n} :
            G.type[m] = H.type[m] /\ G.kids[m] = H.kids[m] /\ G.ref[m] = H.ref[m]
      /\ G.type[n] = "Free" /\ G.kids[n] = NoKids /\ G.ref[n] = 0
  BY <1>2, <1>3
<1>5. HeapType(G)
  <2>1. G.ref \in [Node -> Nat] /\ G.type \in [Node -> Containers \cup {"Int", "Free"}]
    BY <1>2, <1>3
  <2>2. \A k \in Node : WellFormed(G.type[k], DOMAIN G.kids[k])
    <3>1. WellFormed(G.type[n], DOMAIN G.kids[n])
      BY <1>4, NoKidsType DEF WellFormed, Maps
    <3>2. QED BY <3>1, <1>1, <1>4 DEF HeapType
  <2>3. G.kids \in [Node -> KidMaps] /\ G.moved \in BOOLEAN
    BY <1>2, <1>3, NoKidsType
  <2>4. QED BY <1>2, <2>1, <2>2, <2>3 DEF HeapType
<1>6. \A m \in Node : Refs(H.kids[n])[m] \in Nat
  BY <1>3, KidMapsType, RefsCount
<1>7. \A m \in Node : Refs(H.kids[n])[m] > 0 => col[m] = col[n]
  <2> SUFFICES ASSUME NEW m \in Node, Refs(H.kids[n])[m] > 0
               PROVE  m \in Kids(H, n)
    BY <1>1 DEF Coloured
  <2>1. H.kids[n] \in KidMaps
    BY <1>3
  <2>2. QED BY <2>1, KidMapsType, RefsCount DEF Kids
<1>8a. ASSUME NEW m \in Node
       PROVE  Cardinality(Links(G, m)) + Refs(H.kids[n])[m] = Cardinality(Links(H, m))
  <2>1. H.kids[n] \in KidMaps /\ G.kids[n] \in KidMaps /\ G.kids[n] = NoKids
    BY <1>3, <1>4, NoKidsType
  <2>2. \A k \in Node \ {n} : G.kids[k] = H.kids[k]
    BY <1>4
  <2>3. Cardinality(Links(G, m)) + Refs(H.kids[n])[m] = Cardinality(Links(H, m)) + Refs(G.kids[n])[m]
    BY <2>1, <2>2, LinksChange
  <2>4. Refs(G.kids[n])[m] = 0 /\ Cardinality(Links(H, m)) \in Nat
    BY <2>1, RefsNoKids, LinksFinite
  <2>5. QED BY <2>3, <2>4
<1>8. x[n] = 1 /\ Cardinality(Links(H, n)) = 0 /\ Refs(H.kids[n])[n] = 0
  <2>1. H.ref[n] = Cardinality(Links(H, n)) + x[n] /\ H.ref[n] \in Nat /\ x[n] \in Nat
        /\ Cardinality(Links(H, n)) \in Nat
    BY <1>1, <1>3, LinksFinite DEF Good, Balanced
  <2>2. x[n] = 1 /\ Cardinality(Links(H, n)) = 0
    BY <2>1
  <2>3. Cardinality(Links(G, n)) + Refs(H.kids[n])[n] = Cardinality(Links(H, n))
    BY <1>8a
  <2>4. Cardinality(Links(G, n)) \in Nat /\ Refs(H.kids[n])[n] \in Nat
    BY LinksFinite, <1>6
  <2>5. QED BY <2>2, <2>3, <2>4
<1>9. Balanced(G, y)
  <2> SUFFICES ASSUME NEW m \in Node
               PROVE  /\ G.ref[m] = Cardinality(Links(G, m)) + y[m]
                      /\ G.type[m] = "Free" <=> G.ref[m] = 0
    BY DEF Balanced
  <2>1. Cardinality(Links(G, m)) + Refs(H.kids[n])[m] = Cardinality(Links(H, m))
    BY <1>8a
  <2>2. H.ref[m] = Cardinality(Links(H, m)) + x[m] /\ (H.type[m] = "Free" <=> H.ref[m] = 0)
    BY DEF Good, Balanced
  <2>3. y[m] + (IF m = n THEN 1 ELSE 0) = x[m] + Refs(H.kids[n])[m] /\ x[m] \in Nat /\ y[m] \in Int
    BY <1>1, OneType
  <2>4. H.ref[m] \in Nat /\ Cardinality(Links(H, m)) \in Nat /\ Cardinality(Links(G, m)) \in Nat
        /\ Refs(H.kids[n])[m] \in Nat
    BY <1>3, <1>6, LinksFinite
  <2>5. CASE m = n
    <3>1. Cardinality(Links(G, m)) = 0
      BY <2>1, <2>4, <2>5, <1>8
    <3>2. y[m] = 0
      BY <2>3, <2>5, <1>8
    <3>3. G.ref[m] = 0 /\ G.type[m] = "Free"
      BY <2>5, <1>4
    <3>4. QED BY <3>1, <3>2, <3>3
  <2>6. CASE m # n
    <3>1. G.ref[m] = H.ref[m] /\ G.type[m] = H.type[m]
      BY <2>6, <1>4
    <3>2. y[m] = x[m] + Refs(H.kids[n])[m]
      BY <2>3, <2>4, <2>6
    <3>3. Cardinality(Links(G, m)) + y[m] = Cardinality(Links(H, m)) + x[m]
      BY <2>1, <2>3, <2>4, <3>2
    <3>4. QED BY <2>2, <3>1, <3>3
  <2>7. QED BY <2>5, <2>6
<1>10. y \in [Node -> Nat]
  <2> SUFFICES ASSUME NEW m \in Node
               PROVE  y[m] \in Nat
    OBVIOUS
  <2>1. y[m] + (IF m = n THEN 1 ELSE 0) = x[m] + Refs(H.kids[n])[m] /\ x[m] \in Nat /\ y[m] \in Int
        /\ Refs(H.kids[n])[m] \in Nat
    BY <1>1, <1>6, OneType
  <2>2. QED BY <2>1, <1>8
<1>11. \A m \in Node : Kids(G, m) \subseteq Kids(H, m)
  <2>1. Kids(G, n) = {}
    BY <1>4, NoKidsType DEF Kids
  <2>2. \A m \in Node \ {n} : Kids(G, m) = Kids(H, m)
    BY <1>4 DEF Kids
  <2>3. QED BY <2>1, <2>2
<1>12. NoCycle(G) /\ Coloured(G, col)
  <2>1. NoCycle(G)
    <3> SUFFICES ASSUME NEW S \in SUBSET Node, S # {}
                 PROVE  \E s \in S : Kids(G, s) \cap S = {}
      BY DEF NoCycle
    <3>1. PICK s \in S : Kids(H, s) \cap S = {}
      BY <1>1 DEF NoCycle
    <3>2. QED BY <3>1, <1>11
  <2>2. Coloured(G, col)
    BY <1>1, <1>11 DEF Coloured
  <2>3. QED BY <2>1, <2>2
<1>13. Good(G, y, col)
  BY <1>1, <1>5, <1>9, <1>10, <1>12 DEF Good
<1>14. QED BY <1>2, <1>4, <1>7, <1>8, <1>10, <1>13

(* What a parser returns is made of free blocks, to which nothing else refers. *)
LEMMA ParsesType ==
  ASSUME NEW H, NEW r \in FreeNodes(H), NEW f \in Parses(H, r)
  PROVE  /\ f \in KidMaps /\ DOMAIN f \subseteq Key
         /\ \A k \in DOMAIN f : f[k] \in FreeNodes(H) \ {r}
         /\ \A m \in Node : Refs(f)[m] = IF \E k \in DOMAIN f : f[k] = m THEN 1 ELSE 0
<1>1. PICK K \in SUBSET Key : f \in [K -> FreeNodes(H) \ {r}]
  BY DEF Parses
<1>2. \A j, k \in DOMAIN f : f[j] = f[k] => j = k
  BY DEF Parses
<1>3. K \in SUBSET Slot /\ f \in [K -> Node]
  BY <1>1 DEF Slot, FreeNodes
<1>4. f \in KidMaps
  BY <1>3, KidMapsIntro
<1>5. ASSUME NEW m \in Node
      PROVE  Refs(f)[m] = IF \E k \in DOMAIN f : f[k] = m THEN 1 ELSE 0
  <2> DEFINE S == {k \in DOMAIN f : f[k] = m}
  <2>1. Refs(f)[m] = Cardinality(S)
    BY DEF Refs
  <2>2. CASE \E k \in DOMAIN f : f[k] = m
    <3>1. PICK k \in DOMAIN f : f[k] = m
      BY <2>2
    <3>2. S = {k}
      BY <3>1, <1>2
    <3> HIDE DEF S
    <3>3. QED BY <2>1, <2>2, <3>2, FS_Singleton
  <2>3. CASE ~\E k \in DOMAIN f : f[k] = m
    <3>1. S = {}
      BY <2>3
    <3> HIDE DEF S
    <3>2. QED BY <2>1, <2>3, <3>1, FS_EmptySet
  <2>4. QED BY <2>2, <2>3
<1>6. QED BY <1>1, <1>4, <1>5

ParsedNodes(r, f) == {f[k] : k \in DOMAIN f} \cup {r}

LEMMA ParsedGood ==
  ASSUME NEW H, NEW x, NEW col, Good(H, x, col), NEW r \in FreeNodes(H), NEW f \in Parses(H, r),
         NEW g \in Group, NEW c2 \in [Node -> Group],
         \A n \in Node : c2[n] = IF n \in ParsedNodes(r, f) THEN g ELSE col[n],
         NEW y \in [Node -> Nat], \A m \in Node : y[m] = x[m] + One(r)[m],
         NEW G, G = Parsed(H, r, f)
  PROVE  /\ Good(G, y, c2)
         /\ G.moved = H.moved
         /\ r \in ParsedNodes(r, f) /\ ParsedNodes(r, f) \subseteq FreeNodes(H)
         /\ \A m \in Node \ ParsedNodes(r, f) :
               G.type[m] = H.type[m] /\ G.kids[m] = H.kids[m] /\ G.ref[m] = H.ref[m]
<1> DEFINE M == ParsedNodes(r, f)
           L == {f[k] : k \in DOMAIN f}
<1>1. /\ f \in KidMaps /\ DOMAIN f \subseteq Key
      /\ \A k \in DOMAIN f : f[k] \in FreeNodes(H) \ {r}
      /\ \A m \in Node : Refs(f)[m] = IF m \in L THEN 1 ELSE 0
  BY ParsesType
<1>2. M = L \cup {r} /\ r \notin L /\ L \subseteq FreeNodes(H) /\ M \subseteq FreeNodes(H)
  BY <1>1 DEF ParsedNodes
<1>3. M \subseteq Node
  BY <1>2 DEF FreeNodes
<1>4. HeapType(H) /\ x \in [Node -> Nat] /\ NoCycle(H)
  BY DEF Good
<1>5. /\ H.type \in [Node -> Containers \cup {"Int", "Free"}] /\ H.ref \in [Node -> Nat]
      /\ H.kids \in [Node -> KidMaps] /\ H.moved \in BOOLEAN
  BY <1>4, HeapTypes
<1>6. \A m \in M : /\ H.kids[m] = NoKids /\ x[m] = 0 /\ Cardinality(Links(H, m)) = 0
                   /\ Kids(H, m) = {}
  BY <1>2, FreeAlone
<1>7. /\ G.type = [m \in Node |-> IF m = r THEN "Object" ELSE IF m \in L THEN "Int" ELSE H.type[m]]
      /\ G.ref = [m \in Node |-> IF m \in L \cup {r} THEN 1 ELSE H.ref[m]]
      /\ G.kids = [m \in Node |-> IF m = r THEN f ELSE H.kids[m]]
      /\ G.moved = H.moved
      /\ G = [type |-> G.type, ref |-> G.ref, kids |-> G.kids, moved |-> G.moved]
  BY DEF Parsed
<1>8. Good(H, x, c2)
  <2>1. \A n \in Node \ M : c2[n] = col[n]
    OBVIOUS
  <2> HIDE DEF M
  <2>2. QED BY <1>2, <2>1, Recolour
<1>9. c2 \in [Node -> Group] /\ Coloured(H, c2)
  BY <1>8 DEF Good
<1>10. \A m \in M : c2[m] = g
  BY <1>3
<1> HIDE DEF L, M
<1>11. \A m \in Node \ M : G.type[m] = H.type[m] /\ G.kids[m] = H.kids[m] /\ G.ref[m] = H.ref[m]
  BY <1>2, <1>7
<1>12. \A m \in L : G.type[m] = "Int" /\ G.kids[m] = NoKids /\ G.ref[m] = 1
  BY <1>2, <1>3, <1>6, <1>7
<1>13. r \in Node /\ r \in M /\ G.type[r] = "Object" /\ G.kids[r] = f /\ G.ref[r] = 1
  BY <1>2, <1>3, <1>7
<1>14. HeapType(G)
  <2>1. G.type \in [Node -> Containers \cup {"Int", "Free"}]
    BY <1>5, <1>7 DEF Containers, Maps
  <2>2. G.ref \in [Node -> Nat] /\ G.kids \in [Node -> KidMaps]
    BY <1>1, <1>5, <1>7
  <2>3. ASSUME NEW m \in Node
        PROVE  WellFormed(G.type[m], DOMAIN G.kids[m])
    <3>1. CASE m \in Node \ M
      BY <3>1, <1>11, <1>4 DEF HeapType
    <3>2. CASE m \in L
      BY <3>2, <1>12, NoKidsType DEF WellFormed, Maps
    <3>3. CASE m = r
      BY <3>3, <1>1, <1>13 DEF WellFormed, Maps
    <3>4. QED BY <3>1, <3>2, <3>3, <1>2
  <2>4. QED BY <2>1, <2>2, <2>3, <1>5, <1>7 DEF HeapType
<1>15. \A m \in Node \ {r} : Kids(G, m) = Kids(H, m)
  BY <1>7 DEF Kids
<1>16. Kids(G, r) = L
  BY <1>13 DEF Kids, L
<1>17. NoCycle(G)
  <2> SUFFICES ASSUME NEW S \in SUBSET Node, S # {}
               PROVE  \E s \in S : Kids(G, s) \cap S = {}
    BY DEF NoCycle
  <2>1. PICK s \in S : Kids(H, s) \cap S = {}
    BY <1>4 DEF NoCycle
  <2>2. CASE s # r
    BY <2>1, <2>2, <1>15
  <2>3. CASE s = r /\ L \cap S = {}
    BY <2>3, <1>16
  <2>4. CASE L \cap S # {}
    <3>1. PICK l \in L : l \in S
      BY <2>4
    <3>2. l \in M /\ l \in Node \ {r}
      BY <1>2, <1>3
    <3>3. Kids(G, l) = {}
      BY <1>6, <1>15, <3>2
    <3>4. QED BY <3>1, <3>3
  <2>5. QED BY <2>2, <2>3, <2>4
<1>18. Coloured(G, c2)
  <2> SUFFICES ASSUME NEW m \in Node, NEW k \in Kids(G, m)
               PROVE  c2[k] = c2[m]
    BY DEF Coloured
  <2>1. CASE m # r
    BY <2>1, <1>9, <1>15 DEF Coloured
  <2>2. CASE m = r
    <3>1. k \in M /\ m \in M
      BY <2>2, <1>2, <1>16
    <3>2. QED BY <3>1, <1>10
  <2>3. QED BY <2>1, <2>2
<1>19. Balanced(G, y)
  <2> SUFFICES ASSUME NEW m \in Node
               PROVE  /\ G.ref[m] = Cardinality(Links(G, m)) + y[m]
                      /\ G.type[m] = "Free" <=> G.ref[m] = 0
    BY DEF Balanced
  <2>1. Cardinality(Links(G, m)) = Cardinality(Links(H, m)) + Refs(f)[m]
    <3>1. H.kids[r] \in KidMaps /\ G.kids[r] \in KidMaps /\ H.kids[r] = NoKids
      BY <1>1, <1>5, <1>6, <1>13
    <3>2. \A k \in Node \ {r} : G.kids[k] = H.kids[k]
      BY <1>7
    <3>3. Cardinality(Links(G, m)) + Refs(H.kids[r])[m] = Cardinality(Links(H, m)) + Refs(G.kids[r])[m]
      BY <1>13, <3>1, <3>2, LinksChange
    <3>4. Refs(H.kids[r])[m] = 0 /\ Cardinality(Links(G, m)) \in Nat
      BY <3>1, RefsNoKids, LinksFinite
    <3>5. QED BY <3>3, <3>4, <1>13
  <2>2. y[m] = x[m] + (IF m = r THEN 1 ELSE 0) /\ x[m] \in Nat
    BY <1>4, OneType
  <2>3. Refs(f)[m] = IF m \in L THEN 1 ELSE 0
    BY <1>1
  <2>4. CASE m = r
    <3>1. Cardinality(Links(H, m)) = 0 /\ x[m] = 0 /\ m \notin L
      BY <2>4, <1>2, <1>6, <1>13
    <3>2. G.ref[m] = 1 /\ G.type[m] # "Free"
      BY <2>4, <1>13
    <3>3. QED BY <2>1, <2>2, <2>3, <2>4, <3>1, <3>2
  <2>5. CASE m \in L
    <3>1. Cardinality(Links(H, m)) = 0 /\ x[m] = 0 /\ m # r
      BY <2>5, <1>2, <1>6
    <3>2. G.ref[m] = 1 /\ G.type[m] # "Free"
      BY <2>5, <1>12
    <3>3. QED BY <2>1, <2>2, <2>3, <2>5, <3>1, <3>2
  <2>6. CASE m \notin M
    <3>1. G.ref[m] = H.ref[m] /\ G.type[m] = H.type[m] /\ m # r /\ m \notin L
      BY <2>6, <1>2, <1>11
    <3>2. H.ref[m] = Cardinality(Links(H, m)) + x[m] /\ (H.type[m] = "Free" <=> H.ref[m] = 0)
      BY DEF Good, Balanced
    <3>3. Cardinality(Links(H, m)) \in Nat
      BY LinksFinite
    <3>4. QED BY <2>1, <2>2, <2>3, <3>1, <3>2, <3>3
  <2>7. QED BY <2>4, <2>5, <2>6, <1>2
<1>20. Good(G, y, c2)
  BY <1>9, <1>14, <1>17, <1>18, <1>19 DEF Good
<1>21. QED BY <1>2, <1>7, <1>11, <1>13, <1>20 DEF M

-----------------------------------------------------------------------------
(* The inductive invariant. Every block belongs to one group of holders:   *)
(* plugins (handles, the iterator, what the game thread releases), the     *)
(* body of a request, the copy under way, what was parsed, and what the    *)
(* event thread has. The colouring is not part of the state; that there is *)
(* one is what keeps the threads apart.                                    *)

StateType ==
    /\ json \in [Handle -> Node \cup {None}]
    /\ iter \in [slot : Handle \cup {None}, node : Node \cup {None}, todo : SUBSET Key,
                 keys : SUBSET Key, value : Node \cup {None}]
    /\ {body, sent, parsed} \subseteq Node \cup {None}
    /\ drop \in [Thread -> [Node -> Nat]]
    /\ copy \in [root : Node \cup {None}, of : UNION {[S -> Node] : S \in SUBSET Node}]
    /\ job \in [op : {"None", "Copy", "Body", "Send", "Merge", "Extend"},
                h : Handle \cup {None}, o : Handle \cup {None}, todo : SUBSET Slot,
                overwrite : BOOLEAN]

HeldF == [n \in Node |-> Held(n)]

PluginHolds(n) == Refs(json)[n] + One(iter.node)[n] + drop["game"][n]
EventHolds(n) == One(sent)[n] + drop["event"][n]

(* What a holder holds has its colour. *)
RootsOK(col) ==
    \A n \in Node :
        /\ PluginHolds(n) > 0 => col[n] = "plugin"
        /\ n = body => col[n] = "body"
        /\ n = copy.root => col[n] = "copy"
        /\ n = parsed => col[n] = "parsed"
        /\ EventHolds(n) > 0 => col[n] = "event"

(* d is a copy, as far as it got, of an original that plugins hold. *)
CopyNode(col, d) ==
    /\ NonFree(heap, d) /\ NonFree(heap, copy.of[d])
    /\ heap.ref[d] = 1
    /\ col[copy.of[d]] = "plugin"
    /\ d \in Below(heap, {copy.root})
    /\ copy.of[d] \in Below(heap, {copy.of[copy.root]})
    /\ heap.type[d] = heap.type[copy.of[d]]
    /\ \A k \in DOMAIN heap.kids[d] :
          /\ k \in DOMAIN heap.kids[copy.of[d]]
          /\ heap.kids[d][k] \in DOMAIN copy.of
          /\ copy.of[heap.kids[d][k]] = heap.kids[copy.of[d]][k]

(* The copy is made of all the blocks of its colour, which were free before. *)
CopyInv(col) ==
    /\ \A n \in Node : NonFree(heap, n) => (col[n] = "copy" <=> n \in DOMAIN copy.of)
    /\ copy = NoCopy \/ copy.root \in DOMAIN copy.of
    /\ \A d \in DOMAIN copy.of : CopyNode(col, d)

(* The containers of a merge or an extension are those it began with, and the
   key whose value is being copied is not in the target. *)
LoopInv ==
    /\ job.o \in Handle
    /\ Target \in Node /\ Source \in Node
    /\ Target # Source
    /\ job.todo \subseteq DOMAIN heap.kids[Source]
    /\ heap.type[Target] = heap.type[Source]
    /\ job.op = "Merge" => heap.type[Target] \in Maps /\ Target # iter.node
    /\ job.op = "Extend" => heap.type[Target] = "Array"
    /\ job.op = "Merge" /\ copy # NoCopy =>
          \A k \in job.todo : (\A j \in job.todo : k <= j) => k \notin DOMAIN heap.kids[Target]

JobInv ==
    /\ job.op = "None" => job = NoJob
    /\ job = NoJob => copy = NoCopy
    /\ copy # NoCopy => drop["game"] = Nothing
    /\ job.op # "None" => job.h \in Handle
    /\ job.todo # {} => job.op \in {"Merge", "Extend"}
    /\ job.op \in {"Merge", "Extend"} => LoopInv

IterOK ==
    /\ IterFresh
    /\ iter.node \in Node => heap.type[iter.node] \in Maps
    /\ iter.todo \subseteq iter.keys

Inv(col) ==
    /\ Good(heap, HeldF, col)
    /\ StateType
    /\ RootsOK(col)
    /\ CopyInv(col)
    /\ JobInv
    /\ IterOK

DataInv == \E col \in [Node -> Group] : Inv(col)

-----------------------------------------------------------------------------
(* Holders.                                                                *)

LEMMA JsonRefs ==
  ASSUME NEW j \in [Handle -> Node \cup {None}], NEW m \in Node
  PROVE  /\ Refs(j)[m] \in Nat
         /\ \A h \in Handle : j[h] = m => Refs(j)[m] > 0
<1>1. DOMAIN j = Handle /\ IsFiniteSet(DOMAIN j)
  BY DataAssumption
<1>2. QED BY <1>1, RefsCount

LEMMA JsonSet ==
  ASSUME NEW j \in [Handle -> Node \cup {None}], NEW h \in Handle,
         NEW i \in [Handle -> Node \cup {None}], \A g \in Handle \ {h} : i[g] = j[g],
         NEW m \in Node
  PROVE  Refs(i)[m] + One(j[h])[m] = Refs(j)[m] + One(i[h])[m]
<1>1. DOMAIN j = Handle /\ IsFiniteSet(DOMAIN j)
  BY DataAssumption
<1>2. i = Set(j, h, i[h])
  <2>1. Handle \cup {h} = Handle
    OBVIOUS
  <2>2. Set(j, h, i[h]) = [g \in Handle |-> IF g = h THEN i[h] ELSE j[g]]
    BY <1>1, <2>1 DEF Set
  <2>3. QED BY <2>2
<1> DEFINE v == i[h]
           s == Set(j, h, v)
<1>3. Refs(s)[m] + (IF h \in DOMAIN j /\ j[h] = m THEN 1 ELSE 0) = Refs(j)[m] + One(v)[m]
  <2> HIDE DEF v
  <2>1. QED BY <1>1, RefsSet
<1>4. One(j[h])[m] = IF h \in DOMAIN j /\ j[h] = m THEN 1 ELSE 0
  BY <1>1, OneType
<1>5. s = i
  BY <1>2
<1> HIDE DEF s
<1>6. QED BY <1>3, <1>4, <1>5

(* The handles and the references that the game thread has still to release:
   together they gain b. *)
GameHolds(b) ==
    /\ json' \in [Handle -> Node \cup {None}]
    /\ drop' \in [Thread -> [Node -> Nat]]
    /\ drop'["event"] = drop["event"]
    /\ \A m \in Node : Refs(json')[m] + drop'["game"][m] = Refs(json)[m] + drop["game"][m] + b[m]

LEMMA PlusType ==
  ASSUME NEW a \in [Node -> Nat], NEW b \in [Node -> Nat]
  PROVE  Plus(a, b) \in [Node -> Nat] /\ \A m \in Node : Plus(a, b)[m] = a[m] + b[m]
BY DEF Plus

LEMMA OneNothing ==
  ASSUME NEW c
  PROVE  /\ One(c) \in [Node -> Nat] /\ Nothing \in [Node -> Nat]
         /\ \A m \in Node : Nothing[m] = 0
         /\ \A m \in Node : One(None)[m] = 0
BY DataAssumption DEF One, Nothing

LEMMA ReleaseHolds ==
  ASSUME StateType, NEW b \in [Node -> Nat], Release("game", b), UNCHANGED json
  PROVE  GameHolds(b)
<1>1. drop \in [Thread -> [Node -> Nat]] /\ json \in [Handle -> Node \cup {None}]
      /\ "game" \in Thread /\ "event" \in Thread
  BY DEF StateType, Thread
<1>2. drop["game"] \in [Node -> Nat]
  BY <1>1
<1>3. /\ Plus(drop["game"], b) \in [Node -> Nat]
      /\ \A m \in Node : Plus(drop["game"], b)[m] = drop["game"][m] + b[m]
  BY <1>2, PlusType
<1>4. drop' = [drop EXCEPT !["game"] = Plus(drop["game"], b)]
  BY DEF Release
<1>5. /\ drop' \in [Thread -> [Node -> Nat]] /\ drop'["event"] = drop["event"]
      /\ drop'["game"] = Plus(drop["game"], b)
  BY <1>1, <1>3, <1>4
<1>6. ASSUME NEW m \in Node
      PROVE  Refs(json)[m] + drop'["game"][m] = Refs(json)[m] + drop["game"][m] + b[m]
  <2>1. Refs(json)[m] \in Nat /\ drop["game"][m] \in Nat /\ b[m] \in Nat
    BY <1>1, <1>2, JsonRefs
  <2>2. drop'["game"][m] = drop["game"][m] + b[m]
    BY <1>3, <1>5
  <2>3. QED BY <2>1, <2>2
<1>7. QED BY <1>1, <1>5, <1>6 DEF GameHolds

LEMMA FreeHandleHolds ==
  ASSUME StateType, NEW b \in [Node -> Nat], NEW h \in Handle, FreeHandle(h, b)
  PROVE  GameHolds(b)
<1>1. drop \in [Thread -> [Node -> Nat]] /\ json \in [Handle -> Node \cup {None}]
      /\ "game" \in Thread /\ "event" \in Thread
  BY DEF StateType, Thread
<1>2. drop["game"] \in [Node -> Nat] /\ One(json[h]) \in [Node -> Nat]
  BY <1>1, OneNothing
<1> DEFINE e == Plus(b, One(json[h]))
           d == Plus(drop["game"], e)
<1>3. e \in [Node -> Nat] /\ \A m \in Node : e[m] = b[m] + One(json[h])[m]
  BY <1>2, PlusType
<1>4. drop' = [drop EXCEPT !["game"] = d] /\ json' = [json EXCEPT ![h] = None]
  BY DEF FreeHandle, Release
<1> HIDE DEF e
<1>5. d \in [Node -> Nat] /\ \A m \in Node : d[m] = drop["game"][m] + e[m]
  BY <1>2, <1>3, PlusType
<1> HIDE DEF d
<1>6. drop' \in [Thread -> [Node -> Nat]] /\ drop'["event"] = drop["event"] /\ drop'["game"] = d
  BY <1>1, <1>4, <1>5
<1>7. ASSUME NEW m \in Node
      PROVE  Refs(json')[m] + drop'["game"][m] = Refs(json)[m] + drop["game"][m] + b[m]
  <2>0. /\ json' \in [Handle -> Node \cup {None}]
        /\ json'[h] = None /\ \A g \in Handle \ {h} : json'[g] = json[g]
    BY <1>1, <1>4
  <2>1. /\ json' \in [Handle -> Node \cup {None}]
        /\ Refs(json')[m] + One(json[h])[m] = Refs(json)[m] + One(json'[h])[m]
    BY <1>1, <2>0, JsonSet
  <2>2. /\ Refs(json)[m] \in Nat /\ Refs(json')[m] \in Nat /\ drop["game"][m] \in Nat
        /\ b[m] \in Nat /\ One(json[h])[m] \in Nat
    BY <1>1, <1>2, <2>1, JsonRefs
  <2>3. One(None)[m] = 0
    BY OneNothing
  <2>4. drop'["game"][m] = drop["game"][m] + (b[m] + One(json[h])[m])
    BY <1>3, <1>5, <1>6
  <2>5. QED BY <2>0, <2>1, <2>2, <2>3, <2>4
<1>8. json' \in [Handle -> Node \cup {None}]
  BY <1>1, <1>4
<1>9. QED BY <1>6, <1>7, <1>8 DEF GameHolds

LEMMA NewHandleHolds ==
  ASSUME StateType, NEW n \in Node, NewHandle(n)
  PROVE  GameHolds(One(n))
<1>1. CASE FreeHandles = {}
  <2>1. Release("game", One(n)) /\ UNCHANGED json
    BY <1>1 DEF NewHandle
  <2>2. QED BY <2>1, ReleaseHolds, OneNothing
<1>2. CASE FreeHandles # {}
  <2>1. PICK h \in FreeHandles : json' = [json EXCEPT ![h] = n] /\ UNCHANGED drop
    BY <1>2 DEF NewHandle
  <2>2. h \in Handle /\ json[h] = None
    BY <2>1 DEF FreeHandles, Valid
  <2>3. drop \in [Thread -> [Node -> Nat]] /\ json \in [Handle -> Node \cup {None}]
        /\ "game" \in Thread
    BY DEF StateType, Thread
  <2>4. ASSUME NEW m \in Node
        PROVE  Refs(json')[m] + drop["game"][m] = Refs(json)[m] + drop["game"][m] + One(n)[m]
    <3>0. /\ json' \in [Handle -> Node \cup {None}]
          /\ json'[h] = n /\ \A g \in Handle \ {h} : json'[g] = json[g]
      BY <2>1, <2>2, <2>3
    <3>1. /\ json' \in [Handle -> Node \cup {None}]
          /\ Refs(json')[m] + One(json[h])[m] = Refs(json)[m] + One(n)[m]
      BY <3>0, <2>2, <2>3, JsonSet
    <3>2. /\ Refs(json)[m] \in Nat /\ Refs(json')[m] \in Nat /\ drop["game"][m] \in Nat
          /\ One(n)[m] \in Nat
      BY <2>3, <3>1, JsonRefs, OneType
    <3>3. One(json[h])[m] = 0
      BY <2>2, OneNothing
    <3>4. QED BY <3>1, <3>2, <3>3
  <2>5. json' \in [Handle -> Node \cup {None}]
    BY <2>1, <2>2, <2>3
  <2>6. QED BY <2>1, <2>3, <2>4, <2>5 DEF GameHolds
<1>3. QED BY <1>1, <1>2

(* What holds a node, group by group. *)
LEMMA HeldParts ==
  ASSUME StateType, NEW n \in Node
  PROVE  /\ HeldF[n] = PluginHolds(n) + One(body)[n] + One(sent)[n] + One(parsed)[n]
                       + One(copy.root)[n] + drop["event"][n]
         /\ HeldF[n] = Held(n) /\ HeldF[n] \in Nat
         /\ PluginHolds(n) \in Nat /\ EventHolds(n) \in Nat /\ drop["event"][n] \in Nat
         /\ EventHolds(n) = One(sent)[n] + drop["event"][n]
         /\ PluginHolds(n) = Refs(json)[n] + One(iter.node)[n] + drop["game"][n]
         /\ Refs(json)[n] \in Nat /\ drop["game"][n] \in Nat
<1>1. drop \in [Thread -> [Node -> Nat]] /\ json \in [Handle -> Node \cup {None}]
      /\ "game" \in Thread /\ "event" \in Thread
  BY DEF StateType, Thread
<1>2. Refs(json)[n] \in Nat /\ drop["game"][n] \in Nat /\ drop["event"][n] \in Nat
  BY <1>1, JsonRefs
<1>3. /\ One(body)[n] \in Nat /\ One(sent)[n] \in Nat /\ One(parsed)[n] \in Nat
      /\ One(copy.root)[n] \in Nat /\ One(iter.node)[n] \in Nat
  BY OneType
<1>4. HeldF[n] = Held(n)
  BY DEF HeldF
<1>5. QED BY <1>2, <1>3, <1>4 DEF Held, PluginHolds, EventHolds

LEMMA HeldFType ==
  ASSUME StateType
  PROVE  HeldF \in [Node -> Nat]
<1>1. \A n \in Node : Held(n) \in Nat
  BY HeldParts
<1>2. QED BY <1>1 DEF HeldF

(* How a step changes what is held, if the event thread does not release. *)
LEMMA HeldNext ==
  ASSUME StateType, NEW b \in [Node -> Nat], GameHolds(b), NEW m \in Node
  PROVE  /\ HeldF'[m] + One(iter.node)[m] + One(body)[m] + One(sent)[m] + One(parsed)[m]
              + One(copy.root)[m]
            = HeldF[m] + b[m] + One(iter'.node)[m] + One(body')[m] + One(sent')[m]
              + One(parsed')[m] + One(copy'.root)[m]
         /\ HeldF'[m] \in Nat
         /\ PluginHolds(m)' + One(iter.node)[m] = PluginHolds(m) + b[m] + One(iter'.node)[m]
         /\ PluginHolds(m)' \in Nat
         /\ EventHolds(m)' + One(sent)[m] = EventHolds(m) + One(sent')[m]
         /\ EventHolds(m)' \in Nat
<1>1. drop \in [Thread -> [Node -> Nat]] /\ json \in [Handle -> Node \cup {None}]
      /\ "game" \in Thread /\ "event" \in Thread
  BY DEF StateType, Thread
<1>2. /\ json' \in [Handle -> Node \cup {None}]
      /\ drop' \in [Thread -> [Node -> Nat]]
      /\ drop'["event"] = drop["event"]
      /\ Refs(json')[m] + drop'["game"][m] = Refs(json)[m] + drop["game"][m] + b[m]
  BY DEF GameHolds
<1>3. /\ Refs(json)[m] \in Nat /\ drop["game"][m] \in Nat /\ drop["event"][m] \in Nat
      /\ Refs(json')[m] \in Nat /\ drop'["game"][m] \in Nat /\ drop'["event"][m] \in Nat
      /\ b[m] \in Nat
  BY <1>1, <1>2, JsonRefs
<1>4. /\ One(body)[m] \in Nat /\ One(sent)[m] \in Nat /\ One(parsed)[m] \in Nat
      /\ One(copy.root)[m] \in Nat /\ One(iter.node)[m] \in Nat
      /\ One(body')[m] \in Nat /\ One(sent')[m] \in Nat /\ One(parsed')[m] \in Nat
      /\ One(copy'.root)[m] \in Nat /\ One(iter'.node)[m] \in Nat
  BY OneType
<1>5. HeldF[m] = Refs(json)[m] + One(iter.node)[m] + One(body)[m] + One(sent)[m] + One(parsed)[m]
                 + One(copy.root)[m] + drop["game"][m] + drop["event"][m]
  BY DEF HeldF, Held
<1>6. HeldF'[m] = Refs(json')[m] + One(iter'.node)[m] + One(body')[m] + One(sent')[m]
                  + One(parsed')[m] + One(copy'.root)[m] + drop'["game"][m] + drop'["event"][m]
  BY DEF HeldF, Held
<1>7. /\ PluginHolds(m) = Refs(json)[m] + One(iter.node)[m] + drop["game"][m]
      /\ PluginHolds(m)' = Refs(json')[m] + One(iter'.node)[m] + drop'["game"][m]
      /\ EventHolds(m) = One(sent)[m] + drop["event"][m]
      /\ EventHolds(m)' = One(sent')[m] + drop'["event"][m]
  BY DEF PluginHolds, EventHolds
<1>8. PluginHolds(m)' + One(iter.node)[m] = PluginHolds(m) + b[m] + One(iter'.node)[m]
      /\ PluginHolds(m)' \in Nat
  <2>1. /\ PluginHolds(m) = (Refs(json)[m] + drop["game"][m]) + One(iter.node)[m]
        /\ PluginHolds(m)' = (Refs(json')[m] + drop'["game"][m]) + One(iter'.node)[m]
    BY <1>3, <1>4, <1>7
  <2> DEFINE p == Refs(json)[m] + drop["game"][m]
             q == Refs(json')[m] + drop'["game"][m]
  <2>2. q = p + b[m] /\ p \in Nat /\ q \in Nat
    BY <1>2, <1>3
  <2>3. PluginHolds(m) = p + One(iter.node)[m] /\ PluginHolds(m)' = q + One(iter'.node)[m]
    BY <2>1
  <2> HIDE DEF p, q
  <2>4. QED BY <2>2, <2>3, <1>3, <1>4
<1>8a. drop'["event"][m] = drop["event"][m]
  BY <1>2
<1>9. EventHolds(m)' + One(sent)[m] = EventHolds(m) + One(sent')[m] /\ EventHolds(m)' \in Nat
  BY <1>8a, <1>3, <1>4, <1>7
<1>10. HeldF'[m] \in Nat
  BY <1>3, <1>4, <1>6
<1>11. HeldF'[m] + One(iter.node)[m] + One(body)[m] + One(sent)[m] + One(parsed)[m]
         + One(copy.root)[m]
       = HeldF[m] + b[m] + One(iter'.node)[m] + One(body')[m] + One(sent')[m]
         + One(parsed')[m] + One(copy'.root)[m]
  <2> DEFINE p == Refs(json)[m] + drop["game"][m]
             q == Refs(json')[m] + drop'["game"][m]
             e == drop["event"][m]
  <2>1. q = p + b[m] /\ p \in Nat /\ q \in Nat /\ e \in Nat
    BY <1>2, <1>3
  <2>2. HeldF[m] = p + One(iter.node)[m] + One(body)[m] + One(sent)[m] + One(parsed)[m]
                   + One(copy.root)[m] + e
    BY <1>3, <1>4, <1>5
  <2>3. HeldF'[m] = q + One(iter'.node)[m] + One(body')[m] + One(sent')[m] + One(parsed')[m]
                    + One(copy'.root)[m] + e
    BY <1>3, <1>4, <1>6, <1>8a
  <2> HIDE DEF p, q, e
  <2>4. QED BY <2>1, <2>2, <2>3, <1>3, <1>4
<1>12. QED BY <1>8, <1>9, <1>10, <1>11

-----------------------------------------------------------------------------
(* Consequences of the invariant.                                          *)

LEMMA HeldByPlugins ==
  ASSUME NEW col, Inv(col), NEW n \in Node, PluginHolds(n) > 0
  PROVE  NonFree(heap, n) /\ col[n] = "plugin"
<1>1. col[n] = "plugin" /\ StateType /\ Good(heap, HeldF, col)
  BY DEF Inv, RootsOK
<1>2. /\ HeldF[n] = PluginHolds(n) + One(body)[n] + One(sent)[n] + One(parsed)[n]
                    + One(copy.root)[n] + drop["event"][n]
      /\ PluginHolds(n) \in Nat /\ drop["event"][n] \in Nat
  BY <1>1, HeldParts
<1>3. /\ One(body)[n] \in Nat /\ One(sent)[n] \in Nat /\ One(parsed)[n] \in Nat
      /\ One(copy.root)[n] \in Nat
  BY OneType
<1>4. HeldF[n] > 0
  BY <1>2, <1>3
<1>5. QED BY <1>1, <1>4, HeldNonFree

LEMMA HandleNode ==
  ASSUME NEW col, Inv(col), NEW h \in Handle, Valid(h)
  PROVE  /\ json[h] \in Node /\ PluginHolds(json[h]) > 0
         /\ NonFree(heap, json[h]) /\ col[json[h]] = "plugin"
<1>1. StateType /\ json \in [Handle -> Node \cup {None}]
  BY DEF Inv, StateType
<1>2. json[h] \in Node
  BY <1>1 DEF Valid
<1>3. Refs(json)[json[h]] > 0
  BY <1>1, <1>2, JsonRefs
<1>4. PluginHolds(json[h]) > 0
  <2> DEFINE n == json[h]
  <2>1. /\ PluginHolds(n) = Refs(json)[n] + One(iter.node)[n] + drop["game"][n]
        /\ Refs(json)[n] \in Nat /\ drop["game"][n] \in Nat /\ One(iter.node)[n] \in Nat
    BY <1>1, <1>2, HeldParts, OneType
  <2> HIDE DEF n
  <2>2. Refs(json)[n] > 0
    BY <1>3 DEF n
  <2>3. PluginHolds(n) > 0
    BY <2>1, <2>2
  <2>4. QED BY <2>3 DEF n
<1>5. QED BY <1>2, <1>4, HeldByPlugins

LEMMA IterNode ==
  ASSUME NEW col, Inv(col), iter.node \in Node
  PROVE  /\ PluginHolds(iter.node) > 0
         /\ NonFree(heap, iter.node) /\ col[iter.node] = "plugin"
<1> DEFINE n == iter.node
<1>1. StateType /\ n \in Node
  BY DEF Inv
<1>2. /\ PluginHolds(n) = Refs(json)[n] + One(iter.node)[n] + drop["game"][n]
      /\ Refs(json)[n] \in Nat /\ drop["game"][n] \in Nat /\ One(iter.node)[n] = 1
  BY <1>1, HeldParts, OneType
<1>3. PluginHolds(n) > 0
  <2> HIDE DEF n
  <2>1. QED BY <1>2
<1>4. QED BY <1>1, <1>3, HeldByPlugins

(* What is below a node belongs to the same group and was not freed. *)
LEMMA BelowColour ==
  ASSUME NEW H, NEW x, NEW col, Good(H, x, col), NEW n \in Node, NonFree(H, n)
  PROVE  Below(H, {n}) \subseteq {m \in Node : NonFree(H, m) /\ col[m] = col[n]}
<1> DEFINE T == {m \in Node : NonFree(H, m) /\ col[m] = col[n]}
<1>1. T \in SUBSET Node /\ {n} \subseteq T
  OBVIOUS
<1>2. ClosedUnder(H, T)
  <2> SUFFICES ASSUME NEW m \in T, NEW c \in Kids(H, m)
               PROVE  c \in T
    BY DEF ClosedUnder
  <2>1. m \in Node
    OBVIOUS
  <2>2. c \in Node /\ NonFree(H, c)
    BY <2>1, KidNonFree
  <2>3. col[c] = col[m]
    BY <2>1 DEF Good, Coloured
  <2>4. QED BY <2>2, <2>3
<1> HIDE DEF T
<1>3. Below(H, {n}) \subseteq T
  BY <1>1, <1>2, BelowLeast
<1>4. QED BY <1>3 DEF T

LEMMA NoCopyFacts == NoCopy.root = None /\ DOMAIN NoCopy.of = {}
BY NoKidsType DEF NoCopy

(* Between natives nothing is being copied. *)
LEMMA IdleFacts ==
  ASSUME NEW col, Inv(col), job = NoJob
  PROVE  /\ copy = NoCopy /\ copy.root = None
         /\ \A n \in Node : NonFree(heap, n) => col[n] # "copy"
<1>1. copy = NoCopy
  BY DEF Inv, JobInv
<1>2. DOMAIN copy.of = {} /\ copy.root = None
  BY <1>1, NoCopyFacts
<1>3. QED BY <1>1, <1>2 DEF Inv, CopyInv

LEMMA NoJobFacts == NoJob.op = "None" /\ NoJob.todo = {}
BY DEF NoJob

(* The iterator's container stays, and the version tells when it changed. *)
IterKeeps(H, G) ==
    iter.node \in Node =>
        /\ G.type[iter.node] = H.type[iter.node]
        /\ ~G.moved => ~H.moved /\ G.kids[iter.node] = H.kids[iter.node]

LEMMA IterKept ==
  ASSUME IterOK, IterKeeps(heap, heap'), UNCHANGED iter, StateType
  PROVE  IterOK'
<1>1. iter.node \in Node \cup {None}
  BY DEF StateType
<1>2. CASE iter.node = None
  <2>1. iter'.node = None /\ None \notin Node
    BY <1>2, DataAssumption
  <2>2. QED BY <2>1 DEF IterOK, IterFresh, Advances
<1>3. CASE iter.node \in Node
  <2>1. heap'.type[iter.node] \in Maps
    BY <1>3 DEF IterKeeps, IterOK
  <2>2. ASSUME ~heap'.moved
        PROVE  /\ DOMAIN heap'.kids[iter.node] = iter.keys
               /\ iter.value # None => iter.value \in Kids(heap', iter.node)
    <3>1. ~heap.moved /\ heap'.kids[iter.node] = heap.kids[iter.node]
      BY <1>3, <2>2 DEF IterKeeps
    <3>2. iter.node # None
      BY <1>3, DataAssumption
    <3>3. /\ DOMAIN heap.kids[iter.node] = iter.keys
          /\ iter.value # None => iter.value \in Kids(heap, iter.node)
      BY <3>1, <3>2 DEF IterOK, IterFresh, Advances
    <3>4. QED BY <3>1, <3>3 DEF Kids
  <2>3. QED BY <2>1, <2>2 DEF IterOK, IterFresh, Advances
<1>4. QED BY <1>1, <1>2, <1>3

(* A native that changes the heap and what plugins hold, and nothing else. *)
LEMMA NativeStep ==
  ASSUME NEW col, Inv(col), job = NoJob, Others,
         NEW b \in [Node -> Nat], GameHolds(b),
         NEW y, NEW c2 \in [Node -> Group], Good(heap', y, c2),
         \A m \in Node : y[m] = HeldF[m] + b[m],
         \A m \in Node : b[m] > 0 => c2[m] = "plugin",
         \A m \in Node : NonFree(heap, m) => c2[m] = col[m],
         \A m \in Node : NonFree(heap', m) => NonFree(heap, m) \/ c2[m] # "copy",
         IterKeeps(heap, heap')
  PROVE  Inv(c2)'
<1>1. /\ StateType /\ RootsOK(col) /\ IterOK /\ Good(heap, HeldF, col)
      /\ UNCHANGED <<iter, body, sent, parsed, copy, job>>
  BY DEF Inv, Others, NotCopying
<1>2. /\ copy = NoCopy /\ copy.root = None
      /\ \A n \in Node : NonFree(heap, n) => col[n] # "copy"
  BY IdleFacts
<1>3. StateType'
  BY <1>1 DEF StateType, GameHolds
<1>4. ASSUME NEW m \in Node
      PROVE  /\ HeldF'[m] = y[m]
             /\ PluginHolds(m)' = PluginHolds(m) + b[m]
             /\ EventHolds(m)' = EventHolds(m)
  <2>1. /\ HeldF'[m] + One(iter.node)[m] + One(body)[m] + One(sent)[m] + One(parsed)[m]
              + One(copy.root)[m]
            = HeldF[m] + b[m] + One(iter'.node)[m] + One(body')[m] + One(sent')[m]
              + One(parsed')[m] + One(copy'.root)[m]
        /\ HeldF'[m] \in Nat
        /\ PluginHolds(m)' + One(iter.node)[m] = PluginHolds(m) + b[m] + One(iter'.node)[m]
        /\ PluginHolds(m)' \in Nat
        /\ EventHolds(m)' + One(sent)[m] = EventHolds(m) + One(sent')[m]
        /\ EventHolds(m)' \in Nat
    BY <1>1, HeldNext
  <2>2. /\ One(body)[m] \in Nat /\ One(sent)[m] \in Nat /\ One(parsed)[m] \in Nat
        /\ One(copy.root)[m] \in Nat /\ One(iter.node)[m] \in Nat
    BY OneType
  <2>3. HeldF[m] \in Nat /\ PluginHolds(m) \in Nat /\ EventHolds(m) \in Nat /\ b[m] \in Nat
    BY <1>1, HeldParts
  <2>4. iter' = iter /\ body' = body /\ sent' = sent /\ parsed' = parsed /\ copy' = copy
    BY <1>1
  <2>5. HeldF'[m] = HeldF[m] + b[m]
    BY <2>1, <2>2, <2>3, <2>4
  <2>6. QED BY <2>1, <2>2, <2>3, <2>4, <2>5
<1>5. HeldF' = y
  <2>1. HeldF' = [n \in Node |-> HeldF'[n]]
    BY DEF HeldF
  <2>2. y \in [Node -> Nat]
    BY DEF Good
  <2>3. QED BY <2>1, <2>2, <1>4
<1>6. Good(heap', HeldF', c2)
  BY <1>5
<1>7. RootsOK(c2)'
  <2> SUFFICES ASSUME NEW n \in Node
               PROVE  /\ PluginHolds(n)' > 0 => c2[n] = "plugin"
                      /\ n = body => c2[n] = "body"
                      /\ n # copy.root
                      /\ n = parsed => c2[n] = "parsed"
                      /\ EventHolds(n) > 0 => c2[n] = "event"
    BY <1>1, <1>4 DEF RootsOK
  <2>1. /\ PluginHolds(n) > 0 => col[n] = "plugin"
        /\ n = body => col[n] = "body"
        /\ n = parsed => col[n] = "parsed"
        /\ EventHolds(n) > 0 => col[n] = "event"
    BY <1>1 DEF RootsOK
  <2>2. /\ HeldF[n] = PluginHolds(n) + One(body)[n] + One(sent)[n] + One(parsed)[n]
                    + One(copy.root)[n] + drop["event"][n]
        /\ PluginHolds(n) \in Nat /\ drop["event"][n] \in Nat
        /\ EventHolds(n) = One(sent)[n] + drop["event"][n]
    BY <1>1, HeldParts
  <2>3. /\ One(body)[n] = (IF n = body THEN 1 ELSE 0) /\ One(sent)[n] \in Nat
        /\ One(parsed)[n] = (IF n = parsed THEN 1 ELSE 0) /\ One(copy.root)[n] \in Nat
    BY OneType
  <2>4. PluginHolds(n) > 0 \/ n = body \/ n = parsed \/ EventHolds(n) > 0 => HeldF[n] > 0
    BY <2>2, <2>3
  <2>5. HeldF[n] > 0 => c2[n] = col[n]
    BY <1>1, HeldNonFree
  <2>6. PluginHolds(n)' > 0 => PluginHolds(n) > 0 \/ b[n] > 0
    BY <1>4, <2>2
  <2>7. n # copy.root
    BY <1>2, DataAssumption
  <2>8. QED BY <2>1, <2>4, <2>5, <2>6, <2>7
<1>8. CopyInv(c2)'
  <2>1. copy' = NoCopy /\ DOMAIN copy'.of = {}
    BY <1>1, <1>2, NoCopyFacts
  <2>2. \A n \in Node : NonFree(heap', n) => c2[n] # "copy"
    BY <1>2
  <2>3. QED BY <2>1, <2>2 DEF CopyInv
<1>9. JobInv'
  <2>1. job' = NoJob /\ copy' = NoCopy
    BY <1>1, <1>2
  <2>2. QED BY <2>1, NoJobFacts DEF JobInv
<1>10. IterOK'
  BY <1>1, IterKept
<1>11. QED BY <1>3, <1>6, <1>7, <1>8, <1>9, <1>10 DEF Inv

-----------------------------------------------------------------------------
(* Natives.                                                                *)

Paint(col, M, g) == [n \in Node |-> IF n \in M THEN g ELSE col[n]]

LEMMA PaintType ==
  ASSUME NEW col \in [Node -> Group], NEW M, NEW g \in Group
  PROVE  /\ Paint(col, M, g) \in [Node -> Group]
         /\ \A n \in Node : Paint(col, M, g)[n] = IF n \in M THEN g ELSE col[n]
BY DEF Paint

(* The heap a native starts to work on: one node c is new, or was counted once
   more, and plugins may have it. *)
Prepared(H, x, c2, col, c) ==
    /\ Good(H, x, c2)
    /\ H.kids = heap.kids /\ H.moved = heap.moved
    /\ \A m \in Node : NonFree(heap, m) => H.type[m] = heap.type[m] /\ c2[m] = col[m]
    /\ \A m \in Node : NonFree(H, m) => NonFree(heap, m) \/ c2[m] # "copy"
    /\ \A m \in Node : x[m] = HeldF[m] + One(c)[m]
    /\ c \in Node => c2[c] = "plugin"

LEMMA PreparedHeap ==
  ASSUME NEW col, Inv(col)
  PROVE  Prepared(heap, HeldF, col, col, None)
<1>1. Good(heap, HeldF, col) /\ StateType
  BY DEF Inv
<1>2. \A m \in Node : HeldF[m] = HeldF[m] + One(None)[m]
  BY <1>1, HeldParts, OneNothing
<1>3. None \notin Node
  BY DataAssumption
<1>4. QED BY <1>1, <1>2, <1>3 DEF Prepared

LEMMA PreparedMake ==
  ASSUME NEW col, Inv(col), NEW m \in FreeNodes(heap), NEW t \in Containers \cup {"Int"}
  PROVE  /\ Prepared(Make(heap, m, t), Plus(HeldF, One(m)), Paint(col, {m}, "plugin"), col, m)
         /\ m \in Node
         /\ \A n \in Node \ {m} : n \notin Below(Make(heap, m, t), {m})
<1> DEFINE H == Make(heap, m, t)
           x == Plus(HeldF, One(m))
           c2 == Paint(col, {m}, "plugin")
<1>1. Good(heap, HeldF, col) /\ StateType /\ HeldF \in [Node -> Nat] /\ One(m) \in [Node -> Nat]
      /\ col \in [Node -> Group]
  BY HeldFType, OneNothing DEF Inv, Good
<1>2. x \in [Node -> Nat] /\ \A n \in Node : x[n] = HeldF[n] + One(m)[n]
  BY <1>1, PlusType
<1>3. /\ c2 \in [Node -> Group]
      /\ \A n \in Node : c2[n] = IF n \in {m} THEN "plugin" ELSE col[n]
  BY <1>1, PaintType DEF Group
<1>4. m \in Node /\ {m} \in SUBSET FreeNodes(heap) /\ Kids(heap, m) = {}
  BY <1>1, FreeAlone
<1> HIDE DEF x, c2
<1>5. Good(heap, HeldF, c2)
  BY <1>1, <1>3, <1>4, Recolour
<1>6. Good(H, x, c2) /\ MadeFrom(H, heap, m, t)
  BY <1>2, <1>5, MakeGood
<1>7. \A n \in Node : NonFree(heap, n) => n # m
  BY DEF NonFree, FreeNodes
<1> HIDE DEF H
<1>8. H.kids = heap.kids /\ H.moved = heap.moved
  BY <1>6 DEF MadeFrom
<1>9. \A n \in Node \ {m} : H.type[n] = heap.type[n]
  BY <1>6 DEF MadeFrom
<1>10. Prepared(H, x, c2, col, m)
  <2>1. \A n \in Node : NonFree(heap, n) => H.type[n] = heap.type[n] /\ c2[n] = col[n]
    BY <1>3, <1>7, <1>9
  <2>2. \A n \in Node : NonFree(H, n) => NonFree(heap, n) \/ c2[n] # "copy"
    BY <1>3, <1>9 DEF NonFree
  <2>3. c2[m] = "plugin"
    BY <1>3, <1>4
  <2>4. QED BY <1>2, <1>6, <1>8, <2>1, <2>2, <2>3 DEF Prepared
<1>11. Below(H, {m}) \subseteq {m}
  <2>1. Kids(H, m) = {}
    BY <1>4, <1>8 DEF Kids
  <2>2. ClosedUnder(H, {m})
    BY <2>1 DEF ClosedUnder
  <2>3. QED BY <1>4, <2>2, BelowLeast
<1>12. QED BY <1>4, <1>10, <1>11 DEF H, x, c2

LEMMA PreparedIncref ==
  ASSUME NEW col, Inv(col), NEW n \in Node, NonFree(heap, n), col[n] = "plugin"
  PROVE  /\ Prepared(Incref(heap, n), Plus(HeldF, One(n)), col, col, n)
         /\ Incref(heap, n).type = heap.type
         /\ Below(Incref(heap, n), {n}) = Below(heap, {n})
<1> DEFINE H == Incref(heap, n)
           x == Plus(HeldF, One(n))
<1>1. Good(heap, HeldF, col) /\ StateType /\ HeldF \in [Node -> Nat] /\ One(n) \in [Node -> Nat]
  BY HeldFType, OneNothing DEF Inv
<1>2. x \in [Node -> Nat] /\ \A m \in Node : x[m] = HeldF[m] + One(n)[m]
  BY <1>1, PlusType
<1> HIDE DEF x
<1>3. Good(H, x, col) /\ H.kids = heap.kids /\ H.type = heap.type /\ H.moved = heap.moved
  BY <1>1, <1>2, IncrefGood
<1> HIDE DEF H
<1>4. Below(H, {n}) = Below(heap, {n})
  BY <1>3, SameKids
<1>5. Prepared(H, x, col, col, n)
  BY <1>2, <1>3 DEF Prepared, NonFree
<1>6. QED BY <1>3, <1>4, <1>5 DEF H, x

(* Plugins get one more reference, for example a handle, to a node that was prepared. *)
LEMMA HoldStep ==
  ASSUME NEW col, Inv(col), job = NoJob, Others, NEW n \in Node, GameHolds(One(n)),
         NEW x, NEW c2, Prepared(heap', x, c2, col, n)
  PROVE  DataInv'
<1>1. /\ Good(heap', x, c2)
      /\ heap'.kids = heap.kids /\ heap'.moved = heap.moved
      /\ \A m \in Node : NonFree(heap, m) => heap'.type[m] = heap.type[m] /\ c2[m] = col[m]
      /\ \A m \in Node : NonFree(heap', m) => NonFree(heap, m) \/ c2[m] # "copy"
      /\ \A m \in Node : x[m] = HeldF[m] + One(n)[m]
      /\ c2[n] = "plugin"
  BY DEF Prepared
<1>2. One(n) \in [Node -> Nat] /\ c2 \in [Node -> Group]
  BY <1>1, OneNothing DEF Good
<1>3. \A m \in Node : One(n)[m] > 0 => c2[m] = "plugin"
  BY <1>1, OneType
<1>4. IterKeeps(heap, heap')
  BY <1>1, IterNode DEF IterKeeps
<1>5. Inv(c2)'
  BY <1>1, <1>2, <1>3, <1>4, NativeStep
<1>6. QED BY <1>2, <1>5 DEF DataInv

LEMMA HandleStep ==
  ASSUME NEW col, Inv(col), job = NoJob, Others, NEW n \in Node, NewHandle(n),
         NEW x, NEW c2, Prepared(heap', x, c2, col, n)
  PROVE  DataInv'
<1>1. GameHolds(One(n))
  BY NewHandleHolds DEF Inv
<1>2. QED BY <1>1, HoldStep

(* An operation on a container that plugins hold. *)
LEMMA ChangeStep ==
  ASSUME NEW col, Inv(col), job = NoJob, Others,
         NEW n \in Node, NonFree(heap, n), col[n] = "plugin", NEW c \in Node \cup {None},
         NEW H, NEW x, NEW c2, Prepared(H, x, c2, col, c), c \in Node => n \notin Below(H, {c}),
         NEW r, Op(H, n, c, r), heap' = r.heap, GameHolds(r.out)
  PROVE  DataInv'
<1>1. /\ Good(H, x, c2)
      /\ H.kids = heap.kids /\ H.moved = heap.moved
      /\ \A m \in Node : NonFree(heap, m) => H.type[m] = heap.type[m] /\ c2[m] = col[m]
      /\ \A m \in Node : NonFree(H, m) => NonFree(heap, m) \/ c2[m] # "copy"
      /\ \A m \in Node : x[m] = HeldF[m] + One(c)[m]
      /\ c \in Node => c2[c] = "plugin"
  BY DEF Prepared
<1>2. StateType /\ IterOK /\ HeldF \in [Node -> Nat] /\ c2 \in [Node -> Group]
  BY <1>1, HeldFType DEF Inv, Good
<1>3. /\ r.out \in [Node -> Nat] /\ heap'.type = H.type
      /\ \A m \in Node \ {n} : heap'.kids[m] = H.kids[m]
      /\ ~heap'.moved =>
          /\ ~H.moved
          /\ n = iter.node /\ H.type[n] \in Maps => heap'.kids[n] = H.kids[n]
  BY DEF Op
<1> DEFINE y == Plus(HeldF, r.out)
<1>4. y \in [Node -> Nat] /\ \A m \in Node : y[m] = HeldF[m] + r.out[m]
  BY <1>2, <1>3, PlusType
<1> HIDE DEF y
<1>5. \A m \in Node : y[m] + One(c)[m] = x[m] + r.out[m]
  <2> TAKE m \in Node
  <2>1. HeldF[m] \in Nat /\ r.out[m] \in Nat /\ One(c)[m] \in Nat
    BY <1>2, <1>3, OneType
  <2>2. y[m] = HeldF[m] + r.out[m] /\ x[m] = HeldF[m] + One(c)[m]
    BY <1>1, <1>4
  <2>3. QED BY <2>1, <2>2
<1>6. c2[n] = "plugin"
  BY <1>1
<1>7. Good(r.heap, y, c2) /\ \A m \in Node : r.out[m] > 0 => c2[m] = c2[n]
  BY <1>1, <1>4, <1>5, <1>6, OpGood
<1>8. IterKeeps(heap, heap')
  <2> SUFFICES ASSUME iter.node \in Node
               PROVE  /\ heap'.type[iter.node] = heap.type[iter.node]
                      /\ ~heap'.moved => ~heap.moved /\ heap'.kids[iter.node] = heap.kids[iter.node]
    BY DEF IterKeeps
  <2>1. NonFree(heap, iter.node) /\ heap.type[iter.node] \in Maps
    BY <1>2, IterNode DEF IterOK
  <2>2. heap'.type[iter.node] = heap.type[iter.node] /\ H.type[iter.node] \in Maps
    BY <1>1, <1>3, <2>1
  <2>3. ASSUME ~heap'.moved
        PROVE  ~heap.moved /\ heap'.kids[iter.node] = heap.kids[iter.node]
    <3>1. ~H.moved /\ (n = iter.node /\ H.type[n] \in Maps => heap'.kids[n] = H.kids[n])
      BY <1>3, <2>3
    <3>2. heap'.kids[iter.node] = H.kids[iter.node]
      BY <1>3, <2>2, <3>1
    <3>3. QED BY <1>1, <3>1, <3>2
  <2>4. QED BY <2>2, <2>3
<1>9. \A m \in Node : NonFree(heap', m) => NonFree(heap, m) \/ c2[m] # "copy"
  BY <1>1, <1>3 DEF NonFree
<1>10. Good(heap', y, c2) /\ \A m \in Node : r.out[m] > 0 => c2[m] = "plugin"
  BY <1>6, <1>7
<1>11. \A m \in Node : NonFree(heap, m) => c2[m] = col[m]
  BY <1>1
<1>12. Inv(c2)'
  <2> DEFINE b == r.out
  <2>1. /\ b \in [Node -> Nat] /\ GameHolds(b)
        /\ \A m \in Node : b[m] > 0 => c2[m] = "plugin"
        /\ \A m \in Node : y[m] = HeldF[m] + b[m]
    BY <1>3, <1>4, <1>10
  <2> HIDE DEF b
  <2>2. c2 \in [Node -> Group] /\ Good(heap', y, c2)
    BY <1>2, <1>10
  <2>3. QED BY <2>1, <2>2, <1>8, <1>9, <1>11, NativeStep
<1>13. QED BY <1>2, <1>12 DEF DataInv

LEMMA CreateKeeps ==
  ASSUME NEW col, Inv(col), job = NoJob, NEW t \in Containers, Native_JsonCreate(t)
  PROVE  DataInv'
<1>1. PICK m \in FreeNodes(heap) : heap' = Make(heap, m, t) /\ NewHandle(m)
  BY DEF Native_JsonCreate
<1>2. m \in Node /\ Prepared(heap', Plus(HeldF, One(m)), Paint(col, {m}, "plugin"), col, m)
  BY <1>1, PreparedMake
<1>3. Others
  BY DEF Native_JsonCreate
<1>4. QED BY <1>1, <1>2, <1>3, HandleStep

LEMMA WrapKeeps ==
  ASSUME NEW col, Inv(col), job = NoJob, Others, NEW n \in Node, NonFree(heap, n),
         col[n] = "plugin", WrapChildNode(n)
  PROVE  DataInv'
<1>1. heap' = Incref(heap, n) /\ NewHandle(n)
  BY DEF WrapChildNode
<1>2. Prepared(heap', Plus(HeldF, One(n)), col, col, n)
  BY <1>1, PreparedIncref
<1>3. QED BY <1>1, <1>2, HandleStep

(* A child, or anything below, of what plugins hold. *)
LEMMA GetKeeps ==
  ASSUME NEW col, Inv(col), job = NoJob, NEW h \in Handle
  PROVE  /\ Native_JsonRef(h) => DataInv'
         /\ \A k, t : GetNode(h, k, t) => DataInv'
         /\ Native_JsonPathGet(h) => DataInv'
<1>1. ASSUME Valid(h)
      PROVE  json[h] \in Node /\ NonFree(heap, json[h]) /\ col[json[h]] = "plugin"
  BY <1>1, HandleNode
<1>2. ASSUME Native_JsonRef(h)
      PROVE  DataInv'
  BY <1>1, <1>2, WrapKeeps DEF Native_JsonRef
<1>3. ASSUME NEW k, NEW t, GetNode(h, k, t)
      PROVE  DataInv'
  <2>1. Valid(h) /\ k \in DOMAIN heap.kids[json[h]] /\ Others
        /\ WrapChildNode(heap.kids[json[h]][k])
    BY <1>3 DEF GetNode, OfType
  <2> DEFINE c == heap.kids[json[h]][k]
  <2>2. c \in Kids(heap, json[h])
    BY <2>1 DEF Kids
  <2>3. Good(heap, HeldF, col)
    BY DEF Inv
  <2>4. c \in Node /\ NonFree(heap, c) /\ col[c] = col[json[h]]
    <3>1. json[h] \in Node
      BY <1>1, <2>1
    <3> HIDE DEF c
    <3>2. c \in Node /\ NonFree(heap, c)
      BY <2>2, <2>3, <3>1, KidNonFree
    <3>3. col[c] = col[json[h]]
      BY <2>2, <2>3, <3>1 DEF Good, Coloured
    <3>4. QED BY <3>2, <3>3
  <2>5. WrapChildNode(c)
    BY <2>1
  <2> HIDE DEF c
  <2>6. QED BY <1>1, <2>1, <2>4, <2>5, WrapKeeps
<1>4. ASSUME Native_JsonPathGet(h)
      PROVE  DataInv'
  <2>1. PICK n \in Below(heap, {json[h]}) : WrapChildNode(n)
    BY <1>4 DEF Native_JsonPathGet, ResolveJsonPath
  <2>2. Valid(h) /\ Others /\ Good(heap, HeldF, col)
    BY <1>4 DEF Native_JsonPathGet, Inv
  <2>3. n \in Node /\ NonFree(heap, n) /\ col[n] = col[json[h]]
    BY <1>1, <2>2, BelowColour
  <2>4. QED BY <1>1, <2>1, <2>2, <2>3, WrapKeeps
<1>5. QED BY <1>2, <1>3, <1>4

LEMMA IterGetKeeps ==
  ASSUME NEW col, Inv(col), job = NoJob, Native_IterGetObject
  PROVE  DataInv'
<1>1. Advances /\ iter.value # None /\ WrapChildNode(iter.value) /\ Others
  BY DEF Native_IterGetObject
<1>2. iter.node \in Node /\ iter.value \in Kids(heap, iter.node)
  <2>1. iter.node \in Node \cup {None}
    BY DEF Inv, StateType
  <2>2. QED BY <1>1, <2>1 DEF Inv, IterOK, IterFresh, Advances
<1>3. col[iter.node] = "plugin" /\ Good(heap, HeldF, col)
  BY <1>2, IterNode DEF Inv
<1>4. iter.value \in Node /\ NonFree(heap, iter.value)
  BY <1>2, <1>3, KidNonFree
<1>5. col[iter.value] = "plugin"
  BY <1>2, <1>3 DEF Good, Coloured
<1>6. QED BY <1>1, <1>4, <1>5, WrapKeeps

(* The children of a node that plugins hold change, and what it lets go is
   released. *)
LEMMA ReleaseKeeps ==
  ASSUME NEW col, Inv(col), job = NoJob, NEW h \in Handle, Valid(h), NEW r,
         Op(heap, json[h], None, r), Change(r)
  PROVE  DataInv'
<1>1. json[h] \in Node /\ NonFree(heap, json[h]) /\ col[json[h]] = "plugin"
  BY HandleNode
<1>2. heap' = r.heap /\ Release("game", r.out) /\ UNCHANGED json /\ Others
  BY DEF Change
<1>3. r.out \in [Node -> Nat] /\ StateType
  BY DEF Op, Inv
<1>4. GameHolds(r.out)
  BY <1>2, <1>3, ReleaseHolds
<1>5. Prepared(heap, HeldF, col, col, None) /\ None \notin Node
  BY PreparedHeap, DataAssumption
<1>6. QED BY <1>1, <1>2, <1>4, <1>5, ChangeStep

LEMMA InvHeap ==
  ASSUME NEW col, Inv(col)
  PROVE  HeapType(heap)
BY DEF Inv, Good

LEMMA RemoveKeeps ==
  ASSUME NEW col, Inv(col), job = NoJob, NEW h \in Handle
  PROVE  /\ \A k : Native_JsonRemoveKey(h, k) => DataInv'
         /\ \A k : Native_IntMapRemoveKey(h, k) => DataInv'
         /\ Native_JsonObjectClear(h) => DataInv'
         /\ Native_IntMapClear(h) => DataInv'
         /\ \A i : Native_JsonArrayRemove(h, i) => DataInv'
         /\ Native_JsonArrayClear(h) => DataInv'
<1>1. ASSUME Valid(h)
      PROVE  json[h] \in Node
  BY <1>1, HandleNode
<1>2. HeapType(heap)
  BY InvHeap
<1>3. ASSUME NEW k, Native_JsonRemoveKey(h, k)
      PROVE  DataInv'
  <2>1. Valid(h) /\ Change(ObjErase(heap, json[h], k))
    BY <1>3 DEF Native_JsonRemoveKey
  <2>2. Op(heap, json[h], None, ObjErase(heap, json[h], k))
    BY <2>1, <1>1, <1>2, MapEraseOp
  <2>3. QED BY <2>1, <2>2, ReleaseKeeps
<1>4. ASSUME NEW k, Native_IntMapRemoveKey(h, k)
      PROVE  DataInv'
  <2>1. Valid(h) /\ Change(IntMapErase(heap, json[h], k))
    BY <1>4 DEF Native_IntMapRemoveKey
  <2>2. Op(heap, json[h], None, IntMapErase(heap, json[h], k))
    BY <2>1, <1>1, <1>2, MapEraseOp
  <2>3. QED BY <2>1, <2>2, ReleaseKeeps
<1>5. ASSUME Native_JsonObjectClear(h)
      PROVE  DataInv'
  <2>1. Valid(h) /\ Change(ObjClear(heap, json[h]))
    BY <1>5 DEF Native_JsonObjectClear
  <2>2. Op(heap, json[h], None, ObjClear(heap, json[h]))
    BY <2>1, <1>1, <1>2, ClearOp
  <2>3. QED BY <2>1, <2>2, ReleaseKeeps
<1>6. ASSUME Native_IntMapClear(h)
      PROVE  DataInv'
  <2>1. Valid(h) /\ Change(IntMapClear(heap, json[h]))
    BY <1>6 DEF Native_IntMapClear
  <2>2. Op(heap, json[h], None, IntMapClear(heap, json[h]))
    BY <2>1, <1>1, <1>2, ClearOp
  <2>3. QED BY <2>1, <2>2, ReleaseKeeps
<1>7. ASSUME NEW i, Native_JsonArrayRemove(h, i)
      PROVE  DataInv'
  <2>1. Valid(h) /\ Change(ArrRemove(heap, json[h], i))
    BY <1>7 DEF Native_JsonArrayRemove
  <2>2. Op(heap, json[h], None, ArrRemove(heap, json[h], i))
    BY <2>1, <1>1, <1>2, ArrRemoveOp
  <2>3. QED BY <2>1, <2>2, ReleaseKeeps
<1>8. ASSUME Native_JsonArrayClear(h)
      PROVE  DataInv'
  <2>1. Valid(h) /\ Change(ArrClear(heap, json[h]))
    BY <1>8 DEF Native_JsonArrayClear
  <2>2. Op(heap, json[h], None, ArrClear(heap, json[h]))
    BY <2>1, <1>1, <1>2, ClearOp
  <2>3. QED BY <2>1, <2>2, ReleaseKeeps
<1>9. QED BY <1>3, <1>4, <1>5, <1>6, <1>7, <1>8

(* A scalar is made and given to a container. *)
LEMMA ScalarKeeps ==
  ASSUME NEW col, Inv(col), job = NoJob, NEW h \in Handle, Valid(h),
         NEW m \in FreeNodes(heap), NEW r, Op(Make(heap, m, "Int"), json[h], m, r), Change(r)
  PROVE  DataInv'
<1>1. json[h] \in Node /\ NonFree(heap, json[h]) /\ col[json[h]] = "plugin"
  BY HandleNode
<1>2. heap' = r.heap /\ Release("game", r.out) /\ UNCHANGED json /\ Others
  BY DEF Change
<1>3. r.out \in [Node -> Nat] /\ StateType
  BY DEF Op, Inv
<1>4. GameHolds(r.out)
  BY <1>2, <1>3, ReleaseHolds
<1>5. /\ Prepared(Make(heap, m, "Int"), Plus(HeldF, One(m)), Paint(col, {m}, "plugin"), col, m)
      /\ m \in Node
      /\ \A n \in Node \ {m} : n \notin Below(Make(heap, m, "Int"), {m})
  BY PreparedMake
<1>6. json[h] # m
  BY <1>1 DEF NonFree, FreeNodes
<1>7. json[h] \notin Below(Make(heap, m, "Int"), {m})
  BY <1>1, <1>5, <1>6
<1>8. QED BY <1>1, <1>2, <1>4, <1>5, <1>7, ChangeStep

LEMMA MakeType ==
  ASSUME NEW col, Inv(col), NEW m \in FreeNodes(heap)
  PROVE  /\ HeapType(Make(heap, m, "Int"))
         /\ Make(heap, m, "Int").kids = heap.kids
         /\ \A n \in Node : NonFree(heap, n) => Make(heap, m, "Int").type[n] = heap.type[n]
<1> DEFINE H == Make(heap, m, "Int")
           x == Plus(HeldF, One(m))
           c2 == Paint(col, {m}, "plugin")
<1>1. Prepared(H, x, c2, col, m)
  BY PreparedMake
<1> HIDE DEF H, x, c2
<1>2. HeapType(H) /\ H.kids = heap.kids
  BY <1>1 DEF Prepared, Good
<1>3. \A n \in Node : NonFree(heap, n) => H.type[n] = heap.type[n]
  BY <1>1 DEF Prepared
<1>4. QED BY <1>2, <1>3 DEF H

LEMMA SetKeeps ==
  ASSUME NEW col, Inv(col), job = NoJob, NEW h \in Handle
  PROVE  /\ \A k \in Key : Native_JsonSet(h, k) => DataInv'
         /\ \A k \in Key : Native_IntMapSet(h, k) => DataInv'
         /\ \A i : Native_JsonArraySet(h, i) => DataInv'
         /\ Native_JsonArrayAppend(h) => DataInv'
<1>1. ASSUME Valid(h)
      PROVE  json[h] \in Node /\ NonFree(heap, json[h])
  BY <1>1, HandleNode
<1>2. "Object" \in Maps /\ "IntMap" \in Maps
  BY DEF Maps
<1>3. \A m \in FreeNodes(heap) : m \in Node
  BY DEF FreeNodes
<1>4. ASSUME NEW k \in Key, Native_JsonSet(h, k)
      PROVE  DataInv'
  <2>1. PICK m \in FreeNodes(heap) : Change(ObjInsert(Make(heap, m, "Int"), json[h], k, m))
    BY <1>4 DEF Native_JsonSet
  <2>2. Valid(h)
    BY <1>4 DEF Native_JsonSet, OfType
  <2>3. HeapType(Make(heap, m, "Int"))
    BY MakeType
  <2>4. Op(Make(heap, m, "Int"), json[h], m, ObjInsert(Make(heap, m, "Int"), json[h], k, m))
    BY <2>2, <2>3, <1>1, <1>2, <1>3, MapInsertOp DEF ObjInsert
  <2>5. QED BY <2>1, <2>2, <2>4, ScalarKeeps
<1>5. ASSUME NEW k \in Key, Native_IntMapSet(h, k)
      PROVE  DataInv'
  <2>1. PICK m \in FreeNodes(heap) : Change(IntMapInsert(Make(heap, m, "Int"), json[h], k, m))
    BY <1>5 DEF Native_IntMapSet
  <2>2. Valid(h)
    BY <1>5 DEF Native_IntMapSet, OfType
  <2>3. HeapType(Make(heap, m, "Int"))
    BY MakeType
  <2>4. Op(Make(heap, m, "Int"), json[h], m, IntMapInsert(Make(heap, m, "Int"), json[h], k, m))
    BY <2>2, <2>3, <1>1, <1>2, <1>3, MapInsertOp DEF IntMapInsert
  <2>5. QED BY <2>1, <2>2, <2>4, ScalarKeeps
<1>6. ASSUME NEW i, Native_JsonArraySet(h, i)
      PROVE  DataInv'
  <2>1. PICK m \in FreeNodes(heap) : Change(ArrSet(Make(heap, m, "Int"), json[h], i, m))
    BY <1>6 DEF Native_JsonArraySet
  <2>2. Valid(h)
    BY <1>6 DEF Native_JsonArraySet
  <2>3. HeapType(Make(heap, m, "Int"))
    BY MakeType
  <2>4. Op(Make(heap, m, "Int"), json[h], m, ArrSet(Make(heap, m, "Int"), json[h], i, m))
    BY <2>2, <2>3, <1>1, <1>3, ArrSetOp
  <2>5. QED BY <2>1, <2>2, <2>4, ScalarKeeps
<1>7. ASSUME Native_JsonArrayAppend(h)
      PROVE  DataInv'
  <2>1. PICK m \in FreeNodes(heap) : Change(Leaves(Append2(Make(heap, m, "Int"), json[h], m)))
    BY <1>7 DEF Native_JsonArrayAppend
  <2>2. Valid(h) /\ heap.type[json[h]] = "Array" /\ Length(heap.kids[json[h]]) < MaxLength
    BY <1>7 DEF Native_JsonArrayAppend, OfType
  <2> DEFINE H == Make(heap, m, "Int")
  <2>3. HeapType(H) /\ H.kids = heap.kids /\ H.type[json[h]] = "Array"
    BY <2>2, <1>1, MakeType
  <2> HIDE DEF H
  <2>4. Op(H, json[h], m, Leaves(Append2(H, json[h], m)))
    BY <2>2, <2>3, <1>1, <1>3, AppendOp
  <2>5. QED BY <2>1, <2>2, <2>4, ScalarKeeps DEF H
<1>8. QED BY <1>4, <1>5, <1>6, <1>7

(* A node that a handle has is given to a container, and the handle freed. *)
LEMMA SetNodeStep ==
  ASSUME NEW col, Inv(col), job = NoJob, NEW h \in Handle, NEW c \in Handle, NEW r,
         SetNode(h, c, r), Op(Incref(heap, json[c]), json[h], json[c], r)
  PROVE  DataInv'
<1>1. /\ Valid(h) /\ Valid(c) /\ Insertable(json[h], json[c])
      /\ heap' = r.heap /\ FreeHandle(c, r.out) /\ Others
  BY DEF SetNode
<1>2. json[h] \in Node /\ NonFree(heap, json[h]) /\ col[json[h]] = "plugin"
  BY <1>1, HandleNode
<1>3. json[c] \in Node /\ NonFree(heap, json[c]) /\ col[json[c]] = "plugin"
  BY <1>1, HandleNode
<1>4. r.out \in [Node -> Nat] /\ StateType
  BY DEF Op, Inv
<1>5. GameHolds(r.out)
  BY <1>1, <1>4, FreeHandleHolds
<1>6. /\ Prepared(Incref(heap, json[c]), Plus(HeldF, One(json[c])), col, col, json[c])
      /\ Below(Incref(heap, json[c]), {json[c]}) = Below(heap, {json[c]})
  BY <1>3, PreparedIncref
<1>7. json[h] \notin Below(Incref(heap, json[c]), {json[c]})
  BY <1>1, <1>6 DEF Insertable
<1>8. QED BY <1>1, <1>2, <1>3, <1>5, <1>6, <1>7, ChangeStep

LEMMA SetNodeKeeps ==
  ASSUME NEW col, Inv(col), job = NoJob, NEW h \in Handle, NEW c \in Handle
  PROVE  /\ \A k \in Key : Native_JsonSetObject(h, k, c) => DataInv'
         /\ \A k \in Key : Native_IntMapSetObject(h, k, c) => DataInv'
         /\ \A i : Native_JsonArraySetObject(h, i, c) => DataInv'
         /\ Native_JsonArrayAppendObject(h, c) => DataInv'
<1> DEFINE H == Incref(heap, json[c])
<1>1. ASSUME NEW r, SetNode(h, c, r)
      PROVE  /\ json[h] \in Node /\ json[c] \in Node
             /\ HeapType(H) /\ H.kids = heap.kids /\ H.type = heap.type
  <2>1. json[h] \in Node /\ json[c] \in Node /\ NonFree(heap, json[c]) /\ col[json[c]] = "plugin"
    BY <1>1, HandleNode DEF SetNode
  <2>2. /\ Prepared(H, Plus(HeldF, One(json[c])), col, col, json[c])
        /\ H.type = heap.type
    BY <2>1, PreparedIncref
  <2> HIDE DEF H
  <2>3. HeapType(H) /\ H.kids = heap.kids
    BY <2>2 DEF Prepared, Good
  <2>4. QED BY <2>1, <2>2, <2>3
<1>2. "Object" \in Maps /\ "IntMap" \in Maps
  BY DEF Maps
<1>3. ASSUME NEW r, SetNode(h, c, r), Op(H, json[h], json[c], r)
      PROVE  DataInv'
  BY <1>3, SetNodeStep
<1>4. ASSUME NEW k \in Key, Native_JsonSetObject(h, k, c)
      PROVE  DataInv'
  <2> DEFINE r == ObjInsert(H, json[h], k, json[c])
  <2>1. SetNode(h, c, r)
    BY <1>4 DEF Native_JsonSetObject
  <2>2. Op(H, json[h], json[c], r)
    <3>1. json[h] \in Node /\ json[c] \in Node /\ HeapType(H)
      BY <1>1, <2>1
    <3> HIDE DEF H
    <3>2. QED BY <3>1, <1>2, MapInsertOp DEF ObjInsert
  <2> HIDE DEF H, r
  <2>3. QED BY <2>1, <2>2, <1>3
<1>5. ASSUME NEW k \in Key, Native_IntMapSetObject(h, k, c)
      PROVE  DataInv'
  <2> DEFINE r == IntMapInsert(H, json[h], k, json[c])
  <2>1. SetNode(h, c, r)
    BY <1>5 DEF Native_IntMapSetObject
  <2>2. Op(H, json[h], json[c], r)
    <3>1. json[h] \in Node /\ json[c] \in Node /\ HeapType(H)
      BY <1>1, <2>1
    <3> HIDE DEF H
    <3>2. QED BY <3>1, <1>2, MapInsertOp DEF IntMapInsert
  <2> HIDE DEF H, r
  <2>3. QED BY <2>1, <2>2, <1>3
<1>6. ASSUME NEW i, Native_JsonArraySetObject(h, i, c)
      PROVE  DataInv'
  <2> DEFINE r == ArrSet(H, json[h], i, json[c])
  <2>1. SetNode(h, c, r)
    BY <1>6 DEF Native_JsonArraySetObject
  <2>2. Op(H, json[h], json[c], r)
    <3>1. json[h] \in Node /\ json[c] \in Node /\ HeapType(H)
      BY <1>1, <2>1
    <3> HIDE DEF H
    <3>2. QED BY <3>1, ArrSetOp
  <2> HIDE DEF H, r
  <2>3. QED BY <2>1, <2>2, <1>3
<1>7. ASSUME Native_JsonArrayAppendObject(h, c)
      PROVE  DataInv'
  <2> DEFINE r == Leaves(Append2(H, json[h], json[c]))
  <2>1. /\ SetNode(h, c, r)
        /\ heap.type[json[h]] = "Array" /\ Length(heap.kids[json[h]]) < MaxLength
    BY <1>7 DEF Native_JsonArrayAppendObject, OfType
  <2>2. Op(H, json[h], json[c], r)
    <3>1. /\ json[h] \in Node /\ json[c] \in Node
          /\ HeapType(H) /\ H.kids = heap.kids /\ H.type = heap.type
      BY <1>1, <2>1
    <3> HIDE DEF H
    <3>2. QED BY <3>1, <2>1, AppendOp
  <2> HIDE DEF H, r
  <2>3. QED BY <2>1, <2>2, <1>3
<1>8. QED BY <1>4, <1>5, <1>6, <1>7

LEMMA CloseKeeps ==
  ASSUME NEW col, Inv(col), job = NoJob, NEW h \in Handle
  PROVE  /\ Native_JsonClose(h) => DataInv'
         /\ SendRefused(h) => DataInv'
<1>1. ASSUME Valid(h), FreeHandle(h, Nothing), UNCHANGED heap, Others
      PROVE  DataInv'
  <2>1. json[h] \in Node /\ NonFree(heap, json[h]) /\ col[json[h]] = "plugin"
    BY <1>1, HandleNode
  <2>2. Nothing \in [Node -> Nat] /\ StateType
    BY OneNothing DEF Inv
  <2>3. GameHolds(Nothing)
    BY <1>1, <2>2, FreeHandleHolds
  <2>4. Prepared(heap, HeldF, col, col, None) /\ None \notin Node
    BY PreparedHeap, DataAssumption
  <2> DEFINE r == Leaves(heap)
  <2>5. Op(heap, json[h], None, r)
    BY <2>1, InvHeap, LeavesOp
  <2>6. r.heap = heap /\ r.out = Nothing
    BY DEF Leaves
  <2> HIDE DEF r
  <2>7. heap' = r.heap /\ GameHolds(r.out)
    BY <1>1, <2>3, <2>6
  <2>8. QED BY <1>1, <2>1, <2>4, <2>5, <2>7, ChangeStep
<1>2. QED BY <1>1 DEF Native_JsonClose, SendRefused

LEMMA ParseKeeps ==
  ASSUME NEW col, Inv(col), job = NoJob, Native_JsonParseString
  PROVE  DataInv'
<1>0. PICK r \in FreeNodes(heap) :
        \E f \in Parses(heap, r) : heap' = Parsed(heap, r, f) /\ NewHandle(r)
  BY DEF Native_JsonParseString
<1>1. PICK f \in Parses(heap, r) : heap' = Parsed(heap, r, f) /\ NewHandle(r)
  BY <1>0
<1>2. Others /\ Good(heap, HeldF, col) /\ StateType /\ r \in Node
  BY DEF Native_JsonParseString, Inv, FreeNodes
<1> DEFINE y == Plus(HeldF, One(r))
           M == ParsedNodes(r, f)
           c2 == Paint(col, M, "plugin")
<1>3. HeldF \in [Node -> Nat] /\ One(r) \in [Node -> Nat] /\ col \in [Node -> Group]
  BY <1>2, HeldFType, OneNothing DEF Good
<1>4. y \in [Node -> Nat] /\ \A m \in Node : y[m] = HeldF[m] + One(r)[m]
  BY <1>3, PlusType
<1>5. /\ c2 \in [Node -> Group] /\ "plugin" \in Group
      /\ \A n \in Node : c2[n] = IF n \in M THEN "plugin" ELSE col[n]
  BY <1>3, PaintType DEF Group
<1> HIDE DEF y, c2
<1>6. /\ Good(heap', y, c2)
      /\ heap'.moved = heap.moved
      /\ r \in M /\ M \subseteq FreeNodes(heap)
      /\ \A m \in Node \ M :
               heap'.type[m] = heap.type[m] /\ heap'.kids[m] = heap.kids[m]
               /\ heap'.ref[m] = heap.ref[m]
  BY <1>1, <1>2, <1>4, <1>5, ParsedGood
<1> HIDE DEF M
<1>7. GameHolds(One(r))
  BY <1>1, <1>2, NewHandleHolds
<1>8. \A m \in Node : One(r)[m] > 0 => c2[m] = "plugin"
  BY <1>5, <1>6, OneType
<1>9. \A m \in Node : NonFree(heap, m) => c2[m] = col[m] /\ m \notin M
  BY <1>5, <1>6 DEF NonFree, FreeNodes
<1>10. \A m \in Node : NonFree(heap', m) => NonFree(heap, m) \/ c2[m] # "copy"
  BY <1>5, <1>6 DEF NonFree
<1>11. IterKeeps(heap, heap')
  BY <1>6, <1>9, IterNode DEF IterKeeps
<1>12. Inv(c2)'
  <2> DEFINE b == One(r)
  <2>1. /\ b \in [Node -> Nat] /\ GameHolds(b)
        /\ \A m \in Node : b[m] > 0 => c2[m] = "plugin"
        /\ \A m \in Node : y[m] = HeldF[m] + b[m]
    BY <1>3, <1>4, <1>7, <1>8
  <2> HIDE DEF b
  <2>2. /\ c2 \in [Node -> Group] /\ Good(heap', y, c2) /\ Others
        /\ \A m \in Node : NonFree(heap, m) => c2[m] = col[m]
    BY <1>2, <1>5, <1>6, <1>9
  <2>3. QED BY <2>1, <2>2, <1>10, <1>11, NativeStep
<1>13. QED BY <1>5, <1>12 DEF DataInv

(* The state between two natives. *)
LEMMA IdleNext ==
  ASSUME NEW c2 \in [Node -> Group], StateType', Good(heap', HeldF', c2), RootsOK(c2)',
         IterOK', job' = NoJob, copy' = NoCopy,
         \A m \in Node : NonFree(heap', m) => c2[m] # "copy"
  PROVE  DataInv'
<1>1. CopyInv(c2)'
  <2>1. DOMAIN copy'.of = {}
    BY NoCopyFacts
  <2>2. QED BY <2>1 DEF CopyInv
<1>2. JobInv'
  BY NoJobFacts DEF JobInv
<1>3. Inv(c2)'
  BY <1>1, <1>2 DEF Inv
<1>4. QED BY <1>3 DEF DataInv

LEMMA HeldFNext ==
  ASSUME NEW x \in [Node -> Nat], \A m \in Node : HeldF'[m] = x[m]
  PROVE  HeldF' = x
<1>1. HeldF' = [n \in Node |-> HeldF'[n]]
  BY DEF HeldF
<1>2. QED BY <1>1

(* Whole groups change hands, between two natives or at the end of one. *)
LEMMA HandOver ==
  ASSUME NEW col, Inv(col), UNCHANGED <<heap, iter>>, StateType', job' = NoJob, copy' = NoCopy,
         NEW c2 \in [Node -> Group],
         \A m, n \in Node : col[m] = col[n] => c2[m] = c2[n],
         \A m \in Node : NonFree(heap, m) => c2[m] # "copy",
         \A m \in Node : HeldF'[m] = HeldF[m],
         RootsOK(c2)'
  PROVE  DataInv'
<1>1. Good(heap, HeldF, col) /\ StateType /\ IterOK /\ HeldF \in [Node -> Nat]
  BY HeldFType DEF Inv
<1>2. HeldF' = HeldF
  BY <1>1, HeldFNext
<1>3. Good(heap, HeldF, c2)
  BY <1>1, Regroup
<1>4. Good(heap', HeldF', c2)
  BY <1>2, <1>3
<1>5. IterOK'
  <2>1. IterKeeps(heap, heap')
    BY DEF IterKeeps
  <2>2. QED BY <1>1, <2>1, IterKept
<1>6. \A m \in Node : NonFree(heap', m) => c2[m] # "copy"
  OBVIOUS
<1>7. QED BY <1>4, <1>5, <1>6, IdleNext

Repaint(col, g, k) == [n \in Node |-> IF col[n] = g THEN k ELSE col[n]]

LEMMA RepaintType ==
  ASSUME NEW col \in [Node -> Group], NEW g, NEW k \in Group
  PROVE  /\ Repaint(col, g, k) \in [Node -> Group]
         /\ \A n \in Node : Repaint(col, g, k)[n] = IF col[n] = g THEN k ELSE col[n]
         /\ \A m, n \in Node : col[m] = col[n] => Repaint(col, g, k)[m] = Repaint(col, g, k)[n]
BY DEF Repaint

LEMMA InvColour ==
  ASSUME NEW col, Inv(col)
  PROVE  col \in [Node -> Group]
BY DEF Inv, Good

LEMMA GroupNames ==
  /\ "plugin" \in Group /\ "body" \in Group /\ "copy" \in Group /\ "parsed" \in Group
  /\ "event" \in Group
BY DEF Group

(* What is held after a step that leaves the iterator alone. *)
LEMMA HeldHands ==
  ASSUME StateType, NEW b \in [Node -> Nat], GameHolds(b), iter' = iter, NEW m \in Node
  PROVE  /\ PluginHolds(m)' = PluginHolds(m) + b[m]
         /\ EventHolds(m)' + One(sent)[m] = EventHolds(m) + One(sent')[m]
         /\ HeldF'[m] + One(body)[m] + One(sent)[m] + One(parsed)[m] + One(copy.root)[m]
            = HeldF[m] + b[m] + One(body')[m] + One(sent')[m] + One(parsed')[m] + One(copy'.root)[m]
         /\ HeldF'[m] \in Nat /\ HeldF[m] \in Nat
         /\ PluginHolds(m) \in Nat /\ EventHolds(m) \in Nat /\ EventHolds(m)' \in Nat
         /\ b[m] \in Nat
<1>1. /\ HeldF'[m] + One(iter.node)[m] + One(body)[m] + One(sent)[m] + One(parsed)[m]
           + One(copy.root)[m]
         = HeldF[m] + b[m] + One(iter'.node)[m] + One(body')[m] + One(sent')[m]
           + One(parsed')[m] + One(copy'.root)[m]
      /\ HeldF'[m] \in Nat
      /\ PluginHolds(m)' + One(iter.node)[m] = PluginHolds(m) + b[m] + One(iter'.node)[m]
      /\ PluginHolds(m)' \in Nat
      /\ EventHolds(m)' + One(sent)[m] = EventHolds(m) + One(sent')[m]
      /\ EventHolds(m)' \in Nat
  BY HeldNext
<1>2. iter'.node = iter.node
  OBVIOUS
<1>3. /\ One(body)[m] \in Nat /\ One(sent)[m] \in Nat /\ One(parsed)[m] \in Nat
      /\ One(copy.root)[m] \in Nat /\ One(iter.node)[m] \in Nat
      /\ One(body')[m] \in Nat /\ One(sent')[m] \in Nat /\ One(parsed')[m] \in Nat
      /\ One(copy'.root)[m] \in Nat
  BY OneType
<1>4. HeldF[m] \in Nat /\ PluginHolds(m) \in Nat /\ EventHolds(m) \in Nat /\ b[m] \in Nat
  BY HeldParts
<1>5. PluginHolds(m)' + One(iter.node)[m] = PluginHolds(m) + b[m] + One(iter.node)[m]
  BY <1>1, <1>2
<1>6. PluginHolds(m)' = PluginHolds(m) + b[m]
  BY <1>1, <1>3, <1>4, <1>5, SMTT(40)
<1>7. HeldF'[m] + One(iter.node)[m] + One(body)[m] + One(sent)[m] + One(parsed)[m]
           + One(copy.root)[m]
         = HeldF[m] + b[m] + One(iter.node)[m] + One(body')[m] + One(sent')[m]
           + One(parsed')[m] + One(copy'.root)[m]
  BY <1>1, <1>2
<1>8. HeldF'[m] + One(body)[m] + One(sent)[m] + One(parsed)[m] + One(copy.root)[m]
      = HeldF[m] + b[m] + One(body')[m] + One(sent')[m] + One(parsed')[m] + One(copy'.root)[m]
  BY <1>1, <1>3, <1>4, <1>7
<1>9. QED BY <1>1, <1>4, <1>6, <1>8

(* What the state holds is passed on: every reference that one holder gives up
   another one gets, and takes the group with it. *)
LEMMA PassOn ==
  ASSUME NEW col, Inv(col), UNCHANGED <<heap, iter>>, job' = NoJob, copy' = NoCopy,
         {body', sent', parsed'} \subseteq Node \cup {None},
         NEW b \in [Node -> Nat], GameHolds(b),
         \A m \in Node : b[m] + One(body')[m] + One(sent')[m] + One(parsed')[m]
                         = One(body)[m] + One(sent)[m] + One(parsed)[m] + One(copy.root)[m],
         NEW c2 \in [Node -> Group],
         \A m, n \in Node : col[m] = col[n] => c2[m] = c2[n],
         \A m \in Node : NonFree(heap, m) => c2[m] # "copy",
         \A m \in Node : col[m] \in {"plugin", "event"} => c2[m] = col[m],
         \A m \in Node : b[m] > 0 => c2[m] = "plugin",
         \A m \in Node : /\ m = body' => c2[m] = "body"
                         /\ m = parsed' => c2[m] = "parsed"
                         /\ m = sent' => c2[m] = "event"
  PROVE  DataInv'
<1>1. StateType /\ RootsOK(col)
  BY DEF Inv
<1>2. StateType'
  <2>1. copy' \in [root : Node \cup {None}, of : UNION {[S -> Node] : S \in SUBSET Node}]
    <3>1. NoKids \in [{} -> Node]
      BY DEF NoKids
    <3>2. QED BY <3>1 DEF NoCopy
  <2>2. job' \in [op : {"None", "Copy", "Body", "Send", "Merge", "Extend"},
                  h : Handle \cup {None}, o : Handle \cup {None}, todo : SUBSET Slot,
                  overwrite : BOOLEAN]
    BY DEF NoJob
  <2>3. iter' \in [slot : Handle \cup {None}, node : Node \cup {None}, todo : SUBSET Key,
                   keys : SUBSET Key, value : Node \cup {None}]
    BY <1>1 DEF StateType
  <2>4. QED BY <2>1, <2>2, <2>3 DEF StateType, GameHolds
<1>3. ASSUME NEW m \in Node
      PROVE  /\ PluginHolds(m)' = PluginHolds(m) + b[m]
             /\ EventHolds(m)' + One(sent)[m] = EventHolds(m) + One(sent')[m]
             /\ HeldF'[m] + One(body)[m] + One(sent)[m] + One(parsed)[m] + One(copy.root)[m]
                = HeldF[m] + b[m] + One(body')[m] + One(sent')[m] + One(parsed')[m]
                  + One(copy'.root)[m]
             /\ HeldF'[m] \in Nat /\ HeldF[m] \in Nat
             /\ PluginHolds(m) \in Nat /\ EventHolds(m) \in Nat /\ EventHolds(m)' \in Nat
             /\ b[m] \in Nat
  BY <1>1, HeldHands
<1>4. copy'.root = None
  BY NoCopyFacts
<1>5. \A m \in Node : HeldF'[m] = HeldF[m]
  <2> TAKE m \in Node
  <2>1. /\ One(body)[m] \in Nat /\ One(sent)[m] \in Nat /\ One(parsed)[m] \in Nat
        /\ One(copy.root)[m] \in Nat
        /\ One(body')[m] \in Nat /\ One(sent')[m] \in Nat /\ One(parsed')[m] \in Nat
    BY OneType
  <2>2. One(copy'.root)[m] = 0
    BY <1>4, OneNothing
  <2> DEFINE p == One(body)[m] + One(sent)[m] + One(parsed)[m] + One(copy.root)[m]
             q == b[m] + One(body')[m] + One(sent')[m] + One(parsed')[m]
  <2>3. p = q /\ p \in Nat
    BY <2>1
  <2>4. HeldF'[m] + p = HeldF[m] + q
    BY <1>3, <2>1, <2>2
  <2>5. HeldF'[m] \in Nat /\ HeldF[m] \in Nat
    BY <1>3
  <2> HIDE DEF p, q
  <2>6. QED BY <2>3, <2>4, <2>5
<1>6. RootsOK(c2)'
  <2> SUFFICES ASSUME NEW n \in Node
               PROVE  /\ PluginHolds(n)' > 0 => c2[n] = "plugin"
                      /\ n = body' => c2[n] = "body"
                      /\ n # None
                      /\ n = parsed' => c2[n] = "parsed"
                      /\ EventHolds(n)' > 0 => c2[n] = "event"
    BY <1>4 DEF RootsOK
  <2>1. n # None
    BY DataAssumption
  <2>2. PluginHolds(n)' > 0 => c2[n] = "plugin"
    <3>1. PluginHolds(n)' > 0 => PluginHolds(n) > 0 \/ b[n] > 0
      BY <1>3
    <3>2. PluginHolds(n) > 0 => c2[n] = "plugin"
      BY <1>1 DEF RootsOK
    <3>3. QED BY <3>1, <3>2
  <2>3. EventHolds(n)' > 0 => c2[n] = "event"
    <3>1. One(sent')[n] = (IF n = sent' THEN 1 ELSE 0) /\ One(sent)[n] \in Nat
      BY OneType
    <3>2. EventHolds(n)' > 0 => EventHolds(n) > 0 \/ n = sent'
      BY <1>3, <3>1
    <3>3. EventHolds(n) > 0 => c2[n] = "event"
      BY <1>1 DEF RootsOK
    <3>4. QED BY <3>2, <3>3
  <2>4. QED BY <2>1, <2>2, <2>3
<1>7. QED BY <1>2, <1>5, <1>6, HandOver

LEMMA KeepHolds ==
  ASSUME StateType, UNCHANGED <<json, drop>>
  PROVE  GameHolds(Nothing) /\ Nothing \in [Node -> Nat]
<1>1. drop \in [Thread -> [Node -> Nat]] /\ json \in [Handle -> Node \cup {None}]
      /\ "game" \in Thread
  BY DEF StateType, Thread
<1>2. ASSUME NEW m \in Node
      PROVE  Refs(json)[m] + drop["game"][m] = Refs(json)[m] + drop["game"][m] + Nothing[m]
  <2>1. Refs(json)[m] \in Nat /\ drop["game"][m] \in Nat /\ Nothing[m] = 0
    BY <1>1, JsonRefs, OneNothing
  <2>2. QED BY <2>1
<1>3. QED BY <1>1, <1>2, OneNothing DEF GameHolds

(* The facts about the roots that the lemmas below need. *)
LEMMA RootFacts ==
  ASSUME NEW col, Inv(col)
  PROVE  /\ StateType
         /\ {body, sent, parsed, copy.root} \subseteq Node \cup {None}
         /\ \A m \in Node : /\ m = body => col[m] = "body"
                            /\ m = parsed => col[m] = "parsed"
                            /\ m = copy.root => col[m] = "copy"
                            /\ m = sent => col[m] = "event"
<1>1. StateType /\ RootsOK(col)
  BY DEF Inv
<1>2. {body, sent, parsed, copy.root} \subseteq Node \cup {None}
  BY <1>1 DEF StateType
<1>3. \A m \in Node : /\ m = body => col[m] = "body"
                      /\ m = parsed => col[m] = "parsed"
                      /\ m = copy.root => col[m] = "copy"
  BY <1>1 DEF RootsOK
<1>4. ASSUME NEW m \in Node, m = sent
      PROVE  col[m] = "event"
  <2>1. EventHolds(m) = One(sent)[m] + drop["event"][m] /\ drop["event"][m] \in Nat
    BY <1>1, HeldParts
  <2>2. One(sent)[m] = 1
    BY <1>4, OneType
  <2>3. EventHolds(m) > 0
    BY <2>1, <2>2
  <2>4. QED BY <1>1, <2>3 DEF RootsOK
<1>5. QED BY <1>1, <1>2, <1>3, <1>4

LEMMA DropBodyKeeps ==
  ASSUME NEW col, Inv(col), job = NoJob, DropBody
  PROVE  DataInv'
<1>1. /\ Release("game", One(body)) /\ body' = None
      /\ UNCHANGED <<heap, json, iter, sent, parsed, copy, job>>
  BY DEF DropBody
<1>2. /\ StateType
      /\ {body, sent, parsed, copy.root} \subseteq Node \cup {None}
      /\ \A m \in Node : /\ m = body => col[m] = "body"
                         /\ m = parsed => col[m] = "parsed"
                         /\ m = copy.root => col[m] = "copy"
                         /\ m = sent => col[m] = "event"
  BY RootFacts
<1> DEFINE b == One(body)
           c2 == Repaint(col, "body", "plugin")
<1>3. b \in [Node -> Nat] /\ GameHolds(b)
  BY <1>1, <1>2, OneNothing, ReleaseHolds
<1>4. /\ copy = NoCopy /\ copy.root = None
      /\ \A n \in Node : NonFree(heap, n) => col[n] # "copy"
  BY IdleFacts
<1>5. /\ c2 \in [Node -> Group]
      /\ \A n \in Node : c2[n] = IF col[n] = "body" THEN "plugin" ELSE col[n]
      /\ \A m, n \in Node : col[m] = col[n] => c2[m] = c2[n]
  BY InvColour, GroupNames, RepaintType
<1>6. \A m \in Node : b[m] > 0 => m = body
  BY OneType
<1>7. \A m \in Node : b[m] + One(body')[m] + One(sent')[m] + One(parsed')[m]
                      = One(body)[m] + One(sent)[m] + One(parsed)[m] + One(copy.root)[m]
  <2> TAKE m \in Node
  <2>1. /\ One(body)[m] \in Nat /\ One(sent)[m] \in Nat /\ One(parsed)[m] \in Nat
        /\ One(None)[m] = 0
    BY OneType, OneNothing
  <2>2. QED BY <2>1, <1>1, <1>4
<1> HIDE DEF b, c2
<1>8. /\ UNCHANGED <<heap, iter>> /\ job' = NoJob /\ copy' = NoCopy
      /\ {body', sent', parsed'} \subseteq Node \cup {None}
  BY <1>1, <1>2, <1>4
<1>9. /\ \A m \in Node : NonFree(heap, m) => c2[m] # "copy"
      /\ \A m \in Node : col[m] \in {"plugin", "event"} => c2[m] = col[m]
      /\ \A m \in Node : b[m] > 0 => c2[m] = "plugin"
  BY <1>2, <1>4, <1>5, <1>6
<1>10. \A m \in Node : /\ m = body' => c2[m] = "body"
                       /\ m = parsed' => c2[m] = "parsed"
                       /\ m = sent' => c2[m] = "event"
  BY <1>1, <1>2, <1>5, DataAssumption
<1>11. QED BY <1>3, <1>5, <1>7, <1>8, <1>9, <1>10, PassOn

LEMMA ExecuteKeeps ==
  ASSUME NEW col, Inv(col), job = NoJob, Native_HttpExecute
  PROVE  DataInv'
<1>1. /\ sent = None /\ sent' = body /\ body' = None
      /\ UNCHANGED <<heap, json, iter, parsed, drop, copy, job>>
  BY DEF Native_HttpExecute
<1>2. /\ StateType
      /\ {body, sent, parsed, copy.root} \subseteq Node \cup {None}
      /\ \A m \in Node : /\ m = body => col[m] = "body"
                         /\ m = parsed => col[m] = "parsed"
                         /\ m = copy.root => col[m] = "copy"
                         /\ m = sent => col[m] = "event"
  BY RootFacts
<1> DEFINE b == Nothing
           c2 == Repaint(col, "body", "event")
<1>3. b \in [Node -> Nat] /\ GameHolds(b)
  BY <1>1, <1>2, KeepHolds
<1>4. /\ copy = NoCopy /\ copy.root = None
      /\ \A n \in Node : NonFree(heap, n) => col[n] # "copy"
  BY IdleFacts
<1>5. /\ c2 \in [Node -> Group]
      /\ \A n \in Node : c2[n] = IF col[n] = "body" THEN "event" ELSE col[n]
      /\ \A m, n \in Node : col[m] = col[n] => c2[m] = c2[n]
  BY InvColour, GroupNames, RepaintType
<1>6. \A m \in Node : b[m] = 0
  BY OneNothing
<1>7. \A m \in Node : b[m] + One(body')[m] + One(sent')[m] + One(parsed')[m]
                      = One(body)[m] + One(sent)[m] + One(parsed)[m] + One(copy.root)[m]
  <2> TAKE m \in Node
  <2>1. /\ One(body)[m] \in Nat /\ One(sent)[m] \in Nat /\ One(parsed)[m] \in Nat
        /\ One(None)[m] = 0
    BY OneType, OneNothing
  <2>2. QED BY <2>1, <1>1, <1>4, <1>6
<1> HIDE DEF b, c2
<1>8. /\ UNCHANGED <<heap, iter>> /\ job' = NoJob /\ copy' = NoCopy
      /\ {body', sent', parsed'} \subseteq Node \cup {None}
  BY <1>1, <1>2, <1>4
<1>9. /\ \A m \in Node : NonFree(heap, m) => c2[m] # "copy"
      /\ \A m \in Node : col[m] \in {"plugin", "event"} => c2[m] = col[m]
      /\ \A m \in Node : b[m] > 0 => c2[m] = "plugin"
  BY <1>2, <1>4, <1>5, <1>6
<1>10. \A m \in Node : /\ m = body' => c2[m] = "body"
                       /\ m = parsed' => c2[m] = "parsed"
                       /\ m = sent' => c2[m] = "event"
  BY <1>1, <1>2, <1>5, DataAssumption
<1>11. QED BY <1>3, <1>5, <1>7, <1>8, <1>9, <1>10, PassOn

LEMMA DeliverKeeps ==
  ASSUME NEW col, Inv(col), job = NoJob, NEW callback \in BOOLEAN, Deliver(callback)
  PROVE  DataInv'
<1>1. /\ parsed # None /\ parsed' = None
      /\ UNCHANGED <<heap, iter, body, sent, copy, job>>
  BY DEF Deliver
<1>2. /\ StateType
      /\ {body, sent, parsed, copy.root} \subseteq Node \cup {None}
      /\ \A m \in Node : /\ m = body => col[m] = "body"
                         /\ m = parsed => col[m] = "parsed"
                         /\ m = copy.root => col[m] = "copy"
                         /\ m = sent => col[m] = "event"
  BY RootFacts
<1> DEFINE b == One(parsed)
           c2 == Repaint(col, "parsed", "plugin")
<1>3. b \in [Node -> Nat] /\ GameHolds(b)
  <2>1. parsed \in Node /\ One(parsed) \in [Node -> Nat]
    BY <1>1, <1>2, OneNothing
  <2>2. CASE callback
    BY <2>1, <2>2, <1>2, NewHandleHolds DEF Deliver
  <2>3. CASE ~callback
    BY <2>1, <2>3, <1>2, ReleaseHolds DEF Deliver
  <2>4. QED BY <2>1, <2>2, <2>3
<1>4. /\ copy = NoCopy /\ copy.root = None
      /\ \A n \in Node : NonFree(heap, n) => col[n] # "copy"
  BY IdleFacts
<1>5. /\ c2 \in [Node -> Group]
      /\ \A n \in Node : c2[n] = IF col[n] = "parsed" THEN "plugin" ELSE col[n]
      /\ \A m, n \in Node : col[m] = col[n] => c2[m] = c2[n]
  BY InvColour, GroupNames, RepaintType
<1>6. \A m \in Node : b[m] > 0 => m = parsed
  BY OneType
<1>7. \A m \in Node : b[m] + One(body')[m] + One(sent')[m] + One(parsed')[m]
                      = One(body)[m] + One(sent)[m] + One(parsed)[m] + One(copy.root)[m]
  <2> TAKE m \in Node
  <2>1. /\ One(body)[m] \in Nat /\ One(sent)[m] \in Nat /\ One(parsed)[m] \in Nat
        /\ One(None)[m] = 0
    BY OneType, OneNothing
  <2>2. QED BY <2>1, <1>1, <1>4
<1> HIDE DEF b, c2
<1>8. /\ UNCHANGED <<heap, iter>> /\ job' = NoJob /\ copy' = NoCopy
      /\ {body', sent', parsed'} \subseteq Node \cup {None}
  BY <1>1, <1>2, <1>4
<1>9. /\ \A m \in Node : NonFree(heap, m) => c2[m] # "copy"
      /\ \A m \in Node : col[m] \in {"plugin", "event"} => c2[m] = col[m]
      /\ \A m \in Node : b[m] > 0 => c2[m] = "plugin"
  BY <1>2, <1>4, <1>5, <1>6
<1>10. \A m \in Node : /\ m = body' => c2[m] = "body"
                       /\ m = parsed' => c2[m] = "parsed"
                       /\ m = sent' => c2[m] = "event"
  BY <1>1, <1>2, <1>5, DataAssumption
<1>11. QED BY <1>3, <1>5, <1>7, <1>8, <1>9, <1>10, PassOn

-----------------------------------------------------------------------------
(* Deep copies.                                                            *)

LEMMA CopyType ==
  ASSUME StateType
  PROVE  /\ DOMAIN copy.of \subseteq Node
         /\ \A d \in DOMAIN copy.of : copy.of[d] \in Node
         /\ copy = [root |-> copy.root, of |-> copy.of]
<1>1. copy \in [root : Node \cup {None}, of : UNION {[S -> Node] : S \in SUBSET Node}]
  BY DEF StateType
<1>2. copy.of \in UNION {[S -> Node] : S \in SUBSET Node}
  BY <1>1
<1>3. PICK S \in SUBSET Node : copy.of \in [S -> Node]
  BY <1>2
<1>4. QED BY <1>1, <1>3

LEMMA CopyRoot ==
  ASSUME NEW col, Inv(col), copy # NoCopy
  PROVE  copy.root \in Node /\ copy.root \in DOMAIN copy.of /\ col[copy.root] = "copy"
<1>1. StateType /\ copy.root \in DOMAIN copy.of
  BY DEF Inv, CopyInv
<1>2. copy.root \in Node
  BY <1>1, CopyType
<1>3. QED BY <1>1, <1>2, RootFacts

LEMMA ReturnCopyKeeps ==
  ASSUME NEW col, Inv(col), ReturnCopy
  PROVE  DataInv'
<1>1. /\ NewHandle(copy.root)
      /\ job' = NoJob /\ copy' = NoCopy /\ copy # NoCopy
      /\ UNCHANGED <<heap, iter, body, sent, parsed>>
  BY DEF ReturnCopy, Copied, Copying
<1>2. /\ StateType
      /\ {body, sent, parsed, copy.root} \subseteq Node \cup {None}
      /\ \A m \in Node : /\ m = body => col[m] = "body"
                         /\ m = parsed => col[m] = "parsed"
                         /\ m = copy.root => col[m] = "copy"
                         /\ m = sent => col[m] = "event"
  BY RootFacts
<1> DEFINE b == One(copy.root)
           c2 == Repaint(col, "copy", "plugin")
<1>3. b \in [Node -> Nat] /\ GameHolds(b)
  <2>1. copy.root \in Node
    BY <1>1, CopyRoot
  <2>2. QED BY <1>1, <1>2, <2>1, NewHandleHolds, OneNothing
<1>5. /\ c2 \in [Node -> Group]
      /\ \A n \in Node : c2[n] = IF col[n] = "copy" THEN "plugin" ELSE col[n]
      /\ \A m, n \in Node : col[m] = col[n] => c2[m] = c2[n]
  BY InvColour, GroupNames, RepaintType
<1>6. \A m \in Node : b[m] > 0 => m = copy.root
  BY OneType, OneNothing
<1>7. \A m \in Node : b[m] + One(body')[m] + One(sent')[m] + One(parsed')[m]
                      = One(body)[m] + One(sent)[m] + One(parsed)[m] + One(copy.root)[m]
  <2> TAKE m \in Node
  <2>1. /\ One(body)[m] \in Nat /\ One(sent)[m] \in Nat /\ One(parsed)[m] \in Nat
        /\ One(None)[m] = 0 /\ One(copy.root)[m] \in Nat /\ Nothing[m] = 0
    BY OneType, OneNothing
  <2>2. QED BY <2>1, <1>1
<1> HIDE DEF b, c2
<1>8. /\ UNCHANGED <<heap, iter>>
      /\ {body', sent', parsed'} \subseteq Node \cup {None}
  BY <1>1, <1>2
<1>9. /\ \A m \in Node : c2[m] # "copy"
      /\ \A m \in Node : col[m] \in {"plugin", "event"} => c2[m] = col[m]
      /\ \A m \in Node : b[m] > 0 => c2[m] = "plugin"
  BY <1>2, <1>5, <1>6
<1>10. \A m \in Node : /\ m = body' => c2[m] = "body"
                       /\ m = parsed' => c2[m] = "parsed"
                       /\ m = sent' => c2[m] = "event"
  BY <1>1, <1>2, <1>5, DataAssumption
<1>11. QED BY <1>1, <1>3, <1>5, <1>7, <1>8, <1>9, <1>10, PassOn

LEMMA SetBodyKeeps ==
  ASSUME NEW col, Inv(col), SetBodyNode
  PROVE  DataInv'
<1>1. /\ body' = copy.root /\ FreeHandle(job.h, One(body)) /\ job.op = "Body"
      /\ job' = NoJob /\ copy' = NoCopy /\ copy # NoCopy
      /\ UNCHANGED <<heap, iter, sent, parsed>>
  BY DEF SetBodyNode, Copied, Copying
<1>2. /\ StateType
      /\ {body, sent, parsed, copy.root} \subseteq Node \cup {None}
      /\ \A m \in Node : /\ m = body => col[m] = "body"
                         /\ m = parsed => col[m] = "parsed"
                         /\ m = copy.root => col[m] = "copy"
                         /\ m = sent => col[m] = "event"
  BY RootFacts
<1> DEFINE b == One(body)
           c2 == Repaint(Repaint(col, "body", "plugin"), "copy", "body")
<1>3. b \in [Node -> Nat] /\ GameHolds(b)
  <2>1. job.h \in Handle
    BY <1>1 DEF Inv, JobInv
  <2>2. QED BY <1>1, <1>2, <2>1, FreeHandleHolds, OneNothing
<1>5. /\ c2 \in [Node -> Group]
      /\ \A n \in Node : c2[n] = IF col[n] = "body" THEN "plugin"
                               ELSE IF col[n] = "copy" THEN "body" ELSE col[n]
      /\ \A m, n \in Node : col[m] = col[n] => c2[m] = c2[n]
  <2> DEFINE c1 == Repaint(col, "body", "plugin")
  <2>1. /\ c1 \in [Node -> Group]
        /\ \A n \in Node : c1[n] = IF col[n] = "body" THEN "plugin" ELSE col[n]
        /\ \A m, n \in Node : col[m] = col[n] => c1[m] = c1[n]
    BY InvColour, GroupNames, RepaintType
  <2> HIDE DEF c1
  <2>2. /\ Repaint(c1, "copy", "body") \in [Node -> Group]
        /\ \A n \in Node : Repaint(c1, "copy", "body")[n] = IF c1[n] = "copy" THEN "body" ELSE c1[n]
        /\ \A m, n \in Node : c1[m] = c1[n] =>
              Repaint(c1, "copy", "body")[m] = Repaint(c1, "copy", "body")[n]
    BY <2>1, GroupNames, RepaintType
  <2>3. c2 = Repaint(c1, "copy", "body")
    BY DEF c1
  <2> HIDE DEF c2
  <2>4. QED BY <2>1, <2>2, <2>3
<1>6. \A m \in Node : b[m] > 0 => m = body
  BY OneType, OneNothing
<1>7. \A m \in Node : b[m] + One(body')[m] + One(sent')[m] + One(parsed')[m]
                      = One(body)[m] + One(sent)[m] + One(parsed)[m] + One(copy.root)[m]
  <2> TAKE m \in Node
  <2>1. /\ One(body)[m] \in Nat /\ One(sent)[m] \in Nat /\ One(parsed)[m] \in Nat
        /\ One(None)[m] = 0 /\ One(copy.root)[m] \in Nat /\ Nothing[m] = 0
    BY OneType, OneNothing
  <2>2. QED BY <2>1, <1>1
<1> HIDE DEF b, c2
<1>8. /\ UNCHANGED <<heap, iter>>
      /\ {body', sent', parsed'} \subseteq Node \cup {None}
  BY <1>1, <1>2
<1>9. /\ \A m \in Node : c2[m] # "copy"
      /\ \A m \in Node : col[m] \in {"plugin", "event"} => c2[m] = col[m]
      /\ \A m \in Node : b[m] > 0 => c2[m] = "plugin"
  BY <1>2, <1>5, <1>6
<1>10. \A m \in Node : /\ m = body' => c2[m] = "body"
                       /\ m = parsed' => c2[m] = "parsed"
                       /\ m = sent' => c2[m] = "event"
  BY <1>1, <1>2, <1>5, DataAssumption
<1>11. QED BY <1>1, <1>3, <1>5, <1>7, <1>8, <1>9, <1>10, PassOn

LEMMA EnqueueKeeps ==
  ASSUME NEW col, Inv(col), EnqueueWsOp
  PROVE  DataInv'
<1>1. /\ sent = None /\ sent' = copy.root /\ FreeHandle(job.h, Nothing) /\ job.op = "Send"
      /\ job' = NoJob /\ copy' = NoCopy /\ copy # NoCopy
      /\ UNCHANGED <<heap, iter, body, parsed>>
  BY DEF EnqueueWsOp, Copied, Copying
<1>2. /\ StateType
      /\ {body, sent, parsed, copy.root} \subseteq Node \cup {None}
      /\ \A m \in Node : /\ m = body => col[m] = "body"
                         /\ m = parsed => col[m] = "parsed"
                         /\ m = copy.root => col[m] = "copy"
                         /\ m = sent => col[m] = "event"
  BY RootFacts
<1> DEFINE b == Nothing
           c2 == Repaint(col, "copy", "event")
<1>3. b \in [Node -> Nat] /\ GameHolds(b)
  <2>1. job.h \in Handle
    BY <1>1 DEF Inv, JobInv
  <2>2. QED BY <1>1, <1>2, <2>1, FreeHandleHolds, OneNothing
<1>5. /\ c2 \in [Node -> Group]
      /\ \A n \in Node : c2[n] = IF col[n] = "copy" THEN "event" ELSE col[n]
      /\ \A m, n \in Node : col[m] = col[n] => c2[m] = c2[n]
  BY InvColour, GroupNames, RepaintType
<1>6. \A m \in Node : b[m] > 0 => FALSE
  BY OneType, OneNothing
<1>7. \A m \in Node : b[m] + One(body')[m] + One(sent')[m] + One(parsed')[m]
                      = One(body)[m] + One(sent)[m] + One(parsed)[m] + One(copy.root)[m]
  <2> TAKE m \in Node
  <2>1. /\ One(body)[m] \in Nat /\ One(sent)[m] \in Nat /\ One(parsed)[m] \in Nat
        /\ One(None)[m] = 0 /\ One(copy.root)[m] \in Nat /\ Nothing[m] = 0
    BY OneType, OneNothing
  <2>2. QED BY <2>1, <1>1
<1> HIDE DEF b, c2
<1>8. /\ UNCHANGED <<heap, iter>>
      /\ {body', sent', parsed'} \subseteq Node \cup {None}
  BY <1>1, <1>2
<1>9. /\ \A m \in Node : c2[m] # "copy"
      /\ \A m \in Node : col[m] \in {"plugin", "event"} => c2[m] = col[m]
      /\ \A m \in Node : b[m] > 0 => c2[m] = "plugin"
  BY <1>2, <1>5, <1>6
<1>10. \A m \in Node : /\ m = body' => c2[m] = "body"
                       /\ m = parsed' => c2[m] = "parsed"
                       /\ m = sent' => c2[m] = "event"
  BY <1>1, <1>2, <1>5, DataAssumption
<1>11. QED BY <1>1, <1>3, <1>5, <1>7, <1>8, <1>9, <1>10, PassOn

-----------------------------------------------------------------------------
(* The native that copies.                                                 *)

JobType ==
    [op : {"None", "Copy", "Body", "Send", "Merge", "Extend"},
     h : Handle \cup {None}, o : Handle \cup {None}, todo : SUBSET Slot, overwrite : BOOLEAN]

(* The roots after a step: a holder that is new, or has another node, has it in
   its own colour. *)
LEMMA RootsNext ==
  ASSUME NEW col, Inv(col), NEW c2,
         \A m \in Node : NonFree(heap, m) => c2[m] = col[m],
         \A m \in Node :
            /\ PluginHolds(m)' > 0 => PluginHolds(m) > 0 \/ c2[m] = "plugin"
            /\ m = body' => m = body
            /\ m = copy'.root => m = copy.root \/ c2[m] = "copy"
            /\ m = parsed' => m = parsed \/ c2[m] = "parsed"
            /\ EventHolds(m)' > 0 => EventHolds(m) > 0 \/ c2[m] = "event"
  PROVE  RootsOK(c2)'
<1>1. StateType /\ RootsOK(col) /\ Good(heap, HeldF, col)
  BY DEF Inv
<1> SUFFICES ASSUME NEW n \in Node
             PROVE  /\ PluginHolds(n)' > 0 => c2[n] = "plugin"
                    /\ n = body' => c2[n] = "body"
                    /\ n = copy'.root => c2[n] = "copy"
                    /\ n = parsed' => c2[n] = "parsed"
                    /\ EventHolds(n)' > 0 => c2[n] = "event"
  BY DEF RootsOK
<1>2. /\ PluginHolds(n) > 0 => col[n] = "plugin"
      /\ n = body => col[n] = "body"
      /\ n = copy.root => col[n] = "copy"
      /\ n = parsed => col[n] = "parsed"
      /\ EventHolds(n) > 0 => col[n] = "event"
  BY <1>1 DEF RootsOK
<1>3. /\ HeldF[n] = PluginHolds(n) + One(body)[n] + One(sent)[n] + One(parsed)[n]
                  + One(copy.root)[n] + drop["event"][n]
      /\ PluginHolds(n) \in Nat /\ drop["event"][n] \in Nat
      /\ EventHolds(n) = One(sent)[n] + drop["event"][n]
  BY <1>1, HeldParts
<1>4. /\ One(body)[n] = (IF n = body THEN 1 ELSE 0) /\ One(sent)[n] \in Nat
      /\ One(parsed)[n] = (IF n = parsed THEN 1 ELSE 0)
      /\ One(copy.root)[n] = (IF n = copy.root THEN 1 ELSE 0)
  BY OneType
<1>5. PluginHolds(n) > 0 \/ n = body \/ n = copy.root \/ n = parsed \/ EventHolds(n) > 0
      => HeldF[n] > 0
  BY <1>3, <1>4
<1>6. HeldF[n] > 0 => c2[n] = col[n]
  BY <1>1, HeldNonFree
<1>7. QED BY <1>2, <1>5, <1>6

LEMMA NoCopyNext ==
  ASSUME NEW c2, copy' = NoCopy, \A m \in Node : NonFree(heap', m) => c2[m] # "copy"
  PROVE  CopyInv(c2)'
<1>1. DOMAIN copy'.of = {}
  BY NoCopyFacts
<1>2. QED BY <1>1 DEF CopyInv

(* A step that copies and releases nothing leaves the job as it was. *)
LEMMA JobKept ==
  ASSUME JobInv, UNCHANGED <<json, iter, job>>,
         job.op \in {"Merge", "Extend"} =>
            /\ heap'.type[Target] = heap.type[Target]
            /\ heap'.type[Source] = heap.type[Source]
            /\ heap'.kids[Source] = heap.kids[Source],
         job = NoJob => copy' = NoCopy,
         copy' # NoCopy => drop'["game"] = Nothing,
         job.op = "Merge" /\ copy' # NoCopy =>
            \A k \in job.todo : (\A j \in job.todo : k <= j) => k \notin DOMAIN heap'.kids[Target]
  PROVE  JobInv'
<1>1. Target' = Target /\ Source' = Source
  BY DEF Target, Source
<1>2. job.op \in {"Merge", "Extend"} => LoopInv'
  BY <1>1 DEF JobInv, LoopInv
<1>3. QED BY <1>2 DEF JobInv

(* The loop goes on with the next key, or ends. *)
LEMMA KeyDoneKept ==
  ASSUME StateType, JobInv, NEW k \in job.todo, KeyDone(k), UNCHANGED <<json, iter>>,
         copy' = NoCopy,
         heap'.type[Target] = heap.type[Target],
         heap'.type[Source] = heap.type[Source],
         heap'.kids[Source] = heap.kids[Source]
  PROVE  JobInv' /\ job' \in JobType
<1>1. job.op \in {"Merge", "Extend"} /\ LoopInv /\ job \in JobType /\ job.h \in Handle
  BY DEF JobInv, StateType, JobType
<1>2. CASE job.todo = {k}
  <2>1. job' = NoJob
    BY <1>2 DEF KeyDone
  <2>2. NoJob \in JobType
    BY DEF NoJob, JobType
  <2>3. QED BY <2>1, <2>2, NoJobFacts DEF JobInv
<1>3. CASE job.todo # {k}
  <2>1. job' = [job EXCEPT !.todo = job.todo \ {k}]
    BY <1>3 DEF KeyDone
  <2>2. job' \in JobType /\ job'.todo = job.todo \ {k}
        /\ job'.op = job.op /\ job'.h = job.h /\ job'.o = job.o
    BY <1>1, <2>1 DEF JobType
  <2>3. Target' = Target /\ Source' = Source
    BY <2>2 DEF Target, Source
  <2>4. LoopInv'
    BY <1>1, <2>2, <2>3 DEF LoopInv
  <2>5. job' # NoJob
    BY <1>1, <2>2, NoJobFacts
  <2>6. JobInv'
    BY <1>1, <2>2, <2>4, <2>5 DEF JobInv
  <2>7. QED BY <2>2, <2>6
<1>4. QED BY <1>2, <1>3

(* Only the job changes. *)
LEMMA JobStep ==
  ASSUME NEW col, Inv(col), UNCHANGED <<heap, json, iter, body, sent, parsed, drop, copy>>,
         job' \in JobType, JobInv'
  PROVE  DataInv'
<1>1. Good(heap, HeldF, col) /\ StateType /\ RootsOK(col) /\ CopyInv(col) /\ IterOK
  BY DEF Inv
<1>2. HeldF' = HeldF
  BY DEF HeldF, Held
<1>3. StateType'
  BY <1>1 DEF StateType, JobType
<1>4. RootsOK(col)'
  BY <1>1 DEF RootsOK, PluginHolds, EventHolds
<1>5. CopyInv(col)'
  BY <1>1 DEF CopyInv, CopyNode
<1>6. IterOK'
  BY <1>1 DEF IterOK, IterFresh, Advances
<1>7. Good(heap', HeldF', col)
  BY <1>1, <1>2
<1>8. Inv(col)'
  BY <1>3, <1>4, <1>5, <1>6, <1>7 DEF Inv
<1>9. QED BY <1>8, InvColour, <1>1 DEF DataInv, Good

LEMMA BeginLoopKeeps ==
  ASSUME NEW col, Inv(col), NEW h \in Handle, NEW o \in Handle,
         NEW op, NEW overwrite \in BOOLEAN, BeginLoop(op, h, o, overwrite),
         copy = NoCopy,
         \/ op = "Merge" /\ heap.type[json[h]] \in Maps /\ json[h] # iter.node
         \/ op = "Extend" /\ heap.type[json[h]] = "Array",
         heap.type[json[o]] = heap.type[json[h]]
  PROVE  DataInv'
<1>1. /\ Valid(h) /\ Valid(o) /\ json[h] # json[o] /\ DOMAIN heap.kids[json[o]] # {}
      /\ job' = [op |-> op, h |-> h, o |-> o, todo |-> DOMAIN heap.kids[json[o]],
                 overwrite |-> overwrite]
      /\ UNCHANGED <<heap, json, iter, body, sent, parsed, drop, copy>>
  BY DEF BeginLoop
<1>2. json[h] \in Node /\ json[o] \in Node
  BY <1>1, HandleNode
<1>3. HeapType(heap)
  BY DEF Inv, Good
<1>4. DOMAIN heap.kids[json[o]] \subseteq Slot
  BY <1>2, <1>3, NodeMaps, KidMapsType
<1>5. job' \in JobType
  BY <1>1, <1>4 DEF JobType
<1>6. LoopInv'
  BY <1>1, <1>2 DEF LoopInv, Target, Source
<1>7. job' # NoJob
  BY <1>1, NoJobFacts
<1>8. JobInv'
  BY <1>1, <1>6, <1>7 DEF JobInv
<1>9. QED BY <1>1, <1>5, <1>8, JobStep

LEMMA LoopKeeps ==
  ASSUME NEW col, Inv(col), job = NoJob, NEW h \in Handle, NEW o \in Handle,
         \/ \E overwrite \in BOOLEAN :
               Native_JsonObjectMerge(h, o, overwrite) \/ Native_IntMapMerge(h, o, overwrite)
         \/ Native_JsonArrayExtend(h, o)
  PROVE  DataInv'
<1>1. copy = NoCopy
  BY IdleFacts
<1>2. ASSUME NEW t \in Maps, NEW overwrite \in BOOLEAN, MapMerge(h, o, t, overwrite)
      PROVE  DataInv'
  <2>1. /\ heap.type[json[h]] = t /\ heap.type[json[o]] = t /\ json[h] # iter.node
        /\ BeginLoop("Merge", h, o, overwrite)
    BY <1>2 DEF MapMerge, OfType
  <2>2. QED BY <1>1, <2>1, BeginLoopKeeps
<1>3. ASSUME Native_JsonArrayExtend(h, o)
      PROVE  DataInv'
  <2>1. /\ heap.type[json[h]] = "Array" /\ heap.type[json[o]] = "Array"
        /\ BeginLoop("Extend", h, o, FALSE)
    BY <1>3 DEF Native_JsonArrayExtend, OfType
  <2>2. QED BY <1>1, <2>1, BeginLoopKeeps
<1>4. QED BY <1>2, <1>3 DEF Native_JsonObjectMerge, Native_IntMapMerge, Maps

LEMMA MergeKeepKeeps ==
  ASSUME NEW col, Inv(col), NEW k \in Slot, MergeKeep(k)
  PROVE  DataInv'
<1>1. /\ k \in job.todo /\ KeyDone(k) /\ copy = NoCopy
      /\ UNCHANGED <<heap, json, iter, body, sent, parsed, drop, copy>>
  BY DEF MergeKeep, AtKey
<1>2. JobInv' /\ job' \in JobType
  BY <1>1, KeyDoneKept DEF Inv
<1>3. QED BY <1>1, <1>2, JobStep

-----------------------------------------------------------------------------
(* Iterators.                                                              *)

LEMMA NotMovedGood ==
  ASSUME NEW H, NEW x, NEW col, Good(H, x, col), NEW b \in BOOLEAN,
         NEW G, G = [H EXCEPT !.moved = b]
  PROVE  Good(G, x, col) /\ G.type = H.type
<1>1. /\ HeapType(H) /\ x \in [Node -> Nat] /\ col \in [Node -> Group]
      /\ Balanced(H, x) /\ NoCycle(H) /\ Coloured(H, col)
  BY DEF Good
<1>2. H = [type |-> H.type, ref |-> H.ref, kids |-> H.kids, moved |-> H.moved]
  BY <1>1, HeapTypes
<1>3. G = [type |-> H.type, ref |-> H.ref, kids |-> H.kids, moved |-> b]
  BY <1>2
<1>4. /\ G.type = H.type /\ G.ref = H.ref /\ G.kids = H.kids
  BY <1>3
<1>5. HeapType(G)
  <2>1. G \in [type : [Node -> Containers \cup {"Int", "Free"}], ref : [Node -> Nat],
               kids : [Node -> KidMaps], moved : BOOLEAN]
    <3>1. /\ H.type \in [Node -> Containers \cup {"Int", "Free"}]
          /\ H.ref \in [Node -> Nat] /\ H.kids \in [Node -> KidMaps]
      BY <1>1, HeapTypes
    <3>2. QED BY <1>3, <3>1
  <2>2. \A n \in Node : WellFormed(G.type[n], DOMAIN G.kids[n])
    BY <1>1, <1>4 DEF HeapType
  <2>3. QED BY <2>1, <2>2 DEF HeapType
<1>6. /\ \A m \in Node : Links(G, m) = Links(H, m)
      /\ NoCycle(G) /\ Coloured(G, col)
  BY <1>1, <1>4, SameKids
<1>7. Balanced(G, x)
  BY <1>1, <1>4, <1>6 DEF Balanced
<1>8. Good(G, x, col)
  BY <1>1, <1>5, <1>6, <1>7 DEF Good
<1>9. QED BY <1>4, <1>8

(* The iterator is made, moves on or is closed; b is what is released. *)
LEMMA IterStep ==
  ASSUME NEW col, Inv(col), job = NoJob, UNCHANGED <<body, sent, parsed, copy, job>>,
         iter' \in [slot : Handle \cup {None}, node : Node \cup {None}, todo : SUBSET Key,
                    keys : SUBSET Key, value : Node \cup {None}],
         NEW b \in [Node -> Nat], GameHolds(b),
         NEW x, Good(heap', x, col),
         \A m \in Node : x[m] + One(iter.node)[m] = HeldF[m] + b[m] + One(iter'.node)[m],
         \A m \in Node : NonFree(heap', m) => NonFree(heap, m),
         \A m \in Node : b[m] > 0 => col[m] = "plugin",
         \A m \in Node : m = iter'.node => col[m] = "plugin",
         IterOK'
  PROVE  DataInv'
<1>1. StateType /\ RootsOK(col) /\ x \in [Node -> Nat] /\ col \in [Node -> Group]
  BY DEF Inv, Good
<1>2. /\ copy = NoCopy /\ copy.root = None
      /\ \A n \in Node : NonFree(heap, n) => col[n] # "copy"
  BY IdleFacts
<1>3. StateType'
  BY <1>1 DEF StateType, GameHolds
<1>4. ASSUME NEW m \in Node
      PROVE  /\ HeldF'[m] = x[m]
             /\ PluginHolds(m)' > 0 => PluginHolds(m) > 0 \/ col[m] = "plugin"
             /\ EventHolds(m)' = EventHolds(m)
  <2>1. /\ HeldF'[m] + One(iter.node)[m] + One(body)[m] + One(sent)[m] + One(parsed)[m]
              + One(copy.root)[m]
            = HeldF[m] + b[m] + One(iter'.node)[m] + One(body')[m] + One(sent')[m]
              + One(parsed')[m] + One(copy'.root)[m]
        /\ HeldF'[m] \in Nat
        /\ PluginHolds(m)' + One(iter.node)[m] = PluginHolds(m) + b[m] + One(iter'.node)[m]
        /\ PluginHolds(m)' \in Nat
        /\ EventHolds(m)' + One(sent)[m] = EventHolds(m) + One(sent')[m]
        /\ EventHolds(m)' \in Nat
    BY <1>1, HeldNext
  <2>2. /\ One(body)[m] \in Nat /\ One(sent)[m] \in Nat /\ One(parsed)[m] \in Nat
        /\ One(copy.root)[m] \in Nat /\ One(iter.node)[m] \in Nat
        /\ One(iter'.node)[m] = IF m = iter'.node THEN 1 ELSE 0
    BY OneType
  <2>3. HeldF[m] \in Nat /\ PluginHolds(m) \in Nat /\ EventHolds(m) \in Nat /\ b[m] \in Nat
        /\ x[m] \in Nat
    BY <1>1, HeldParts
  <2>4. body' = body /\ sent' = sent /\ parsed' = parsed /\ copy' = copy
    OBVIOUS
  <2>5. HeldF'[m] + One(iter.node)[m] = HeldF[m] + b[m] + One(iter'.node)[m]
    BY <2>1, <2>2, <2>3, <2>4
  <2>6. x[m] + One(iter.node)[m] = HeldF[m] + b[m] + One(iter'.node)[m]
    OBVIOUS
  <2>7. HeldF'[m] = x[m]
    BY <2>1, <2>2, <2>3, <2>5, <2>6
  <2>8. PluginHolds(m)' > 0 => PluginHolds(m) > 0 \/ b[m] > 0 \/ m = iter'.node
    BY <2>1, <2>2, <2>3
  <2>9. EventHolds(m)' = EventHolds(m)
    BY <2>1, <2>2, <2>3, <2>4
  <2>10. QED BY <2>7, <2>8, <2>9
<1>5. Good(heap', HeldF', col)
  <2>1. HeldF' = x
    BY <1>1, <1>4, HeldFNext
  <2>2. QED BY <2>1
<1>6. RootsOK(col)'
  <2>1. \A m \in Node :
            /\ PluginHolds(m)' > 0 => PluginHolds(m) > 0 \/ col[m] = "plugin"
            /\ m = body' => m = body
            /\ m = copy'.root => m = copy.root \/ col[m] = "copy"
            /\ m = parsed' => m = parsed \/ col[m] = "parsed"
            /\ EventHolds(m)' > 0 => EventHolds(m) > 0 \/ col[m] = "event"
    BY <1>4
  <2>2. QED BY <2>1, RootsNext
<1>7. job' = NoJob /\ copy' = NoCopy /\ \A m \in Node : NonFree(heap', m) => col[m] # "copy"
  BY <1>2
<1>8. QED BY <1>1, <1>3, <1>5, <1>6, <1>7, IdleNext

LEMMA NoIterFacts == NoIter.node = None /\ NoIter.todo = {} /\ NoIter.keys = {}
BY DEF NoIter

LEMMA IterCreateKeeps ==
  ASSUME NEW col, Inv(col), job = NoJob, NEW h \in Handle, Native_IterCreate(h)
  PROVE  DataInv'
<1>1. /\ Valid(h) /\ heap.type[json[h]] \in Maps /\ iter = NoIter
      /\ heap' = Incref(heap, json[h])
      /\ UNCHANGED <<json, body, sent, parsed, copy, job>>
  BY DEF Native_IterCreate
<1>2. /\ json[h] \in Node /\ NonFree(heap, json[h]) /\ col[json[h]] = "plugin"
  BY <1>1, HandleNode
<1>3. StateType /\ HeapType(heap) /\ HeldF \in [Node -> Nat] /\ col \in [Node -> Group]
  BY HeldFType DEF Inv, Good
<1> DEFINE n == json[h]
           x == Plus(HeldF, One(n))
<1>4. /\ Prepared(heap', x, col, col, n)
      /\ heap'.type = heap.type
  BY <1>1, <1>2, PreparedIncref
<1>5. CASE FreeHandles = {}
  <2>1. Release("game", One(n)) /\ UNCHANGED iter
    BY <1>5 DEF Native_IterCreate
  <2>2. Others
    BY <1>1, <2>1 DEF Others, NotCopying
  <2>3. n \in Node
    BY <1>2
  <2> HIDE DEF n, x
  <2>4. GameHolds(One(n))
    BY <1>1, <1>3, <2>1, OneNothing, ReleaseHolds
  <2>5. QED BY <1>4, <2>2, <2>3, <2>4, HoldStep
<1>6. CASE FreeHandles # {}
  <2>0. PICK g \in FreeHandles :
           /\ iter' = [slot |-> g, node |-> n, todo |-> DOMAIN heap.kids[n],
                       keys |-> DOMAIN heap.kids[n], value |-> None]
           /\ UNCHANGED drop
    BY <1>6 DEF Native_IterCreate
  <2>1. n \in Node /\ n # None
    BY <1>2, DataAssumption
  <2>2. DOMAIN heap.kids[n] \subseteq Key
    BY <2>1, <1>1, <1>3, NodeMaps DEF WellFormed
  <2>3. g \in Handle
    BY <2>0 DEF FreeHandles
  <2> HIDE DEF n, x
  <2>4. /\ iter' \in [slot : Handle \cup {None}, node : Node \cup {None}, todo : SUBSET Key,
                      keys : SUBSET Key, value : Node \cup {None}]
        /\ iter'.node = n /\ iter'.value = None
        /\ iter'.todo = DOMAIN heap.kids[n] /\ iter'.keys = DOMAIN heap.kids[n]
    BY <2>0, <2>1, <2>2, <2>3
  <2> DEFINE b == Nothing
  <2>5. GameHolds(b) /\ b \in [Node -> Nat] /\ \A m \in Node : b[m] = 0
    BY <1>1, <1>3, <2>0, KeepHolds, OneNothing
  <2> HIDE DEF b
  <2>6. /\ Good(heap', x, col) /\ heap'.kids = heap.kids
        /\ \A m \in Node : x[m] = HeldF[m] + One(n)[m]
    BY <1>4 DEF Prepared
  <2>7. \A m \in Node : x[m] + One(iter.node)[m] = HeldF[m] + b[m] + One(iter'.node)[m]
    <3> TAKE m \in Node
    <3>1. One(iter.node)[m] = 0
      BY <1>1, NoIterFacts, OneNothing
    <3>2. HeldF[m] \in Nat /\ One(n)[m] \in Nat
      BY <1>3, OneType
    <3>3. QED BY <2>4, <2>5, <2>6, <3>1, <3>2
  <2>8. IterOK'
    <3>1. iter'.node \in Node => heap'.type[iter'.node] \in Maps
      BY <1>1, <1>4, <2>4 DEF n
    <3>2. DOMAIN heap'.kids[iter'.node] = iter'.keys
      BY <2>4, <2>6
    <3>3. QED BY <2>4, <3>1, <3>2 DEF IterOK, IterFresh
  <2>9. /\ \A m \in Node : NonFree(heap', m) => NonFree(heap, m)
        /\ \A m \in Node : b[m] > 0 => col[m] = "plugin"
        /\ \A m \in Node : m = iter'.node => col[m] = "plugin"
    BY <1>2, <1>4, <2>4, <2>5 DEF NonFree, n
  <2>10. QED BY <1>1, <2>4, <2>5, <2>6, <2>7, <2>8, <2>9, IterStep
<1>7. QED BY <1>5, <1>6

LEMMA IterNextKeeps ==
  ASSUME NEW col, Inv(col), job = NoJob, NEW k \in Key, Native_IterNext(k)
  PROVE  DataInv'
<1>1. /\ Advances /\ k \in iter.todo
      /\ iter' = [iter EXCEPT !.todo = iter.todo \ {k}, !.value = heap.kids[iter.node][k]]
      /\ UNCHANGED <<heap, json, body, sent, parsed, drop, copy, job>>
  BY DEF Native_IterNext
<1>2. /\ StateType /\ HeapType(heap) /\ HeldF \in [Node -> Nat] /\ IterOK
      /\ Good(heap, HeldF, col)
  BY HeldFType DEF Inv, Good
<1>3. iter.node \in Node
  BY <1>1, <1>2 DEF StateType, Advances
<1>4. k \in DOMAIN heap.kids[iter.node] /\ DOMAIN heap.kids[iter.node] = iter.keys
  BY <1>1, <1>2 DEF IterOK, IterFresh
<1>5. heap.kids[iter.node][k] \in Node /\ heap.kids[iter.node][k] \in Kids(heap, iter.node)
  <2>1. heap.kids[iter.node] \in KidMaps
    BY <1>2, <1>3, NodeMaps
  <2>2. heap.kids[iter.node][k] \in Node
    BY <1>4, <2>1, KidMapsType
  <2>3. QED BY <1>4, <2>2 DEF Kids
<1>6. /\ iter' \in [slot : Handle \cup {None}, node : Node \cup {None}, todo : SUBSET Key,
                    keys : SUBSET Key, value : Node \cup {None}]
      /\ iter'.node = iter.node /\ iter'.value = heap.kids[iter.node][k]
      /\ iter'.todo = iter.todo \ {k} /\ iter'.keys = iter.keys
  <2>1. iter \in [slot : Handle \cup {None}, node : Node \cup {None}, todo : SUBSET Key,
                    keys : SUBSET Key, value : Node \cup {None}]
    BY <1>2 DEF StateType
  <2>2. QED BY <1>1, <1>5, <2>1
<1> DEFINE b == Nothing
           x == HeldF
<1>7. GameHolds(b) /\ b \in [Node -> Nat] /\ \A m \in Node : b[m] = 0
  BY <1>1, <1>2, KeepHolds, OneNothing
<1>8. \A m \in Node : x[m] + One(iter.node)[m] = HeldF[m] + b[m] + One(iter'.node)[m]
  <2> TAKE m \in Node
  <2>1. HeldF[m] \in Nat /\ One(iter.node)[m] \in Nat
    BY <1>2, OneType
  <2>2. QED BY <1>6, <1>7, <2>1
<1>9. IterOK'
  <2>1. iter'.node \in Node => heap'.type[iter'.node] \in Maps
    BY <1>1, <1>2, <1>6 DEF IterOK
  <2>2. /\ DOMAIN heap'.kids[iter'.node] = iter'.keys
        /\ iter'.value \in Kids(heap', iter'.node)
    BY <1>1, <1>4, <1>5, <1>6
  <2>3. iter'.todo \subseteq iter'.keys
    BY <1>2, <1>6 DEF IterOK
  <2>4. QED BY <2>1, <2>2, <2>3 DEF IterOK, IterFresh
<1>10. Good(heap', x, col)
  BY <1>1, <1>2
<1> HIDE DEF b, x
<1>11. /\ \A m \in Node : NonFree(heap', m) => NonFree(heap, m)
       /\ \A m \in Node : b[m] > 0 => col[m] = "plugin"
       /\ \A m \in Node : m = iter'.node => col[m] = "plugin"
  BY <1>1, <1>6, <1>7, IterNode
<1>12. QED BY <1>1, <1>6, <1>7, <1>8, <1>9, <1>10, <1>11, IterStep

LEMMA IterCloseKeeps ==
  ASSUME NEW col, Inv(col), job = NoJob, Native_IterClose
  PROVE  DataInv'
<1>1. /\ heap' = [heap EXCEPT !.moved = FALSE] /\ iter' = NoIter
      /\ Release("game", One(iter.node))
      /\ UNCHANGED <<json, body, sent, parsed, copy, job>>
  BY DEF Native_IterClose
<1>2. StateType /\ Good(heap, HeldF, col) /\ HeldF \in [Node -> Nat]
  BY HeldFType DEF Inv
<1>3. Good(heap', HeldF, col) /\ heap'.type = heap.type
  <2> DEFINE f == FALSE
  <2>1. heap' = [heap EXCEPT !.moved = f] /\ f \in BOOLEAN
    BY <1>1
  <2> HIDE DEF f
  <2>2. QED BY <1>2, <2>1, NotMovedGood
<1> DEFINE b == One(iter.node)
           x == HeldF
<1>4. GameHolds(b) /\ b \in [Node -> Nat]
  BY <1>1, <1>2, ReleaseHolds, OneNothing
<1>5. \A m \in Node : b[m] > 0 => m = iter.node
  BY OneType
<1>6. \A m \in Node : x[m] + One(iter.node)[m] = HeldF[m] + b[m] + One(iter'.node)[m]
  <2> TAKE m \in Node
  <2>1. HeldF[m] \in Nat /\ One(iter.node)[m] \in Nat
    BY <1>2, OneType
  <2>2. One(iter'.node)[m] = 0
    BY <1>1, NoIterFacts, OneNothing
  <2>3. QED BY <2>1, <2>2
<1> HIDE DEF b, x
<1>7. /\ iter' \in [slot : Handle \cup {None}, node : Node \cup {None}, todo : SUBSET Key,
                    keys : SUBSET Key, value : Node \cup {None}]
  BY <1>1 DEF NoIter
<1>8. IterOK'
  <2>1. iter'.node = None /\ iter'.todo = {} /\ iter'.keys = {} /\ None \notin Node
    BY <1>1, NoIterFacts, DataAssumption
  <2>2. QED BY <2>1 DEF IterOK, IterFresh, Advances
<1>9. /\ \A m \in Node : NonFree(heap', m) => NonFree(heap, m)
      /\ \A m \in Node : b[m] > 0 => col[m] = "plugin"
      /\ \A m \in Node : m = iter'.node => col[m] = "plugin"
  <2>1. iter'.node \notin Node
    BY <1>1, NoIterFacts, DataAssumption
  <2>2. \A m \in Node : b[m] > 0 => col[m] = "plugin"
    BY <1>5, IterNode
  <2>3. QED BY <1>3, <2>1, <2>2 DEF NonFree
<1>10. Good(heap', x, col) /\ UNCHANGED <<body, sent, parsed, copy, job>>
  BY <1>1, <1>3 DEF x
<1>11. QED BY <1>4, <1>6, <1>7, <1>8, <1>9, <1>10, IterStep

-----------------------------------------------------------------------------
(* A copy begins.                                                          *)

LEMMA NoCopyColour ==
  ASSUME NEW col, Inv(col), copy = NoCopy
  PROVE  copy.root = None /\ \A n \in Node : NonFree(heap, n) => col[n] # "copy"
<1>1. DOMAIN copy.of = {} /\ copy.root = None
  BY NoCopyFacts
<1>2. QED BY <1>1 DEF Inv, CopyInv

LEMMA StartCopyStep ==
  ASSUME NEW col, Inv(col), copy = NoCopy,
         NEW n \in Node, NonFree(heap, n), col[n] = "plugin", StartCopy(n),
         UNCHANGED <<json, iter, body, sent, parsed, drop>>,
         job' \in JobType,
         (\A m \in Node : NonFree(heap, m) => heap'.type[m] = heap.type[m])
            /\ heap'.kids = heap.kids /\ copy' # NoCopy => JobInv'
  PROVE  DataInv'
<1>1. PICK m \in FreeNodes(heap) :
        heap' = Make(heap, m, heap.type[n]) /\ copy' = [root |-> m, of |-> [d \in {m} |-> n]]
  BY DEF StartCopy
<1>2. /\ Good(heap, HeldF, col) /\ StateType /\ HeldF \in [Node -> Nat] /\ HeapType(heap)
      /\ One(m) \in [Node -> Nat] /\ col \in [Node -> Group] /\ RootsOK(col) /\ IterOK
  BY HeldFType, OneNothing DEF Inv, Good
<1> DEFINE t == heap.type[n]
           x == Plus(HeldF, One(m))
           c2 == Paint(col, {m}, "copy")
<1>3. t \in Containers \cup {"Int"}
  BY <1>2, HeapTypes DEF NonFree
<1>4. x \in [Node -> Nat] /\ \A i \in Node : x[i] = HeldF[i] + One(m)[i]
  BY <1>2, PlusType
<1>5. /\ c2 \in [Node -> Group]
      /\ \A i \in Node : c2[i] = IF i \in {m} THEN "copy" ELSE col[i]
  BY <1>2, PaintType, GroupNames
<1>6. m \in Node /\ {m} \in SUBSET FreeNodes(heap) /\ heap.kids[m] = NoKids
  BY <1>2, FreeAlone
<1>7. copy'.root = m /\ DOMAIN copy'.of = {m} /\ copy'.of[m] = n /\ copy'.of \in [{m} -> Node]
      /\ copy' = [root |-> m, of |-> copy'.of]
  BY <1>1
<1>8. heap' = Make(heap, m, t)
  BY <1>1
<1> HIDE DEF t, x, c2
<1>9. Good(heap, HeldF, c2)
  BY <1>2, <1>5, <1>6, Recolour
<1>10. Good(heap', x, c2) /\ MadeFrom(heap', heap, m, t)
  BY <1>3, <1>4, <1>8, <1>9, MakeGood
<1>11. /\ heap'.kids = heap.kids /\ heap'.moved = heap.moved
       /\ heap'.type[m] = t /\ heap'.ref[m] = 1
       /\ \A i \in Node \ {m} : heap'.type[i] = heap.type[i]
  BY <1>10 DEF MadeFrom
<1>12. \A i \in Node : NonFree(heap, i) => i # m
  BY DEF NonFree, FreeNodes
<1>13. copy.root = None /\ \A i \in Node : NonFree(heap, i) => col[i] # "copy"
  BY NoCopyColour
<1>14. StateType'
  <2>1. copy' \in [root : Node \cup {None}, of : UNION {[S -> Node] : S \in SUBSET Node}]
    <3>1. copy'.of \in UNION {[S -> Node] : S \in SUBSET Node}
      BY <1>6, <1>7
    <3>2. QED BY <1>6, <1>7, <3>1
  <2>2. QED BY <1>2, <2>1 DEF StateType, JobType
<1>15. ASSUME NEW i \in Node
       PROVE  /\ HeldF'[i] = x[i]
              /\ PluginHolds(i)' = PluginHolds(i)
              /\ EventHolds(i)' = EventHolds(i)
  <2>0. GameHolds(Nothing) /\ Nothing \in [Node -> Nat] /\ Nothing[i] = 0
    BY <1>2, KeepHolds, OneNothing
  <2> DEFINE b == Nothing
  <2>1. GameHolds(b) /\ b \in [Node -> Nat] /\ b[i] = 0
    BY <2>0
  <2> HIDE DEF b
  <2>2. /\ PluginHolds(i)' = PluginHolds(i) + b[i]
        /\ EventHolds(i)' + One(sent)[i] = EventHolds(i) + One(sent')[i]
        /\ HeldF'[i] + One(body)[i] + One(sent)[i] + One(parsed)[i] + One(copy.root)[i]
           = HeldF[i] + b[i] + One(body')[i] + One(sent')[i] + One(parsed')[i] + One(copy'.root)[i]
        /\ HeldF'[i] \in Nat /\ HeldF[i] \in Nat
        /\ PluginHolds(i) \in Nat /\ EventHolds(i) \in Nat /\ EventHolds(i)' \in Nat
        /\ b[i] \in Nat
    BY <1>2, <2>1, HeldHands
  <2>3. /\ One(body)[i] \in Nat /\ One(sent)[i] \in Nat /\ One(parsed)[i] \in Nat
        /\ One(copy.root)[i] = 0 /\ One(m)[i] \in Nat
    BY <1>13, OneType, OneNothing
  <2>4. body' = body /\ sent' = sent /\ parsed' = parsed
    OBVIOUS
  <2>5. HeldF'[i] = HeldF[i] + One(m)[i]
    BY <1>7, <2>1, <2>2, <2>3, <2>4
  <2>6. QED BY <1>4, <2>1, <2>2, <2>3, <2>4, <2>5
<1>16. Good(heap', HeldF', c2)
  <2>1. HeldF' = x
    BY <1>4, <1>15, HeldFNext
  <2>2. QED BY <1>10, <2>1
<1>17. RootsOK(c2)'
  <2>1. \A i \in Node : NonFree(heap, i) => c2[i] = col[i]
    BY <1>5, <1>12
  <2>2. \A i \in Node :
            /\ PluginHolds(i)' > 0 => PluginHolds(i) > 0 \/ c2[i] = "plugin"
            /\ i = body' => i = body
            /\ i = copy'.root => i = copy.root \/ c2[i] = "copy"
            /\ i = parsed' => i = parsed \/ c2[i] = "parsed"
            /\ EventHolds(i)' > 0 => EventHolds(i) > 0 \/ c2[i] = "event"
    BY <1>5, <1>7, <1>15
  <2>3. QED BY <2>1, <2>2, RootsNext
<1>18. CopyInv(c2)'
  <2>1. ASSUME NEW i \in Node, NonFree(heap', i)
        PROVE  c2[i] = "copy" <=> i \in DOMAIN copy'.of
    BY <1>5, <1>7, <1>11, <1>13, <2>1 DEF NonFree
  <2>2. CopyNode(c2, m)'
    <3>1. n # m /\ c2[n] = "plugin" /\ heap'.type[n] = t /\ heap'.type[m] = t /\ t # "Free"
      BY <1>5, <1>11, <1>12 DEF t, NonFree
    <3>2. m \in Below(heap', {m}) /\ n \in Below(heap', {n})
      BY <1>6, BelowSelf
    <3>3. DOMAIN heap'.kids[m] = {}
      BY <1>6, <1>11, NoKidsType
    <3>4. QED BY <1>7, <1>11, <3>1, <3>2, <3>3 DEF CopyNode, NonFree
  <2>3. QED BY <1>7, <2>1, <2>2 DEF CopyInv
<1>19. IterOK'
  <2>1. IterKeeps(heap, heap')
    BY <1>11, <1>12, IterNode DEF IterKeeps
  <2>2. QED BY <1>2, <2>1, IterKept
<1>20. JobInv'
  <2>1. copy' # NoCopy
    BY <1>6, <1>7, NoCopyFacts, DataAssumption
  <2>2. \A i \in Node : NonFree(heap, i) => heap'.type[i] = heap.type[i]
    BY <1>11, <1>12
  <2>3. QED BY <1>11, <2>1, <2>2
<1>21. Inv(c2)'
  BY <1>14, <1>16, <1>17, <1>18, <1>19, <1>20 DEF Inv
<1>22. QED BY <1>5, <1>21 DEF DataInv

LEMMA BeginCopyKeeps ==
  ASSUME NEW col, Inv(col), job = NoJob, drop["game"] = Nothing, NEW h \in Handle,
         Native_JsonCopy(h) \/ Native_SetBodyJSON(h) \/ WsSendNode(h)
  PROVE  DataInv'
<1>1. PICK op \in {"Copy", "Body", "Send"} :
        /\ Valid(h) /\ StartCopy(json[h]) /\ job' = [NoJob EXCEPT !.op = op, !.h = h]
        /\ UNCHANGED <<json, iter, body, sent, parsed, drop>>
  BY DEF Native_JsonCopy, Native_SetBodyJSON, WsSendNode, SendNode, CopyNodeForSend, Begin
<1>2. json[h] \in Node /\ NonFree(heap, json[h]) /\ col[json[h]] = "plugin"
  BY <1>1, HandleNode
<1>3. copy = NoCopy
  BY IdleFacts
<1>4. job' = [op |-> op, h |-> h, o |-> None, todo |-> {}, overwrite |-> FALSE]
  BY <1>1 DEF NoJob
<1>5. job' \in JobType
  BY <1>4 DEF JobType
<1>6. job' # NoJob /\ job'.op = op /\ job'.h = h /\ job'.todo = {}
  BY <1>4, NoJobFacts
<1>7. JobInv'
  BY <1>1, <1>6 DEF JobInv
<1>8. QED BY <1>1, <1>2, <1>3, <1>5, <1>7, StartCopyStep

(* The containers of a loop are in use. *)
LEMMA LoopNodes ==
  ASSUME NEW col, Inv(col), job.op \in {"Merge", "Extend"}
  PROVE  /\ Target \in Node /\ NonFree(heap, Target) /\ col[Target] = "plugin"
         /\ Source \in Node /\ NonFree(heap, Source) /\ col[Source] = "plugin"
         /\ PluginHolds(Target) > 0 /\ PluginHolds(Source) > 0
         /\ Refs(json)[Target] > 0 /\ Refs(json)[Source] > 0
<1>1. LoopInv /\ job.h \in Handle /\ job.o \in Handle /\ Target \in Node /\ Source \in Node
  BY DEF Inv, JobInv, LoopInv
<1>2. Valid(job.h) /\ Valid(job.o)
  BY <1>1, DataAssumption DEF Valid, Target, Source
<1>3. json \in [Handle -> Node \cup {None}]
  BY DEF Inv, StateType
<1>4. Refs(json)[Target] > 0 /\ Refs(json)[Source] > 0
  BY <1>1, <1>3, JsonRefs DEF Target, Source
<1>5. QED BY <1>1, <1>2, <1>4, HandleNode DEF Target, Source

LEMMA CopyNextKeeps ==
  ASSUME NEW col, Inv(col), NEW k \in Slot, CopyNext(k)
  PROVE  DataInv'
<1>1. /\ AtKey(k) /\ copy = NoCopy /\ drop["game"] = Nothing /\ k \in job.todo
      /\ \A j \in job.todo : k <= j
      /\ job.op = "Merge" => k \notin DOMAIN heap.kids[Target]
      /\ StartCopy(heap.kids[Source][k])
      /\ UNCHANGED <<json, iter, body, sent, parsed, drop, job>>
  BY DEF CopyNext, AtKey
<1>2. /\ JobInv /\ job.op \in {"Merge", "Extend"} /\ LoopInv /\ HeapType(heap) /\ StateType
      /\ Good(heap, HeldF, col)
  BY <1>1 DEF Inv, JobInv, Good
<1>3. /\ Target \in Node /\ NonFree(heap, Target)
      /\ Source \in Node /\ NonFree(heap, Source) /\ col[Source] = "plugin"
  BY <1>2, LoopNodes
<1> DEFINE n == heap.kids[Source][k]
<1>4. n \in Kids(heap, Source)
  BY <1>1, <1>2 DEF LoopInv, Kids
<1>5. n \in Node /\ NonFree(heap, n)
  BY <1>2, <1>3, <1>4, KidNonFree
<1>6. col[n] = "plugin"
  BY <1>2, <1>3, <1>4 DEF Good, Coloured
<1>7. job' \in JobType
  BY <1>1, <1>2 DEF StateType, JobType
<1>8. StartCopy(n)
  BY <1>1
<1> HIDE DEF n
<1>9. ASSUME \A m \in Node : NonFree(heap, m) => heap'.type[m] = heap.type[m],
             heap'.kids = heap.kids, copy' # NoCopy
      PROVE  JobInv'
  <2>1. job # NoJob
    BY <1>2, NoJobFacts
  <2>2. \A i \in job.todo : (\A j \in job.todo : i <= j) => i = k
    <3>1. job.todo \subseteq Nat
      BY <1>2, SlotFinite DEF StateType
    <3>2. QED BY <1>1, <3>1
  <2>3. job.op = "Merge" /\ copy' # NoCopy =>
            \A i \in job.todo : (\A j \in job.todo : i <= j) => i \notin DOMAIN heap'.kids[Target]
    BY <1>1, <2>2, <1>9
  <2>4. /\ heap'.type[Target] = heap.type[Target]
        /\ heap'.type[Source] = heap.type[Source]
        /\ heap'.kids[Source] = heap.kids[Source]
    BY <1>3, <1>9
  <2>5. drop'["game"] = Nothing /\ UNCHANGED <<json, iter, job>>
    BY <1>1
  <2>6. QED BY <1>2, <2>1, <2>3, <2>4, <2>5, JobKept
<1>10. QED BY <1>1, <1>5, <1>6, <1>7, <1>8, <1>9, StartCopyStep

-----------------------------------------------------------------------------
(* A copy grows.                                                           *)

(* Any step that leaves the iterator and the body alone. *)
LEMMA AnyStep ==
  ASSUME NEW col, Inv(col), StateType', iter' = iter, body' = body,
         NEW c2 \in [Node -> Group], NEW y, Good(heap', y, c2), \A m \in Node : HeldF'[m] = y[m],
         \A m \in Node : NonFree(heap, m) /\ col[m] # "copy" => c2[m] = col[m],
         \A m \in Node :
            /\ PluginHolds(m)' > 0 => PluginHolds(m) > 0 \/ c2[m] = "plugin"
            /\ m = copy'.root => c2[m] = "copy"
            /\ m = parsed' => m = parsed \/ c2[m] = "parsed"
            /\ EventHolds(m)' > 0 => EventHolds(m) > 0 \/ c2[m] = "event",
         CopyInv(c2)', JobInv', IterKeeps(heap, heap')
  PROVE  DataInv'
<1>1. StateType /\ RootsOK(col) /\ Good(heap, HeldF, col) /\ IterOK /\ y \in [Node -> Nat]
  BY DEF Inv, Good
<1>2. RootsOK(c2)'
  <2> SUFFICES ASSUME NEW n \in Node
               PROVE  /\ PluginHolds(n) > 0 => c2[n] = "plugin"
                      /\ n = body => c2[n] = "body"
                      /\ n = parsed => c2[n] = "parsed"
                      /\ EventHolds(n) > 0 => c2[n] = "event"
    BY DEF RootsOK
  <2>2. /\ PluginHolds(n) > 0 => col[n] = "plugin"
        /\ n = body => col[n] = "body"
        /\ n = parsed => col[n] = "parsed"
        /\ EventHolds(n) > 0 => col[n] = "event"
    BY <1>1 DEF RootsOK
  <2>3. /\ HeldF[n] = PluginHolds(n) + One(body)[n] + One(sent)[n] + One(parsed)[n]
                    + One(copy.root)[n] + drop["event"][n]
        /\ PluginHolds(n) \in Nat /\ drop["event"][n] \in Nat
        /\ EventHolds(n) = One(sent)[n] + drop["event"][n]
    BY <1>1, HeldParts
  <2>4. /\ One(body)[n] = (IF n = body THEN 1 ELSE 0) /\ One(sent)[n] \in Nat
        /\ One(parsed)[n] = (IF n = parsed THEN 1 ELSE 0)
        /\ One(copy.root)[n] \in Nat
    BY OneType
  <2>5. PluginHolds(n) > 0 \/ n = body \/ n = parsed \/ EventHolds(n) > 0 => HeldF[n] > 0
    BY <2>3, <2>4
  <2>6. HeldF[n] > 0 /\ col[n] # "copy" => c2[n] = col[n]
    BY <1>1, HeldNonFree
  <2>7. QED BY <2>2, <2>5, <2>6
<1>3. Good(heap', HeldF', c2)
  <2>1. HeldF' = y
    BY <1>1, HeldFNext
  <2>2. QED BY <2>1
<1>4. IterOK'
  BY <1>1, IterKept
<1>5. Inv(c2)'
  BY <1>2, <1>3, <1>4 DEF Inv
<1>6. QED BY <1>5 DEF DataInv

LEMMA CopyNodeFacts ==
  ASSUME NEW col, Inv(col), NEW e \in DOMAIN copy.of
  PROVE  /\ CopyNode(col, e)
         /\ e \in Node /\ NonFree(heap, e) /\ col[e] = "copy"
         /\ copy.of[e] \in Node /\ NonFree(heap, copy.of[e]) /\ col[copy.of[e]] = "plugin"
         /\ copy.root \in DOMAIN copy.of /\ copy # NoCopy
         /\ heap.type[e] = heap.type[copy.of[e]]
         /\ DOMAIN heap.kids[e] \subseteq DOMAIN heap.kids[copy.of[e]]
<1>1. CopyInv(col) /\ StateType
  BY DEF Inv
<1>2. CopyNode(col, e)
  BY <1>1 DEF CopyInv
<1>3. e \in Node /\ copy.of[e] \in Node
  BY <1>1, CopyType
<1>4. NonFree(heap, e) /\ NonFree(heap, copy.of[e]) /\ col[copy.of[e]] = "plugin"
      /\ heap.type[e] = heap.type[copy.of[e]]
      /\ DOMAIN heap.kids[e] \subseteq DOMAIN heap.kids[copy.of[e]]
  BY <1>2 DEF CopyNode
<1>5. col[e] = "copy"
  BY <1>1, <1>3, <1>4 DEF CopyInv
<1>6. copy # NoCopy
  BY NoCopyFacts
<1>7. copy.root \in DOMAIN copy.of
  BY <1>1, <1>6 DEF CopyInv
<1>8. QED BY <1>2, <1>3, <1>4, <1>5, <1>6, <1>7

LEMMA BumpForm ==
  ASSUME NEW t, NEW r, NEW f, NEW v, NEW n,
         NEW G, G = [type |-> t, ref |-> r, kids |-> f, moved |-> v]
  PROVE  Bump(G, n) = [type |-> t, ref |-> r, kids |-> f, moved |-> v \/ n = iter.node]
BY DEF Bump

(* The first key that an array lacks is its length plus one. *)
LEMMA NextKey ==
  ASSUME NEW t, NEW S, NEW T, WellFormed(t, S), WellFormed(t, T), S \subseteq T,
         t \in Containers \cup {"Int"},
         NEW k \in T \ S, \A j \in T \ S : k <= j
  PROVE  WellFormed(t, S \cup {k})
<1>1. CASE t \in Maps
  BY <1>1 DEF WellFormed, Maps
<1>2. CASE t = "Array"
  <2>1. PICK l \in 0..MaxLength : S = 1..l
    BY <1>2 DEF WellFormed
  <2>2. PICK p \in 0..MaxLength : T = 1..p
    BY <1>2 DEF WellFormed
  <2>3. MaxLength \in Nat /\ l \in Nat /\ p \in Nat
    BY <2>1, <2>2, DataAssumption
  <2>4. k \in 1..p /\ k \notin 1..l
    BY <2>1, <2>2
  <2>5. l + 1 <= k
    BY <2>3, <2>4
  <2>6. l + 1 \in T \ S
    BY <2>1, <2>2, <2>3, <2>4, <2>5
  <2>7. k = l + 1
    BY <2>3, <2>4, <2>5, <2>6
  <2>8. S \cup {k} = 1..(l + 1) /\ l + 1 \in 0..MaxLength
    BY <2>1, <2>2, <2>3, <2>4, <2>7
  <2>9. QED BY <1>2, <2>8 DEF WellFormed, Maps
<1>3. CASE t = "Int"
  BY <1>3 DEF WellFormed
<1>4. QED BY <1>1, <1>2, <1>3 DEF Containers

(* The heap after m was made, as a copy of c, and put into d at k. *)
Grown(d, k, m, c) ==
    /\ heap'.type[m] = heap.type[c] /\ heap'.ref[m] = 1
    /\ \A i \in Node \ {m} : heap'.type[i] = heap.type[i] /\ heap'.ref[i] = heap.ref[i]
    /\ \A i \in Node \ {d} : heap'.kids[i] = heap.kids[i]
    /\ heap'.kids[d] = Set(heap.kids[d], k, m)
    /\ ~heap'.moved => ~heap.moved

(* What DeepCopy does to the heap. *)
GrowsBy(d, k, m, c, P) ==
    /\ k \in Missing(d) /\ \A j \in Missing(d) : k <= j
    /\ c = heap.kids[copy.of[d]][k]
    /\ P = Put(Make(heap, m, heap.type[c]), d, k, m)
    /\ heap' = IF heap.type[d] \in Maps THEN Bump(P, d) ELSE P

LEMMA GrownGood ==
  ASSUME NEW col, Inv(col), NEW d \in DOMAIN copy.of, NEW k \in Slot,
         NEW m \in FreeNodes(heap), NEW c, NEW P, GrowsBy(d, k, m, c, P),
         NEW c2, c2 = Paint(col, {m}, "copy")
  PROVE  /\ Good(heap', HeldF, c2)
         /\ Grown(d, k, m, c)
         /\ c2 \in [Node -> Group]
         /\ \A i \in Node : c2[i] = IF i = m THEN "copy" ELSE col[i]
         /\ c \in Node /\ NonFree(heap, c) /\ col[c] = "plugin" /\ c \in Kids(heap, copy.of[d])
         /\ m \in Node /\ heap.kids[m] = NoKids /\ \A i \in Node : NonFree(heap, i) => i # m
<1>0. /\ k \in Missing(d) /\ \A j \in Missing(d) : k <= j
      /\ c = heap.kids[copy.of[d]][k]
      /\ P = Put(Make(heap, m, heap.type[c]), d, k, m)
      /\ heap' = IF heap.type[d] \in Maps THEN Bump(P, d) ELSE P
  BY DEF GrowsBy
<1>1. /\ Good(heap, HeldF, col) /\ StateType /\ HeldF \in [Node -> Nat] /\ HeapType(heap)
      /\ One(m) \in [Node -> Nat] /\ col \in [Node -> Group]
  BY HeldFType, OneNothing DEF Inv, Good
<1>2. /\ d \in Node /\ NonFree(heap, d) /\ col[d] = "copy"
      /\ copy.of[d] \in Node /\ NonFree(heap, copy.of[d]) /\ col[copy.of[d]] = "plugin"
      /\ heap.type[d] = heap.type[copy.of[d]]
      /\ DOMAIN heap.kids[d] \subseteq DOMAIN heap.kids[copy.of[d]]
  BY CopyNodeFacts
<1>3. k \in DOMAIN heap.kids[copy.of[d]] \ DOMAIN heap.kids[d]
  BY <1>0 DEF Missing
<1>4. c \in Kids(heap, copy.of[d])
  BY <1>0, <1>3 DEF Kids
<1>5. c \in Node /\ NonFree(heap, c)
  BY <1>1, <1>2, <1>4, KidNonFree
<1>6. col[c] = "plugin"
  BY <1>1, <1>2, <1>4 DEF Good, Coloured
<1>7. m \in Node /\ {m} \in SUBSET FreeNodes(heap) /\ heap.kids[m] = NoKids /\ Kids(heap, m) = {}
  BY <1>1, FreeAlone
<1>8. \A i \in Node : NonFree(heap, i) => i # m
  BY DEF NonFree, FreeNodes
<1>9. /\ c2 \in [Node -> Group]
      /\ \A i \in Node : c2[i] = IF i \in {m} THEN "copy" ELSE col[i]
  BY <1>1, PaintType, GroupNames
<1> DEFINE t == heap.type[c]
           x == Plus(HeldF, One(m))
           H == Make(heap, m, t)
<1>10. t \in Containers \cup {"Int"}
  BY <1>1, <1>5, HeapTypes DEF NonFree
<1>11. x \in [Node -> Nat] /\ \A i \in Node : x[i] = HeldF[i] + One(m)[i]
  BY <1>1, PlusType
<1>12. Good(heap, HeldF, c2)
  BY <1>1, <1>7, <1>9, Recolour
<1>13. P = Put(H, d, k, m)
  BY <1>0
<1> HIDE DEF t, x
<1>14. Good(H, x, c2) /\ MadeFrom(H, heap, m, t)
  BY <1>10, <1>11, <1>12, MakeGood
<1> HIDE DEF H
<1>15. /\ H.kids = heap.kids /\ H.moved = heap.moved
       /\ H.type[m] = t /\ H.ref[m] = 1
       /\ \A i \in Node \ {m} : H.type[i] = heap.type[i] /\ H.ref[i] = heap.ref[i]
       /\ HeapType(H)
  BY <1>14 DEF MadeFrom, Good
<1>16. d # m
  BY <1>2, <1>8
<1>17. d \notin Below(H, {m})
  <2>1. Kids(H, m) = {}
    BY <1>7, <1>15 DEF Kids
  <2>2. ClosedUnder(H, {m})
    BY <2>1 DEF ClosedUnder
  <2>3. Below(H, {m}) \subseteq {m}
    BY <1>7, <2>2, BelowLeast
  <2>4. QED BY <1>16, <2>3
<1>18. H.moved \in BOOLEAN
  BY <1>15, HeapTypes
<1>19. PICK b \in BOOLEAN :
         /\ heap' = [type |-> H.type, ref |-> H.ref,
                     kids |-> [H.kids EXCEPT ![d] = Set(H.kids[d], k, m)], moved |-> b]
         /\ H.moved => b
         /\ d = iter.node /\ H.type[d] \in Maps => b
  <2> DEFINE f == Set(H.kids[d], k, m)
             g == [H.kids EXCEPT ![d] = f]
  <2>1. P = [type |-> H.type, ref |-> H.ref, kids |-> g, moved |-> H.moved]
    <3>1. P = SetKids(H, d, f)
      BY <1>13 DEF Put
    <3> HIDE DEF f
    <3>2. QED BY <1>2, <1>15, <3>1, SetKidsForm
  <2>2. H.type[d] = heap.type[d]
    BY <1>2, <1>15, <1>16
  <2>3. CASE heap.type[d] \in Maps
    <3>1. heap' = Bump(P, d)
      BY <1>0, <2>3
    <3> HIDE DEF g
    <3>2. heap' = [type |-> H.type, ref |-> H.ref, kids |-> g, moved |-> H.moved \/ d = iter.node]
      BY <2>1, <3>1, BumpForm
    <3> DEFINE v == H.moved \/ d = iter.node
    <3>3. v \in BOOLEAN /\ (H.moved => v) /\ (d = iter.node => v)
      OBVIOUS
    <3>4. heap' = [type |-> H.type, ref |-> H.ref, kids |-> g, moved |-> v]
      BY <3>2
    <3> HIDE DEF v
    <3>5. QED BY <3>3, <3>4 DEF g
  <2>4. CASE heap.type[d] \notin Maps
    <3>1. heap' = P
      BY <1>0, <2>4
    <3> DEFINE v == H.moved
    <3>2. v \in BOOLEAN /\ (H.moved => v)
      BY <1>18
    <3>3. heap' = [type |-> H.type, ref |-> H.ref, kids |-> g, moved |-> v]
      BY <2>1, <3>1
    <3> HIDE DEF g, v
    <3>4. QED BY <2>2, <2>4, <3>2, <3>3 DEF g
  <2>5. QED BY <2>3, <2>4
<1>20. WellFormed(H.type[d], DOMAIN H.kids[d] \cup {k})
  <2> DEFINE T == DOMAIN heap.kids[copy.of[d]]
             S == DOMAIN heap.kids[d]
             u == heap.type[d]
  <2>1. WellFormed(u, S) /\ WellFormed(u, T) /\ u \in Containers \cup {"Int"}
    BY <1>1, <1>2, NodeMaps DEF NonFree
  <2>2. S \subseteq T /\ k \in T \ S /\ \A j \in T \ S : k <= j
    BY <1>0, <1>2, <1>3 DEF Missing
  <2> HIDE DEF S, T, u
  <2>3. WellFormed(u, S \cup {k})
    BY <2>1, <2>2, NextKey
  <2>4. H.type[d] = u /\ DOMAIN H.kids[d] = S
    BY <1>2, <1>15, <1>16 DEF u, S
  <2>5. QED BY <2>3, <2>4
<1>21. Op(H, d, m, [heap |-> heap', out |-> Nothing])
  <2> DEFINE G == heap'
  <2>1. /\ G = [type |-> H.type, ref |-> H.ref,
                kids |-> [H.kids EXCEPT ![d] = Set(H.kids[d], k, m)], moved |-> b]
        /\ k \notin DOMAIN H.kids[d]
    BY <1>3, <1>15, <1>19
  <2> HIDE DEF G
  <2>2. Op(H, d, m, [heap |-> G, out |-> Nothing])
    BY <1>2, <1>7, <1>15, <1>19, <1>20, <2>1, PutOp
  <2>3. QED BY <2>2 DEF G
<1>22. Good(heap', HeldF, c2)
  <2> DEFINE r == [heap |-> heap', out |-> Nothing]
  <2>1. r.heap = heap' /\ r.out = Nothing
    OBVIOUS
  <2> HIDE DEF r
  <2>2. Op(H, d, m, r)
    BY <1>21 DEF r
  <2>3. c2[m] = c2[d]
    BY <1>2, <1>7, <1>9
  <2>4. \A i \in Node : HeldF[i] + One(m)[i] = x[i] + r.out[i]
    <3> TAKE i \in Node
    <3>1. HeldF[i] \in Nat /\ One(m)[i] \in Nat /\ r.out[i] = 0
      BY <1>1, <2>1, OneNothing
    <3>2. QED BY <1>11, <3>1
  <2>5. Good(r.heap, HeldF, c2)
    BY <1>1, <1>2, <1>7, <1>14, <1>17, <2>2, <2>3, <2>4, OpGood
  <2>6. QED BY <2>1, <2>5
<1>23. Grown(d, k, m, c)
  <2> DEFINE G == heap'
             f == Set(H.kids[d], k, m)
  <2>1. G = [type |-> H.type, ref |-> H.ref, kids |-> [H.kids EXCEPT ![d] = f], moved |-> b]
    BY <1>19
  <2>2. H.kids \in [Node -> KidMaps]
    BY <1>15, HeapTypes
  <2> HIDE DEF G, f
  <2>3. /\ G.type = H.type /\ G.ref = H.ref /\ G.kids = [H.kids EXCEPT ![d] = f]
        /\ G.moved = b
    BY <2>1
  <2>4. G.kids[d] = f /\ \A i \in Node \ {d} : G.kids[i] = heap.kids[i]
    BY <1>2, <1>15, <2>2, <2>3
  <2>5. f = Set(heap.kids[d], k, m)
    BY <1>15 DEF f
  <2>6. ~G.moved => ~heap.moved
    BY <1>15, <1>19, <2>3
  <2>7. /\ G.type[m] = heap.type[c] /\ G.ref[m] = 1
        /\ \A i \in Node \ {m} : G.type[i] = heap.type[i] /\ G.ref[i] = heap.ref[i]
    BY <1>15, <2>3 DEF t
  <2>8. G = heap'
    BY DEF G
  <2>9. QED BY <2>4, <2>5, <2>6, <2>7, <2>8 DEF Grown
<1>24. QED BY <1>4, <1>5, <1>6, <1>7, <1>8, <1>9, <1>22, <1>23

WithKey(f, k, c, g) ==
    /\ DOMAIN g = DOMAIN f \cup {k}
    /\ g[k] = c
    /\ \A i \in DOMAIN f : i # k => g[i] = f[i]

LEMMA SetValues ==
  ASSUME NEW f, NEW k, NEW c
  PROVE  WithKey(f, k, c, Set(f, k, c))
BY DEF Set, WithKey

(* The copy, with one node more, is still a copy as far as it got. *)
LEMMA GrownCopy ==
  ASSUME NEW col, Inv(col), NEW d \in DOMAIN copy.of, NEW k \in Slot, k \in Missing(d),
         NEW m \in Node, NEW c \in Node, c = heap.kids[copy.of[d]][k], Grown(d, k, m, c),
         NEW c2, \A i \in Node : c2[i] = IF i = m THEN "copy" ELSE col[i],
         NonFree(heap, c), col[c] = "plugin", c \in Kids(heap, copy.of[d]),
         heap.kids[m] = NoKids, \A i \in Node : NonFree(heap, i) => i # m,
         copy'.root = copy.root, copy'.of = Set(copy.of, m, c)
  PROVE  CopyInv(c2)'
<1>1. /\ CopyInv(col) /\ HeapType(heap)
      /\ copy.root \in DOMAIN copy.of /\ copy # NoCopy
      /\ DOMAIN copy.of \subseteq Node
      /\ \A e \in DOMAIN copy.of : copy.of[e] \in Node
  BY CopyNodeFacts, CopyType DEF Inv, Good
<1>2. /\ d \in Node /\ NonFree(heap, d) /\ col[d] = "copy"
      /\ copy.of[d] \in Node /\ NonFree(heap, copy.of[d]) /\ col[copy.of[d]] = "plugin"
  BY CopyNodeFacts
<1>3. \A e \in DOMAIN copy.of : NonFree(heap, e) /\ e # m
  BY <1>1, CopyNodeFacts
<1>4. /\ DOMAIN copy'.of = DOMAIN copy.of \cup {m}
      /\ copy'.of[m] = c
      /\ \A e \in DOMAIN copy.of : copy'.of[e] = copy.of[e]
  <2>1. WithKey(copy.of, m, c, copy'.of)
    BY SetValues
  <2>2. QED BY <1>3, <2>1 DEF WithKey
<1>5. /\ heap'.type[m] = heap.type[c] /\ heap'.ref[m] = 1
      /\ \A i \in Node \ {m} : heap'.type[i] = heap.type[i] /\ heap'.ref[i] = heap.ref[i]
      /\ \A i \in Node \ {d} : heap'.kids[i] = heap.kids[i]
      /\ heap'.kids[d] = Set(heap.kids[d], k, m)
  BY DEF Grown
<1>6. k \notin DOMAIN heap.kids[d]
  BY DEF Missing
<1>7. /\ DOMAIN heap'.kids[d] = DOMAIN heap.kids[d] \cup {k}
      /\ heap'.kids[d][k] = m
      /\ \A j \in DOMAIN heap.kids[d] : heap'.kids[d][j] = heap.kids[d][j]
  <2>1. WithKey(heap.kids[d], k, m, heap'.kids[d])
    BY <1>5, SetValues
  <2>2. QED BY <1>6, <2>1 DEF WithKey
<1>8. \A i \in Node : Kids(heap, i) \subseteq Kids(heap', i)
  <2> SUFFICES ASSUME NEW i \in Node, NEW j \in DOMAIN heap.kids[i]
               PROVE  heap.kids[i][j] \in Kids(heap', i)
    BY DEF Kids
  <2>1. j \in DOMAIN heap'.kids[i] /\ heap'.kids[i][j] = heap.kids[i][j]
    BY <1>5, <1>7
  <2>2. QED BY <2>1 DEF Kids
<1>9. /\ \A S \in SUBSET Node : Below(heap, S) \subseteq Below(heap', S)
  <2> SUFFICES ASSUME NEW S \in SUBSET Node
               PROVE  Below(heap, S) \subseteq Below(heap', S)
    OBVIOUS
  <2>1. \A i \in Node : Kids(heap, i) \subseteq Node
    BY <1>1, HeapTypes
  <2>2. \A i \in Below(heap, S) : Kids(heap, i) \subseteq Kids(heap', i)
    BY <1>8 DEF Below
  <2>3. QED BY <2>1, <2>2, BelowGrows
<1>10. copy'.of[copy.root] = copy.of[copy.root] /\ copy.root \in Node
       /\ copy.of[copy.root] \in Node
  BY <1>1, <1>4
<1>11. \A e \in DOMAIN copy.of :
          /\ e \in Below(heap', {copy.root})
          /\ copy.of[e] \in Below(heap', {copy.of[copy.root]})
  <2> TAKE e \in DOMAIN copy.of
  <2>1. e \in Below(heap, {copy.root}) /\ copy.of[e] \in Below(heap, {copy.of[copy.root]})
    BY <1>1 DEF CopyInv, CopyNode
  <2>2. QED BY <1>9, <1>10, <2>1
<1>12. ASSUME NEW e \in DOMAIN copy.of
       PROVE  CopyNode(c2, e)'
  <2>1. /\ CopyNode(col, e) /\ e \in Node /\ NonFree(heap, e) /\ col[e] = "copy"
        /\ copy.of[e] \in Node /\ NonFree(heap, copy.of[e]) /\ col[copy.of[e]] = "plugin"
    BY CopyNodeFacts
  <2>2. e # m /\ copy.of[e] # m /\ copy.of[e] # d
    BY <1>2, <2>1
  <2>3. /\ heap'.type[e] = heap.type[e] /\ heap'.type[copy.of[e]] = heap.type[copy.of[e]]
        /\ heap'.ref[e] = heap.ref[e]
        /\ heap'.kids[copy.of[e]] = heap.kids[copy.of[e]]
    BY <1>5, <2>1, <2>2
  <2>4. /\ NonFree(heap', e) /\ NonFree(heap', copy.of[e]) /\ heap'.ref[e] = 1
        /\ c2[copy.of[e]] = "plugin"
        /\ heap'.type[e] = heap'.type[copy.of[e]]
    BY <2>1, <2>2, <2>3 DEF CopyNode, NonFree
  <2>5. ASSUME NEW j \in DOMAIN heap.kids[e], heap'.kids[e][j] = heap.kids[e][j]
        PROVE  /\ j \in DOMAIN heap'.kids[copy.of[e]]
               /\ heap'.kids[e][j] \in DOMAIN copy'.of
               /\ copy'.of[heap'.kids[e][j]] = heap'.kids[copy.of[e]][j]
    <3>1. /\ j \in DOMAIN heap.kids[copy.of[e]]
          /\ heap.kids[e][j] \in DOMAIN copy.of
          /\ copy.of[heap.kids[e][j]] = heap.kids[copy.of[e]][j]
      BY <2>1 DEF CopyNode
    <3>2. QED BY <1>4, <2>3, <2>5, <3>1
  <2>6. ASSUME NEW j \in DOMAIN heap'.kids[e]
        PROVE  /\ j \in DOMAIN heap'.kids[copy.of[e]]
               /\ heap'.kids[e][j] \in DOMAIN copy'.of
               /\ copy'.of[heap'.kids[e][j]] = heap'.kids[copy.of[e]][j]
    <3>1. CASE e # d
      <4>1. heap'.kids[e] = heap.kids[e]
        BY <1>5, <2>1, <3>1
      <4>2. QED BY <2>5, <4>1
    <3>2. CASE e = d /\ j # k
      <4>1. j \in DOMAIN heap.kids[e] /\ heap'.kids[e][j] = heap.kids[e][j]
        BY <1>7, <3>2
      <4>2. QED BY <2>5, <4>1
    <3>3. CASE e = d /\ j = k
      <4>1. heap'.kids[e][j] = m /\ heap'.kids[copy.of[e]][j] = c
        BY <1>7, <2>3, <3>3
      <4>2. j \in DOMAIN heap'.kids[copy.of[e]]
        BY <2>3, <3>3 DEF Missing
      <4>3. QED BY <1>4, <4>1, <4>2
    <3>4. QED BY <3>1, <3>2, <3>3
  <2>7. copy'.of[e] = copy.of[e] /\ copy'.root = copy.root
    BY <1>4
  <2>8. e \in Below(heap', {copy.root}) /\ copy.of[e] \in Below(heap', {copy.of[copy.root]})
    BY <1>11
  <2>9. QED BY <1>10, <2>4, <2>6, <2>7, <2>8 DEF CopyNode
<1>13. CopyNode(c2, m)'
  <2>1. c # m /\ m # d
    BY <1>2
  <2>2. heap'.type[c] = heap.type[c] /\ NonFree(heap', m) /\ NonFree(heap', c) /\ c2[c] = "plugin"
        /\ heap'.type[m] = heap'.type[c] /\ heap'.ref[m] = 1
    BY <1>5, <2>1 DEF NonFree
  <2>3. DOMAIN heap'.kids[m] = {}
    BY <1>5, <2>1, NoKidsType
  <2>4. m \in Below(heap', {copy.root})
    <3>1. d \in Below(heap', {copy.root})
      BY <1>11
    <3>2. m \in Kids(heap', d)
      BY <1>7 DEF Kids
    <3>3. QED BY <3>1, <3>2, BelowClosed
  <2>5. c \in Below(heap', {copy.of[copy.root]})
    <3>1. copy.of[d] \in Below(heap', {copy.of[copy.root]})
      BY <1>11
    <3>2. c \in Kids(heap', copy.of[d])
      BY <1>2, <1>8
    <3>3. QED BY <3>1, <3>2, BelowClosed
  <2>6. QED BY <1>4, <1>10, <2>2, <2>3, <2>4, <2>5 DEF CopyNode
<1>14. ASSUME NEW i \in Node, NonFree(heap', i)
       PROVE  c2[i] = "copy" <=> i \in DOMAIN copy'.of
  <2>1. CASE i = m
    BY <1>4, <2>1
  <2>2. CASE i # m
    <3>1. NonFree(heap, i)
      BY <1>5, <1>14, <2>2 DEF NonFree
    <3>2. col[i] = "copy" <=> i \in DOMAIN copy.of
      BY <1>1, <3>1 DEF CopyInv
    <3>3. QED BY <1>4, <2>2, <3>2
  <2>3. QED BY <2>1, <2>2
<1>15. copy'.root \in DOMAIN copy'.of
  BY <1>1, <1>4
<1>16. \A e \in DOMAIN copy'.of : CopyNode(c2, e)'
  BY <1>4, <1>12, <1>13
<1>17. QED BY <1>14, <1>15, <1>16 DEF CopyInv

LEMMA DeepCopyKeeps ==
  ASSUME NEW col, Inv(col), NEW d \in DOMAIN copy.of, NEW k \in Slot, DeepCopy(d, k)
  PROVE  DataInv'
<1>1. /\ k \in Missing(d) /\ \A j \in Missing(d) : k <= j
      /\ copy # NoCopy /\ drop["game"] = Nothing
      /\ UNCHANGED <<json, iter, body, sent, parsed, drop, job>>
  BY DEF DeepCopy, Copying
<1>2. PICK m \in FreeNodes(heap) :
        LET c == heap.kids[copy.of[d]][k]
            P == Put(Make(heap, m, heap.type[c]), d, k, m)
        IN  /\ heap' = IF heap.type[d] \in Maps THEN Bump(P, d) ELSE P
            /\ copy' = [copy EXCEPT !.of = Set(copy.of, m, c)]
  BY DEF DeepCopy
<1> DEFINE c == heap.kids[copy.of[d]][k]
           P == Put(Make(heap, m, heap.type[c]), d, k, m)
           c2 == Paint(col, {m}, "copy")
<1>3. heap' = (IF heap.type[d] \in Maps THEN Bump(P, d) ELSE P)
  BY <1>2
<1>4. copy' = [copy EXCEPT !.of = Set(copy.of, m, c)]
  BY <1>2
<1>5. /\ Good(heap', HeldF, c2)
      /\ Grown(d, k, m, c)
      /\ c2 \in [Node -> Group]
      /\ \A i \in Node : c2[i] = IF i = m THEN "copy" ELSE col[i]
      /\ c \in Node /\ NonFree(heap, c) /\ col[c] = "plugin" /\ c \in Kids(heap, copy.of[d])
      /\ m \in Node /\ heap.kids[m] = NoKids /\ \A i \in Node : NonFree(heap, i) => i # m
  <2>1. GrowsBy(d, k, m, c, P)
    BY <1>1, <1>3 DEF GrowsBy
  <2>2. c2 = Paint(col, {m}, "copy")
    OBVIOUS
  <2> HIDE DEF c, P, c2
  <2>3. QED BY <2>1, <2>2, GrownGood
<1>6. c = heap.kids[copy.of[d]][k]
  OBVIOUS
<1> HIDE DEF c, P, c2
<1>7. StateType /\ JobInv /\ HeldF \in [Node -> Nat]
  BY HeldFType DEF Inv
<1>8. copy'.root = copy.root /\ copy'.of = Set(copy.of, m, c)
      /\ copy' = [root |-> copy.root, of |-> Set(copy.of, m, c)]
  <2> DEFINE f == Set(copy.of, m, c)
  <2> HIDE DEF f
  <2>1. copy = [root |-> copy.root, of |-> copy.of]
    BY <1>7, CopyType
  <2>2. copy' = [copy EXCEPT !.of = f]
    BY <1>4 DEF f
  <2>3. copy'.root = copy.root /\ copy'.of = f /\ copy' = [root |-> copy.root, of |-> f]
    BY <2>1, <2>2
  <2>4. QED BY <2>3 DEF f
<1>9. CopyInv(c2)'
  BY <1>1, <1>5, <1>6, <1>8, GrownCopy, SMTT(40)
<1>10. StateType'
  <2>1. DOMAIN copy.of \subseteq Node /\ \A e \in DOMAIN copy.of : copy.of[e] \in Node
        /\ copy.root \in Node \cup {None}
    BY <1>7, CopyType DEF StateType
  <2>2. Set(copy.of, m, c) \in [DOMAIN copy.of \cup {m} -> Node]
    BY <1>5, <2>1 DEF Set
  <2>3. DOMAIN copy.of \cup {m} \in SUBSET Node
    BY <1>5, <2>1
  <2>4. Set(copy.of, m, c) \in UNION {[S -> Node] : S \in SUBSET Node}
    BY <2>2, <2>3
  <2>5. copy' \in [root : Node \cup {None}, of : UNION {[S -> Node] : S \in SUBSET Node}]
    BY <1>8, <2>1, <2>4
  <2>6. QED BY <1>1, <1>7, <2>5 DEF StateType
<1>11. \A i \in Node : /\ HeldF'[i] = HeldF[i]
                       /\ PluginHolds(i)' = PluginHolds(i) /\ EventHolds(i)' = EventHolds(i)
  BY <1>1, <1>8 DEF HeldF, Held, PluginHolds, EventHolds
<1>12. /\ d \in Node /\ NonFree(heap, d) /\ col[d] = "copy"
  BY CopyNodeFacts
<1>13. /\ \A i \in Node : NonFree(heap, i) => heap'.type[i] = heap.type[i]
       /\ \A i \in Node : NonFree(heap, i) /\ col[i] = "plugin" => heap'.kids[i] = heap.kids[i]
       /\ ~heap'.moved => ~heap.moved
  BY <1>5, <1>12 DEF Grown
<1>14. JobInv'
  <2>1. job.op \in {"Merge", "Extend"} =>
            /\ heap'.type[Target] = heap.type[Target]
            /\ heap'.type[Source] = heap.type[Source]
            /\ heap'.kids[Source] = heap.kids[Source]
            /\ heap'.kids[Target] = heap.kids[Target]
    BY <1>13, LoopNodes
  <2>2. job # NoJob
    BY <1>1, <1>7 DEF JobInv
  <2>3. job.op = "Merge" =>
            \A i \in job.todo : (\A j \in job.todo : i <= j) => i \notin DOMAIN heap'.kids[Target]
    BY <1>1, <1>7, <2>1 DEF JobInv, LoopInv
  <2>4. drop'["game"] = Nothing /\ UNCHANGED <<json, iter, job>>
    BY <1>1
  <2>5. QED BY <1>7, <2>1, <2>2, <2>3, <2>4, JobKept
<1>15. IterKeeps(heap, heap')
  BY <1>13, IterNode DEF IterKeeps
<1>16. \A i \in Node :
            /\ PluginHolds(i)' > 0 => PluginHolds(i) > 0 \/ c2[i] = "plugin"
            /\ i = copy'.root => c2[i] = "copy"
            /\ i = parsed' => i = parsed \/ c2[i] = "parsed"
            /\ EventHolds(i)' > 0 => EventHolds(i) > 0 \/ c2[i] = "event"
  BY <1>1, <1>5, <1>8, <1>11, RootFacts
<1>17. \A i \in Node : NonFree(heap, i) /\ col[i] # "copy" => c2[i] = col[i]
  BY <1>5
<1> DEFINE y == HeldF
<1>18. Good(heap', y, c2) /\ \A i \in Node : HeldF'[i] = y[i]
  BY <1>5, <1>11
<1> HIDE DEF y
<1>19. iter' = iter /\ body' = body /\ c2 \in [Node -> Group]
  BY <1>1, <1>5
<1>20. QED BY <1>9, <1>10, <1>14, <1>15, <1>16, <1>17, <1>18, <1>19, AnyStep

-----------------------------------------------------------------------------
(* The loops of the merges and of Extend.                                  *)

LEMMA HeldFNat ==
  ASSUME \A m \in Node : HeldF'[m] \in Nat
  PROVE  HeldF' \in [Node -> Nat]
<1>1. HeldF' = [n \in Node |-> HeldF'[n]]
  BY DEF HeldF
<1>2. QED BY <1>1

LEMMA NoCopyType ==
  NoCopy \in [root : Node \cup {None}, of : UNION {[S -> Node] : S \in SUBSET Node}]
<1>1. NoKids \in [{} -> Node]
  BY DEF NoKids
<1>2. QED BY <1>1 DEF NoCopy

LEMMA MergeReleaseKeeps ==
  ASSUME NEW col, Inv(col), NEW k \in Slot, MergeRelease(k)
  PROVE  DataInv'
<1>1. /\ job.op = "Merge" /\ copy = NoCopy /\ k \in DOMAIN heap.kids[Target]
      /\ heap' = SetKids(heap, Target, Delete(heap.kids[Target], k))
      /\ Release("game", One(heap.kids[Target][k]))
      /\ UNCHANGED <<json, iter, body, sent, parsed, copy, job>>
  BY DEF MergeRelease
<1>2. /\ Good(heap, HeldF, col) /\ StateType /\ HeldF \in [Node -> Nat] /\ HeapType(heap)
      /\ col \in [Node -> Group] /\ JobInv /\ IterOK
  BY HeldFType DEF Inv, Good
<1>3. /\ LoopInv /\ Target # Source /\ heap.type[Target] \in Maps /\ Target # iter.node
  BY <1>1, <1>2 DEF JobInv, LoopInv
<1>4. Target \in Node /\ NonFree(heap, Target) /\ col[Target] = "plugin" /\ Source \in Node
  BY <1>1, LoopNodes
<1> DEFINE n == Target
           b == One(heap.kids[n][k])
           v == heap.moved
<1>5. heap' = [type |-> heap.type, ref |-> heap.ref,
               kids |-> [heap.kids EXCEPT ![n] = Delete(heap.kids[n], k)], moved |-> v]
  <2> DEFINE f == Delete(heap.kids[n], k)
  <2>1. heap' = SetKids(heap, n, f) /\ n \in Node
    BY <1>1, <1>4
  <2> HIDE DEF f, n
  <2>2. SetKids(heap, n, f) =
          [type |-> heap.type, ref |-> heap.ref, kids |-> [heap.kids EXCEPT ![n] = f],
           moved |-> heap.moved]
    BY <1>2, <2>1, SetKidsForm
  <2>3. QED BY <2>1, <2>2 DEF f
<1>6. v \in BOOLEAN /\ (heap.moved => v)
  BY <1>2, HeapTypes
<1>7. n \in Node /\ heap.type[n] \in Maps /\ k \in DOMAIN heap.kids[n] /\ n # iter.node
      /\ col[n] = "plugin" /\ Release("game", b) /\ b \in [Node -> Nat]
  BY <1>1, <1>3, <1>4, OneNothing
<1>8. n = Target
  OBVIOUS
<1> DEFINE G == heap'
<1>9. G = heap'
  OBVIOUS
<1> HIDE DEF n, v
<1>10. Op(heap, n, None, [heap |-> G, out |-> b])
  <2>1. G = [type |-> heap.type, ref |-> heap.ref,
               kids |-> [heap.kids EXCEPT ![n] = Delete(heap.kids[n], k)], moved |-> v]
    BY <1>5
  <2> HIDE DEF G
  <2>2. QED BY <1>2, <1>6, <1>7, <2>1, RemoveOp
<1> HIDE DEF b, G
<1>11. GameHolds(b)
  BY <1>1, <1>2, <1>7, ReleaseHolds
<1>12. ASSUME NEW m \in Node
       PROVE  /\ PluginHolds(m)' = PluginHolds(m) + b[m] /\ EventHolds(m)' = EventHolds(m)
              /\ HeldF'[m] = HeldF[m] + b[m] /\ HeldF'[m] \in Nat
              /\ PluginHolds(m) \in Nat /\ b[m] \in Nat /\ HeldF[m] \in Nat
  <2>1. /\ PluginHolds(m)' = PluginHolds(m) + b[m]
        /\ EventHolds(m)' + One(sent)[m] = EventHolds(m) + One(sent')[m]
        /\ HeldF'[m] + One(body)[m] + One(sent)[m] + One(parsed)[m] + One(copy.root)[m]
           = HeldF[m] + b[m] + One(body')[m] + One(sent')[m] + One(parsed')[m] + One(copy'.root)[m]
        /\ HeldF'[m] \in Nat /\ HeldF[m] \in Nat
        /\ PluginHolds(m) \in Nat /\ EventHolds(m) \in Nat /\ EventHolds(m)' \in Nat
        /\ b[m] \in Nat
    BY <1>1, <1>2, <1>7, <1>11, HeldHands
  <2>2. /\ One(body)[m] \in Nat /\ One(sent)[m] \in Nat /\ One(parsed)[m] \in Nat
        /\ One(copy.root)[m] \in Nat
    BY OneType
  <2>3. body' = body /\ sent' = sent /\ parsed' = parsed /\ copy' = copy
    BY <1>1
  <2>4. QED BY <2>1, <2>2, <2>3
<1>13. HeldF' \in [Node -> Nat]
  BY <1>12, HeldFNat
<1> DEFINE y == HeldF'
<1>14. Good(G, y, col) /\ \A m \in Node : b[m] > 0 => col[m] = "plugin"
  <2> DEFINE r == [heap |-> G, out |-> b]
  <2>1. r.heap = G /\ r.out = b
    OBVIOUS
  <2>2. y \in [Node -> Nat] /\ \A m \in Node : y[m] = HeldF[m] + b[m]
    BY <1>12, <1>13
  <2> DEFINE c == None
  <2> HIDE DEF r, y
  <2>3. Op(heap, n, c, r) /\ c \notin Node /\ c \in Node \cup {None}
    BY <1>10, DataAssumption DEF r
  <2>4. \A m \in Node : y[m] + One(c)[m] = HeldF[m] + r.out[m]
    <3> TAKE m \in Node
    <3>1. One(None)[m] = 0 /\ HeldF[m] \in Nat /\ b[m] \in Nat
      BY <1>12, OneNothing
    <3>2. QED BY <2>1, <2>2, <3>1
  <2>4a. n \in Node /\ Good(heap, HeldF, col) /\ y \in [Node -> Nat]
    BY <1>2, <1>7, <2>2
  <2> HIDE DEF c
  <2>4b. c \in Node => col[c] = col[n] /\ n \notin Below(heap, {c})
    BY <2>3
  <2>5. Good(r.heap, y, col)
    BY <2>3, <2>4, <2>4a, <2>4b, OpGood
  <2>5a. \A m \in Node : r.out[m] > 0 => col[m] = col[n]
    BY <2>3, <2>4, <2>4a, <2>4b, OpGood
  <2>6. QED BY <1>7, <2>1, <2>5, <2>5a
<1>15. /\ G.type = heap.type /\ \A m \in Node \ {n} : G.kids[m] = heap.kids[m]
       /\ ~G.moved => ~heap.moved
  <2> DEFINE r == [heap |-> G, out |-> b]
  <2>1. r.heap = G
    OBVIOUS
  <2> HIDE DEF r
  <2>2. Op(heap, n, None, r)
    BY <1>10 DEF r
  <2>3. QED BY <2>1, <2>2 DEF Op
<1>16. JobInv'
  <2>1. /\ heap'.type[Target] = heap.type[Target]
        /\ heap'.type[Source] = heap.type[Source]
        /\ heap'.kids[Source] = heap.kids[Source]
    BY <1>3, <1>4, <1>8, <1>9, <1>15
  <2>2. copy' = NoCopy /\ UNCHANGED <<json, iter, job>>
    BY <1>1
  <2>3. QED BY <1>2, <2>1, <2>2, JobKept
<1>17. CopyInv(col)'
  <2>1. \A m \in Node : NonFree(heap', m) => col[m] # "copy"
    BY <1>1, <1>9, <1>15, NoCopyColour DEF NonFree
  <2>2. QED BY <1>1, <2>1, NoCopyNext
<1>18. IterKeeps(heap, heap')
  BY <1>7, <1>9, <1>15 DEF IterKeeps
<1>19. StateType'
  BY <1>1, <1>2, <1>11 DEF StateType, GameHolds
<1>20. \A m \in Node :
            /\ PluginHolds(m)' > 0 => PluginHolds(m) > 0 \/ col[m] = "plugin"
            /\ m = copy'.root => col[m] = "copy"
            /\ m = parsed' => m = parsed \/ col[m] = "parsed"
            /\ EventHolds(m)' > 0 => EventHolds(m) > 0 \/ col[m] = "event"
  <2> TAKE m \in Node
  <2>1. PluginHolds(m)' > 0 => PluginHolds(m) > 0 \/ b[m] > 0
    BY <1>12
  <2>2. m = copy.root => col[m] = "copy"
    BY RootFacts
  <2>3. QED BY <1>1, <1>12, <1>14, <2>1, <2>2
<1>21. iter' = iter /\ body' = body
  BY <1>1
<1>22. Good(heap', y, col) /\ \A m \in Node : HeldF'[m] = y[m]
  BY <1>9, <1>14
<1> HIDE DEF y
<1>23. QED BY <1>2, <1>16, <1>17, <1>18, <1>19, <1>20, <1>21, <1>22, AnyStep

LEMMA StoreOp ==
  ASSUME NEW col, Inv(col), NEW k \in Slot, Store(k)
  PROVE  /\ Op(heap, Target, copy.root, [heap |-> heap', out |-> Nothing])
         /\ job.op \in {"Merge", "Extend"} /\ k \in job.todo /\ KeyDone(k)
         /\ copy # NoCopy /\ copy' = NoCopy
         /\ UNCHANGED <<json, iter, body, sent, parsed, drop>>
<1>1. /\ AtKey(k) /\ copy # NoCopy /\ copy' = NoCopy /\ KeyDone(k)
      /\ \/ job.op = "Merge" /\ heap' = Put(heap, Target, k, copy.root)
         \/ /\ job.op = "Extend"
            /\ Length(heap.kids[Target]) < MaxLength
            /\ heap' = Append2(heap, Target, copy.root)
      /\ UNCHANGED <<json, iter, body, sent, parsed, drop>>
  BY DEF Store, Copied, Copying
<1>2. HeapType(heap) /\ JobInv /\ copy.root \in Node /\ job.op \in {"Merge", "Extend"} /\ LoopInv
  BY <1>1, CopyRoot DEF Inv, Good, JobInv
<1>3. k \in job.todo /\ \A j \in job.todo : k <= j
  BY <1>1 DEF AtKey
<1> DEFINE n == Target
           c == copy.root
           G == heap'
           v == heap.moved
<1>4. n \in Node /\ c \in Node
  BY <1>2, LoopNodes
<1>5. CASE job.op = "Merge"
  <2>1. /\ G = Put(heap, n, k, c) /\ heap.type[n] \in Maps /\ n # iter.node
        /\ k \notin DOMAIN heap.kids[n] /\ k \in DOMAIN heap.kids[Source]
        /\ heap.type[n] = heap.type[Source] /\ Source \in Node
    BY <1>1, <1>2, <1>3, <1>5 DEF LoopInv
  <2>2. k \in Key /\ DOMAIN heap.kids[n] \subseteq Key
    BY <1>2, <1>4, <2>1, NodeMaps DEF WellFormed
  <2>3. WellFormed(heap.type[n], DOMAIN heap.kids[n] \cup {k})
    BY <2>1, <2>2 DEF WellFormed, Maps
  <2>4. v \in BOOLEAN /\ (heap.moved => v)
    BY <1>2, HeapTypes
  <2> HIDE DEF n, c
  <2>5. G = [type |-> heap.type, ref |-> heap.ref,
             kids |-> [heap.kids EXCEPT ![n] = Set(heap.kids[n], k, c)], moved |-> v]
    <3> DEFINE f == Set(heap.kids[n], k, c)
    <3>1. G = SetKids(heap, n, f)
      BY <2>1 DEF Put
    <3> HIDE DEF f, G
    <3>2. SetKids(heap, n, f) =
            [type |-> heap.type, ref |-> heap.ref, kids |-> [heap.kids EXCEPT ![n] = f],
             moved |-> heap.moved]
      BY <1>2, <1>4, SetKidsForm
    <3>3. QED BY <3>1, <3>2 DEF f
  <2> HIDE DEF G, v
  <2>6. Op(heap, n, c, [heap |-> G, out |-> Nothing])
    BY <1>2, <1>4, <2>1, <2>3, <2>4, <2>5, PutOp
  <2>7. QED BY <1>1, <1>2, <1>3, <2>6 DEF G, n, c
<1>6. CASE job.op = "Extend"
  <2>1. G = Append2(heap, n, c) /\ heap.type[n] = "Array" /\ Length(heap.kids[n]) < MaxLength
    BY <1>1, <1>2, <1>6 DEF LoopInv
  <2> HIDE DEF n, c
  <2>2. Op(heap, n, c, Leaves(Append2(heap, n, c)))
    BY <1>2, <1>4, <2>1, AppendOp
  <2>3. Leaves(Append2(heap, n, c)) = [heap |-> G, out |-> Nothing]
    BY <2>1 DEF Leaves
  <2> HIDE DEF G
  <2>4. Op(heap, n, c, [heap |-> G, out |-> Nothing])
    BY <2>2, <2>3
  <2>5. QED BY <1>1, <1>2, <1>3, <2>4 DEF G, n, c
<1>7. QED BY <1>2, <1>5, <1>6

LEMMA StoreKeeps ==
  ASSUME NEW col, Inv(col), NEW k \in Slot, Store(k)
  PROVE  DataInv'
<1>1. /\ Op(heap, Target, copy.root, [heap |-> heap', out |-> Nothing])
      /\ job.op \in {"Merge", "Extend"} /\ k \in job.todo /\ KeyDone(k)
      /\ copy # NoCopy /\ copy' = NoCopy
      /\ UNCHANGED <<json, iter, body, sent, parsed, drop>>
  BY StoreOp
<1>2. /\ Good(heap, HeldF, col) /\ StateType /\ HeldF \in [Node -> Nat] /\ HeapType(heap)
      /\ col \in [Node -> Group] /\ JobInv /\ IterOK /\ RootsOK(col)
  BY HeldFType DEF Inv, Good
<1>3. LoopInv /\ Target # Source
  BY <1>1, <1>2 DEF JobInv, LoopInv
<1>4. Target \in Node /\ NonFree(heap, Target) /\ col[Target] = "plugin"
      /\ Source \in Node
  BY <1>1, LoopNodes
<1>5. copy.root \in Node /\ copy.root \in DOMAIN copy.of /\ col[copy.root] = "copy"
  BY <1>1, CopyRoot
<1>6. NonFree(heap, copy.root)
  BY <1>5, CopyNodeFacts
<1> DEFINE n == Target
           c == copy.root
           c2 == Repaint(col, "copy", "plugin")
           r == [heap |-> heap', out |-> Nothing]
           y == HeldF'
<1>7. /\ c2 \in [Node -> Group]
      /\ \A i \in Node : c2[i] = IF col[i] = "copy" THEN "plugin" ELSE col[i]
      /\ \A m, i \in Node : col[m] = col[i] => c2[m] = c2[i]
  BY <1>2, GroupNames, RepaintType
<1>8. n \in Node /\ c \in Node /\ n \notin Below(heap, {c}) /\ c \in Node \cup {None}
  BY <1>2, <1>4, <1>5, <1>6, BelowColour
<1>9. ASSUME NEW m \in Node
      PROVE  /\ PluginHolds(m)' = PluginHolds(m) /\ EventHolds(m)' = EventHolds(m)
             /\ HeldF'[m] + One(c)[m] = HeldF[m] /\ HeldF'[m] \in Nat /\ HeldF[m] \in Nat
  <2>0. GameHolds(Nothing) /\ Nothing \in [Node -> Nat] /\ Nothing[m] = 0
    BY <1>1, <1>2, KeepHolds, OneNothing
  <2> DEFINE b == Nothing
  <2>1. GameHolds(b) /\ b \in [Node -> Nat] /\ b[m] = 0 /\ iter' = iter
    BY <1>1, <2>0
  <2> HIDE DEF b
  <2>2. /\ PluginHolds(m)' = PluginHolds(m) + b[m]
        /\ EventHolds(m)' + One(sent)[m] = EventHolds(m) + One(sent')[m]
        /\ HeldF'[m] + One(body)[m] + One(sent)[m] + One(parsed)[m] + One(copy.root)[m]
           = HeldF[m] + b[m] + One(body')[m] + One(sent')[m] + One(parsed')[m] + One(copy'.root)[m]
        /\ HeldF'[m] \in Nat /\ HeldF[m] \in Nat
        /\ PluginHolds(m) \in Nat /\ EventHolds(m) \in Nat /\ EventHolds(m)' \in Nat
        /\ b[m] \in Nat
    BY <1>2, <2>1, HeldHands
  <2>3. /\ One(body)[m] \in Nat /\ One(sent)[m] \in Nat /\ One(parsed)[m] \in Nat
        /\ One(copy.root)[m] \in Nat /\ One(copy'.root)[m] = 0
    BY <1>1, NoCopyFacts, OneType, OneNothing
  <2>4. body' = body /\ sent' = sent /\ parsed' = parsed
    BY <1>1
  <2>5. QED BY <2>1, <2>2, <2>3, <2>4
<1>10. y \in [Node -> Nat] /\ \A m \in Node : y[m] + One(c)[m] = HeldF[m]
  BY <1>9, HeldFNat
<1>11. r.heap = heap' /\ r.out = Nothing /\ Op(heap, n, c, r)
  BY <1>1
<1>12. n = Target /\ c = copy.root
  OBVIOUS
<1> HIDE DEF n, c, c2, r, y
<1>13. Good(heap, HeldF, c2)
  BY <1>2, <1>7, Regroup
<1>14. c2[c] = c2[n]
  BY <1>4, <1>5, <1>7, <1>12
<1>15. \A m \in Node : y[m] + One(c)[m] = HeldF[m] + r.out[m]
  <2> TAKE m \in Node
  <2>1. r.out[m] = 0 /\ HeldF[m] \in Nat
    BY <1>2, <1>11, OneNothing
  <2>2. QED BY <1>10, <2>1
<1>16. Good(r.heap, y, c2)
  BY <1>8, <1>10, <1>11, <1>13, <1>14, <1>15, OpGood
<1>17. /\ heap'.type = heap.type /\ \A m \in Node \ {n} : heap'.kids[m] = heap.kids[m]
       /\ ~heap'.moved => /\ ~heap.moved
                          /\ n = iter.node /\ heap.type[n] \in Maps => heap'.kids[n] = heap.kids[n]
  BY <1>11 DEF Op
<1>18. JobInv' /\ job' \in JobType
  <2>1. /\ heap'.type[Target] = heap.type[Target]
        /\ heap'.type[Source] = heap.type[Source]
        /\ heap'.kids[Source] = heap.kids[Source]
    BY <1>3, <1>4, <1>12, <1>17
  <2>2. copy' = NoCopy /\ UNCHANGED <<json, iter>> /\ KeyDone(k) /\ k \in job.todo
    BY <1>1
  <2>3. QED BY <1>2, <2>1, <2>2, KeyDoneKept
<1>19. CopyInv(c2)'
  <2>1. \A m \in Node : NonFree(heap', m) => c2[m] # "copy"
    BY <1>7
  <2>2. QED BY <1>1, <2>1, NoCopyNext
<1>20. IterKeeps(heap, heap')
  <2>1. iter.node \in Node => heap.type[iter.node] \in Maps
    BY <1>2 DEF IterOK
  <2>2. QED BY <1>17, <2>1 DEF IterKeeps
<1>21. StateType'
  <2>1. copy' \in [root : Node \cup {None}, of : UNION {[S -> Node] : S \in SUBSET Node}]
    BY <1>1, NoCopyType
  <2>2. UNCHANGED <<json, iter, body, sent, parsed, drop>>
    BY <1>1
  <2>3. QED BY <1>2, <1>18, <2>1, <2>2 DEF StateType, JobType
<1>22. \A m \in Node :
            /\ PluginHolds(m)' > 0 => PluginHolds(m) > 0 \/ c2[m] = "plugin"
            /\ m = copy'.root => c2[m] = "copy"
            /\ m = parsed' => m = parsed \/ c2[m] = "parsed"
            /\ EventHolds(m)' > 0 => EventHolds(m) > 0 \/ c2[m] = "event"
  <2> TAKE m \in Node
  <2>1. m # copy'.root
    BY <1>1, NoCopyFacts, DataAssumption
  <2>2. parsed' = parsed
    BY <1>1
  <2>3. QED BY <1>9, <2>1, <2>2
<1>23. iter' = iter /\ body' = body
  BY <1>1
<1>24. Good(heap', y, c2) /\ \A m \in Node : HeldF'[m] = y[m]
  BY <1>11, <1>16 DEF y
<1>25. \A m \in Node : NonFree(heap, m) /\ col[m] # "copy" => c2[m] = col[m]
  BY <1>7
<1>26. QED BY <1>7, <1>18, <1>19, <1>20, <1>21, <1>22, <1>23, <1>24, <1>25, AnyStep

-----------------------------------------------------------------------------
(* The event thread.                                                       *)

(* The blocks of plugins and of the copy under way are as they were. *)
Untouched(col) ==
    \A m \in Node : NonFree(heap, m) /\ col[m] \in {"plugin", "copy"} =>
        /\ heap'.type[m] = heap.type[m]
        /\ heap'.kids[m] = heap.kids[m]
        /\ heap'.ref[m] = heap.ref[m]

LEMMA CopyKept ==
  ASSUME NEW col, Inv(col), copy' = copy, NEW c2, Untouched(col),
         \A m \in Node : NonFree(heap, m) => c2[m] = col[m],
         \A m \in Node : NonFree(heap', m) => NonFree(heap, m) \/ c2[m] # "copy"
  PROVE  CopyInv(c2)'
<1>1. CopyInv(col) /\ Good(heap, HeldF, col) /\ HeapType(heap)
      /\ \A i \in Node : Kids(heap, i) \subseteq Node
  BY HeapTypes DEF Inv, Good
<1>2. ASSUME NEW n \in Node, NonFree(heap, n), col[n] \in {"plugin", "copy"}
      PROVE  Below(heap, {n}) \subseteq Below(heap', {n})
  <2>1. Below(heap, {n}) \subseteq {m \in Node : NonFree(heap, m) /\ col[m] = col[n]}
    BY <1>1, <1>2, BelowColour
  <2>2. \A i \in Below(heap, {n}) : Kids(heap, i) \subseteq Kids(heap', i)
    <3> TAKE i \in Below(heap, {n})
    <3>1. heap'.kids[i] = heap.kids[i]
      BY <1>2, <2>1 DEF Untouched
    <3>2. QED BY <3>1 DEF Kids
  <2>3. QED BY <1>1, <2>2, BelowGrows
<1>3. ASSUME NEW i \in Node, NonFree(heap', i)
      PROVE  c2[i] = "copy" <=> i \in DOMAIN copy.of
  <2>1. CASE NonFree(heap, i)
    BY <1>1, <2>1 DEF CopyInv
  <2>2. CASE ~NonFree(heap, i)
    <3>1. c2[i] # "copy"
      BY <1>3, <2>2
    <3>2. i \notin DOMAIN copy.of
      BY <2>2, CopyNodeFacts
    <3>3. QED BY <3>1, <3>2
  <2>3. QED BY <2>1, <2>2
<1>4. ASSUME NEW e \in DOMAIN copy.of
      PROVE  CopyNode(c2, e)'
  <2>1. /\ CopyNode(col, e)
        /\ e \in Node /\ NonFree(heap, e) /\ col[e] = "copy"
        /\ copy.of[e] \in Node /\ NonFree(heap, copy.of[e]) /\ col[copy.of[e]] = "plugin"
        /\ copy.root \in DOMAIN copy.of
    BY CopyNodeFacts
  <2>2. /\ copy.root \in Node /\ NonFree(heap, copy.root) /\ col[copy.root] = "copy"
        /\ copy.of[copy.root] \in Node /\ NonFree(heap, copy.of[copy.root])
        /\ col[copy.of[copy.root]] = "plugin"
    BY <2>1, CopyNodeFacts
  <2>3. /\ heap'.type[e] = heap.type[e] /\ heap'.kids[e] = heap.kids[e]
        /\ heap'.ref[e] = heap.ref[e]
        /\ heap'.type[copy.of[e]] = heap.type[copy.of[e]]
        /\ heap'.kids[copy.of[e]] = heap.kids[copy.of[e]]
    BY <2>1 DEF Untouched
  <2>4. c2[copy.of[e]] = "plugin"
    BY <2>1
  <2>5. /\ e \in Below(heap', {copy.root}) /\ copy.of[e] \in Below(heap', {copy.of[copy.root]})
    BY <1>2, <2>1, <2>2 DEF CopyNode
  <2>6. QED BY <2>1, <2>3, <2>4, <2>5 DEF CopyNode, NonFree
<1>5. QED BY <1>1, <1>3, <1>4 DEF CopyInv

LEMMA EventStep ==
  ASSUME NEW col, Inv(col), UNCHANGED <<json, iter, body, copy, job>>,
         sent' \in Node \cup {None}, parsed' \in Node \cup {None},
         drop' \in [Thread -> [Node -> Nat]], drop'["game"] = drop["game"],
         NEW c2 \in [Node -> Group], NEW y, Good(heap', y, c2), \A m \in Node : HeldF'[m] = y[m],
         Untouched(col), heap'.moved = heap.moved,
         \A m \in Node : NonFree(heap, m) => c2[m] = col[m],
         \A m \in Node : NonFree(heap', m) => NonFree(heap, m) \/ c2[m] # "copy",
         \A m \in Node :
            /\ m = parsed' => m = parsed \/ c2[m] = "parsed"
            /\ EventHolds(m)' > 0 => EventHolds(m) > 0 \/ c2[m] = "event"
  PROVE  DataInv'
<1>1. StateType /\ JobInv
  BY DEF Inv
<1>2. StateType'
  BY <1>1 DEF StateType
<1>3. \A m \in Node : PluginHolds(m)' = PluginHolds(m)
  BY DEF PluginHolds
<1>4. CopyInv(c2)'
  BY CopyKept
<1>5. JobInv'
  <2>1. job.op \in {"Merge", "Extend"} =>
            /\ heap'.type[Target] = heap.type[Target]
            /\ heap'.type[Source] = heap.type[Source]
            /\ heap'.kids[Source] = heap.kids[Source]
            /\ heap'.kids[Target] = heap.kids[Target]
    BY LoopNodes DEF Untouched
  <2>2. job.op = "Merge" /\ copy # NoCopy =>
            \A i \in job.todo : (\A j \in job.todo : i <= j) => i \notin DOMAIN heap'.kids[Target]
    BY <1>1, <2>1 DEF JobInv, LoopInv
  <2>3. /\ job = NoJob => copy' = NoCopy
        /\ copy' # NoCopy => drop'["game"] = Nothing
        /\ copy' = copy
    BY <1>1 DEF JobInv
  <2>4. QED BY <1>1, <2>1, <2>2, <2>3, JobKept
<1>6. IterKeeps(heap, heap')
  BY IterNode DEF IterKeeps, Untouched
<1>7. \A m \in Node :
            /\ PluginHolds(m)' > 0 => PluginHolds(m) > 0 \/ c2[m] = "plugin"
            /\ m = copy'.root => c2[m] = "copy"
            /\ m = parsed' => m = parsed \/ c2[m] = "parsed"
            /\ EventHolds(m)' > 0 => EventHolds(m) > 0 \/ c2[m] = "event"
  <2> TAKE m \in Node
  <2>1. ASSUME m = copy.root
        PROVE  c2[m] = "copy"
    <3>1. copy # NoCopy
      BY <2>1, NoCopyFacts, DataAssumption
    <3>2. copy.root \in DOMAIN copy.of /\ col[m] = "copy"
      BY <2>1, <3>1, CopyRoot
    <3>3. NonFree(heap, m)
      BY <2>1, <3>2, CopyNodeFacts
    <3>4. QED BY <3>2, <3>3
  <2>2. QED BY <1>3, <2>1
<1>8. iter' = iter /\ body' = body
  OBVIOUS
<1>9. \A m \in Node : NonFree(heap, m) /\ col[m] # "copy" => c2[m] = col[m]
  OBVIOUS
<1>10. QED BY <1>2, <1>4, <1>5, <1>6, <1>7, <1>8, <1>9, AnyStep

(* What is held after a step of the event thread. *)
LEMMA HeldByEvent ==
  ASSUME StateType, UNCHANGED <<json, iter, body, copy>>,
         drop' \in [Thread -> [Node -> Nat]], drop'["game"] = drop["game"], NEW m \in Node
  PROVE  /\ HeldF'[m] + One(sent)[m] + One(parsed)[m] + drop["event"][m]
            = HeldF[m] + One(sent')[m] + One(parsed')[m] + drop'["event"][m]
         /\ HeldF'[m] \in Nat /\ HeldF[m] \in Nat
         /\ drop["event"][m] \in Nat /\ drop'["event"][m] \in Nat
         /\ EventHolds(m) = One(sent)[m] + drop["event"][m]
         /\ EventHolds(m)' = One(sent')[m] + drop'["event"][m]
<1>1. /\ HeldF[m] = PluginHolds(m) + One(body)[m] + One(sent)[m] + One(parsed)[m]
                       + One(copy.root)[m] + drop["event"][m]
      /\ HeldF[m] \in Nat
      /\ PluginHolds(m) \in Nat /\ drop["event"][m] \in Nat
      /\ EventHolds(m) = One(sent)[m] + drop["event"][m]
      /\ PluginHolds(m) = Refs(json)[m] + One(iter.node)[m] + drop["game"][m]
      /\ Refs(json)[m] \in Nat /\ drop["game"][m] \in Nat
  BY HeldParts
<1>2. drop'["event"][m] \in Nat
  BY DEF Thread
<1>3. /\ One(body)[m] \in Nat /\ One(sent)[m] \in Nat /\ One(parsed)[m] \in Nat
      /\ One(copy.root)[m] \in Nat /\ One(iter.node)[m] \in Nat
      /\ One(sent')[m] \in Nat /\ One(parsed')[m] \in Nat
  BY OneType
<1>4. HeldF'[m] = Refs(json)[m] + One(iter.node)[m] + One(body)[m] + One(sent')[m]
                  + One(parsed')[m] + One(copy.root)[m] + drop["game"][m] + drop'["event"][m]
  BY DEF HeldF, Held
<1>5. EventHolds(m)' = One(sent')[m] + drop'["event"][m]
  BY DEF EventHolds
<1> DEFINE p == PluginHolds(m)
           q == One(body)[m] + One(copy.root)[m]
<1>6. HeldF'[m] = p + q + One(sent')[m] + One(parsed')[m] + drop'["event"][m]
  BY <1>1, <1>2, <1>3, <1>4
<1>7. HeldF[m] = p + q + One(sent)[m] + One(parsed)[m] + drop["event"][m] /\ p \in Nat /\ q \in Nat
  BY <1>1, <1>3
<1> HIDE DEF p, q
<1>8. /\ HeldF'[m] + One(sent)[m] + One(parsed)[m] + drop["event"][m]
            = HeldF[m] + One(sent')[m] + One(parsed')[m] + drop'["event"][m]
      /\ HeldF'[m] \in Nat
  BY <1>1, <1>2, <1>3, <1>6, <1>7
<1>9. QED BY <1>1, <1>2, <1>5, <1>8

LEMMA SetupCurlKeeps ==
  ASSUME NEW col, Inv(col), SetupCurl
  PROVE  DataInv'
<1>1. /\ Release("event", One(sent)) /\ sent' = None
      /\ UNCHANGED <<heap, json, iter, body, parsed, copy, job>>
  BY DEF SetupCurl
<1>2. StateType /\ Good(heap, HeldF, col) /\ col \in [Node -> Group] /\ HeldF \in [Node -> Nat]
  BY HeldFType DEF Inv, Good
<1>3. drop \in [Thread -> [Node -> Nat]] /\ "game" \in Thread /\ "event" \in Thread
      /\ One(sent) \in [Node -> Nat]
  BY <1>2, OneNothing DEF StateType, Thread
<1>4. /\ Plus(drop["event"], One(sent)) \in [Node -> Nat]
      /\ \A m \in Node : Plus(drop["event"], One(sent))[m] = drop["event"][m] + One(sent)[m]
  BY <1>3, PlusType
<1>5. drop' = [drop EXCEPT !["event"] = Plus(drop["event"], One(sent))]
  BY <1>1 DEF Release
<1>6. /\ drop' \in [Thread -> [Node -> Nat]] /\ drop'["game"] = drop["game"]
      /\ \A m \in Node : drop'["event"][m] = drop["event"][m] + One(sent)[m]
  BY <1>3, <1>4, <1>5
<1>7. ASSUME NEW m \in Node
      PROVE  /\ HeldF'[m] = HeldF[m]
             /\ EventHolds(m)' = EventHolds(m)
  <2>1. /\ HeldF'[m] + One(sent)[m] + One(parsed)[m] + drop["event"][m]
           = HeldF[m] + One(sent')[m] + One(parsed')[m] + drop'["event"][m]
        /\ HeldF'[m] \in Nat /\ HeldF[m] \in Nat
        /\ drop["event"][m] \in Nat /\ drop'["event"][m] \in Nat
        /\ EventHolds(m) = One(sent)[m] + drop["event"][m]
        /\ EventHolds(m)' = One(sent')[m] + drop'["event"][m]
    BY <1>1, <1>2, <1>6, HeldByEvent
  <2>2. /\ One(sent)[m] \in Nat /\ One(parsed)[m] \in Nat /\ One(sent')[m] = 0
        /\ One(parsed')[m] = One(parsed)[m]
    BY <1>1, OneType, OneNothing
  <2>3. drop'["event"][m] = drop["event"][m] + One(sent)[m]
    BY <1>6
  <2> DEFINE e == drop["event"][m]
             d == drop'["event"][m]
  <2>4. HeldF'[m] + One(sent)[m] + One(parsed)[m] + e = HeldF[m] + 0 + One(parsed)[m] + d
    BY <2>1, <2>2
  <2>5. d = e + One(sent)[m] /\ e \in Nat /\ HeldF'[m] \in Nat /\ HeldF[m] \in Nat
    BY <2>1, <2>3
  <2>6. EventHolds(m) = One(sent)[m] + e /\ EventHolds(m)' = 0 + d
    BY <2>1, <2>2
  <2> HIDE DEF d, e
  <2>7. QED BY <2>2, <2>4, <2>5, <2>6
<1> DEFINE y == HeldF
<1>8. Good(heap', y, col) /\ \A m \in Node : HeldF'[m] = y[m]
  BY <1>1, <1>2, <1>7
<1> HIDE DEF y
<1>9. Untouched(col) /\ heap'.moved = heap.moved
  BY <1>1 DEF Untouched
<1>10. /\ \A m \in Node : NonFree(heap', m) => NonFree(heap, m) \/ col[m] # "copy"
       /\ \A m \in Node :
            /\ m = parsed' => m = parsed \/ col[m] = "parsed"
            /\ EventHolds(m)' > 0 => EventHolds(m) > 0 \/ col[m] = "event"
  BY <1>1, <1>7
<1>11. sent' \in Node \cup {None} /\ parsed' \in Node \cup {None}
       /\ UNCHANGED <<json, iter, body, copy, job>>
  BY <1>1, <1>2 DEF StateType
<1>12. QED BY <1>2, <1>6, <1>8, <1>9, <1>10, <1>11, EventStep

LEMMA EventParseKeeps ==
  ASSUME NEW col, Inv(col), ParseOnEventThread
  PROVE  DataInv'
<1>1. PICK r \in FreeNodes(heap) : \E f \in Parses(heap, r) :
        heap' = Parsed(heap, r, f) /\ parsed' = r
  BY DEF ParseOnEventThread
<1>2. PICK f \in Parses(heap, r) : heap' = Parsed(heap, r, f) /\ parsed' = r
  BY <1>1
<1>3. parsed = None /\ UNCHANGED <<json, iter, body, sent, drop, copy, job>>
  BY DEF ParseOnEventThread
<1>4. StateType /\ Good(heap, HeldF, col) /\ col \in [Node -> Group] /\ HeldF \in [Node -> Nat]
      /\ One(r) \in [Node -> Nat] /\ drop \in [Thread -> [Node -> Nat]]
  BY HeldFType, OneNothing DEF Inv, Good, StateType
<1>5. r \in Node
  BY DEF FreeNodes
<1> DEFINE M == ParsedNodes(r, f)
           c2 == Paint(col, M, "parsed")
           y == Plus(HeldF, One(r))
<1>6. /\ c2 \in [Node -> Group]
      /\ \A n \in Node : c2[n] = IF n \in M THEN "parsed" ELSE col[n]
  BY <1>4, PaintType, GroupNames
<1>7. y \in [Node -> Nat] /\ \A m \in Node : y[m] = HeldF[m] + One(r)[m]
  BY <1>4, PlusType
<1> HIDE DEF c2, y
<1>8. /\ Good(heap', y, c2)
      /\ heap'.moved = heap.moved
      /\ r \in M /\ M \subseteq FreeNodes(heap)
      /\ \A m \in Node \ M :
            heap'.type[m] = heap.type[m] /\ heap'.kids[m] = heap.kids[m]
            /\ heap'.ref[m] = heap.ref[m]
  <2> DEFINE G == heap'
             g == "parsed"
  <2>1. G = Parsed(heap, r, f)
    BY <1>2
  <2>2. /\ g \in Group
        /\ \A n \in Node : c2[n] = IF n \in ParsedNodes(r, f) THEN g ELSE col[n]
    BY <1>6, GroupNames
  <2> HIDE DEF G, g
  <2>3. /\ Good(G, y, c2)
        /\ G.moved = heap.moved
        /\ r \in ParsedNodes(r, f) /\ ParsedNodes(r, f) \subseteq FreeNodes(heap)
        /\ \A m \in Node \ ParsedNodes(r, f) :
              G.type[m] = heap.type[m] /\ G.kids[m] = heap.kids[m] /\ G.ref[m] = heap.ref[m]
    BY <1>4, <1>6, <1>7, <2>1, <2>2, ParsedGood
  <2>4. QED BY <2>3 DEF G
<1> HIDE DEF M
<1>9. \A m \in Node : NonFree(heap, m) => m \notin M
  BY <1>8 DEF NonFree, FreeNodes
<1>10. ASSUME NEW m \in Node
       PROVE  /\ HeldF'[m] = y[m]
              /\ EventHolds(m)' = EventHolds(m)
  <2>0. drop' = drop
    BY <1>3
  <2>1. /\ HeldF'[m] + One(sent)[m] + One(parsed)[m] + drop["event"][m]
           = HeldF[m] + One(sent')[m] + One(parsed')[m] + drop'["event"][m]
        /\ HeldF'[m] \in Nat /\ HeldF[m] \in Nat
        /\ drop["event"][m] \in Nat /\ drop'["event"][m] \in Nat
        /\ EventHolds(m) = One(sent)[m] + drop["event"][m]
        /\ EventHolds(m)' = One(sent')[m] + drop'["event"][m]
    BY <1>3, <1>4, <2>0, HeldByEvent
  <2>2. /\ One(sent)[m] \in Nat /\ One(parsed)[m] = 0 /\ sent' = sent
        /\ One(r)[m] \in Nat /\ parsed' = r
    BY <1>2, <1>3, OneType, OneNothing
  <2>3. QED BY <1>7, <2>0, <2>1, <2>2
<1>11. Untouched(col)
  BY <1>8, <1>9 DEF Untouched
<1>12. /\ \A m \in Node : NonFree(heap, m) => c2[m] = col[m]
       /\ \A m \in Node : NonFree(heap', m) => NonFree(heap, m) \/ c2[m] # "copy"
  BY <1>6, <1>8, <1>9 DEF NonFree
<1>13. \A m \in Node :
            /\ m = parsed' => m = parsed \/ c2[m] = "parsed"
            /\ EventHolds(m)' > 0 => EventHolds(m) > 0 \/ c2[m] = "event"
  BY <1>2, <1>6, <1>8, <1>10
<1>14. /\ sent' \in Node \cup {None} /\ parsed' \in Node \cup {None}
       /\ UNCHANGED <<json, iter, body, copy, job>>
       /\ drop' \in [Thread -> [Node -> Nat]] /\ drop'["game"] = drop["game"]
  <2>1. sent' \in Node \cup {None} /\ parsed' \in Node \cup {None}
    BY <1>2, <1>3, <1>4, <1>5 DEF StateType
  <2>2. drop' = drop /\ UNCHANGED <<json, iter, body, copy, job>>
    BY <1>3
  <2>3. QED BY <1>4, <2>1, <2>2
<1>15. Good(heap', y, c2) /\ \A m \in Node : HeldF'[m] = y[m]
  BY <1>8, <1>10
<1>16. heap'.moved = heap.moved
  BY <1>8
<1>17. QED BY <1>6, <1>11, <1>12, <1>13, <1>14, <1>15, <1>16, EventStep

-----------------------------------------------------------------------------
(* Decref.                                                                 *)

(* The references that a call of Decref passes on to the thread: none, or those
   of the node that it frees. *)
PassedOn(n) == IF heap.ref[n] > 1 THEN Nothing ELSE Refs(heap.kids[n])

LEMMA RefsType ==
  ASSUME NEW f \in KidMaps
  PROVE  Refs(f) \in [Node -> Nat]
<1>1. \A m \in Node : Refs(f)[m] \in Nat
  BY KidMapsType, RefsCount
<1>2. Refs(f) = [m \in Node |-> Refs(f)[m]]
  BY DEF Refs
<1>3. QED BY <1>1, <1>2

LEMMA DecrefDrop ==
  ASSUME StateType, HeapType(heap), NEW t \in Thread, NEW n \in Node, Decref(t, n)
  PROVE  /\ PassedOn(n) \in [Node -> Nat]
         /\ drop' \in [Thread -> [Node -> Nat]]
         /\ \A s \in Thread \ {t} : drop'[s] = drop[s]
         /\ \A m \in Node : drop'[t][m] + One(n)[m] = drop[t][m] + PassedOn(n)[m]
         /\ drop[t][n] > 0
         /\ UNCHANGED <<json, iter, body, sent, parsed, copy, job>>
<1>1. /\ drop[t][n] > 0 /\ UNCHANGED <<json, iter, body, sent, parsed, copy, job>>
      /\ IF heap.ref[n] > 1
         THEN drop' = [drop EXCEPT ![t][n] = @ - 1]
         ELSE drop' = [drop EXCEPT ![t] = [Plus(drop[t], Refs(heap.kids[n])) EXCEPT ![n] = @ - 1]]
  BY DEF Decref
<1>2. drop \in [Thread -> [Node -> Nat]] /\ drop[t] \in [Node -> Nat]
  BY DEF StateType
<1>3. Refs(heap.kids[n]) \in [Node -> Nat]
  BY NodeMaps, RefsType
<1> DEFINE R == PassedOn(n)
           e == drop[t]
           g == [Plus(e, R) EXCEPT ![n] = Plus(e, R)[n] - 1]
<1>4. R \in [Node -> Nat]
  BY <1>3, OneNothing DEF PassedOn
<1>5. Plus(e, R) \in [Node -> Nat] /\ \A m \in Node : Plus(e, R)[m] = e[m] + R[m]
  <2> HIDE DEF R, e
  <2>1. e \in [Node -> Nat]
    BY <1>2 DEF e
  <2>2. QED BY <1>4, <2>1, PlusType
<1>6. Plus(e, R)[n] \in Nat \ {0}
  <2>1. e[n] \in Nat /\ e[n] > 0 /\ R[n] \in Nat
    BY <1>1, <1>2, <1>4
  <2>2. QED BY <1>5, <2>1
<1>7. /\ g \in [Node -> Nat]
      /\ \A m \in Node : g[m] + One(n)[m] = e[m] + R[m]
  <2> DEFINE p == Plus(e, R)
  <2> HIDE DEF R, e
  <2>1. p \in [Node -> Nat] /\ p[n] \in Nat \ {0} /\ \A m \in Node : p[m] = e[m] + R[m]
    BY <1>5, <1>6
  <2>2. g = [p EXCEPT ![n] = p[n] - 1]
    OBVIOUS
  <2> HIDE DEF p, g
  <2>3. g \in [Node -> Nat]
    BY <2>1, <2>2
  <2>4. \A m \in Node : g[m] + One(n)[m] = p[m]
    <3> TAKE m \in Node
    <3>1. One(n)[m] = IF m = n THEN 1 ELSE 0
      BY OneType
    <3>2. p[m] \in Nat
      BY <2>1
    <3>3. CASE m = n
      <4>1. g[n] = p[n] - 1
        BY <2>1, <2>2
      <4>2. QED BY <2>1, <3>1, <3>3, <4>1
    <3>4. CASE m # n
      <4>1. g[m] = p[m]
        BY <2>1, <2>2, <3>4
      <4>2. QED BY <3>1, <3>2, <3>4, <4>1
    <3>5. QED BY <3>3, <3>4
  <2>5. QED BY <2>1, <2>3, <2>4
<1>8. drop' = [drop EXCEPT ![t] = g]
  <2>1. CASE heap.ref[n] > 1
    <3>1. R = Nothing
      BY <2>1 DEF PassedOn
    <3>2. Plus(e, R) = e
      <4>1. \A m \in Node : Plus(e, R)[m] = e[m]
        <5> TAKE m \in Node
        <5>1. R[m] = 0 /\ e[m] \in Nat
          BY <1>2, <3>1, OneNothing
        <5>2. QED BY <1>5, <5>1
      <4>2. e \in [Node -> Nat]
        BY <1>2
      <4> HIDE DEF R, e
      <4>3. QED BY <1>5, <4>1, <4>2
    <3>3. g = [e EXCEPT ![n] = e[n] - 1]
      <4> HIDE DEF R, e
      <4>1. QED BY <3>2
    <3>4. drop' = [drop EXCEPT ![t][n] = drop[t][n] - 1]
      BY <1>1, <2>1
    <3>5. drop' = [drop EXCEPT ![t] = [drop[t] EXCEPT ![n] = drop[t][n] - 1]]
      BY <1>2, <3>4
    <3>6. QED BY <3>3, <3>5
  <2>2. CASE ~(heap.ref[n] > 1)
    <3>1. R = Refs(heap.kids[n])
      BY <2>2 DEF PassedOn
    <3>2. drop' = [drop EXCEPT ![t] = [Plus(drop[t], Refs(heap.kids[n])) EXCEPT
                                         ![n] = Plus(drop[t], Refs(heap.kids[n]))[n] - 1]]
      BY <1>1, <1>2, <2>2
    <3> HIDE DEF R
    <3>3. QED BY <3>1, <3>2
  <2>3. QED BY <2>1, <2>2
<1> HIDE DEF g
<1>9. /\ drop' \in [Thread -> [Node -> Nat]] /\ drop'[t] = g
      /\ \A s \in Thread \ {t} : drop'[s] = drop[s]
  BY <1>2, <1>7, <1>8
<1>10. QED BY <1>1, <1>4, <1>7, <1>9

LEMMA DecrefHeap ==
  ASSUME NEW col, Inv(col), NEW t \in Thread, NEW n \in Node, Decref(t, n), HeldF[n] > 0,
         HeldF' \in [Node -> Nat],
         \A m \in Node : HeldF'[m] + One(n)[m] = HeldF[m] + PassedOn(n)[m]
  PROVE  /\ Good(heap', HeldF', col)
         /\ heap'.moved = heap.moved
         /\ \A m \in Node : PassedOn(n)[m] > 0 => col[m] = col[n]
         /\ \A m \in Node : \/ m = n /\ HeldF[n] = 1
                            \/ /\ heap'.type[m] = heap.type[m] /\ heap'.kids[m] = heap.kids[m]
                               /\ m # n => heap'.ref[m] = heap.ref[m]
         /\ \A m \in Node : NonFree(heap', m) => NonFree(heap, m)
<1>1. Good(heap, HeldF, col) /\ HeapType(heap) /\ StateType /\ HeldF \in [Node -> Nat]
  BY HeldFType DEF Inv, Good
<1>2. NonFree(heap, n)
  BY <1>1, HeldNonFree
<1> DEFINE G == heap'
           y == HeldF'
<1>3. CASE heap.ref[n] > 1
  <2>1. PassedOn(n) = Nothing
    BY <1>3 DEF PassedOn
  <2>2. \A m \in Node : PassedOn(n)[m] = 0
    BY <2>1, OneNothing
  <2>3. DecrefForm(heap, n, G)
    <3>1. heap' = [heap EXCEPT !.ref[n] = @ - 1]
      BY <1>3 DEF Decref
    <3>2. DecrefForm(heap, n, [heap EXCEPT !.ref[n] = @ - 1])
      BY <1>1, DecrefForms
    <3>3. QED BY ONLY <3>1, <3>2
  <2>4. y \in [Node -> Nat] /\ \A m \in Node : y[m] + One(n)[m] = HeldF[m]
    BY <1>1, <2>2
  <2> HIDE DEF G, y
  <2>5. /\ Good(G, y, col)
        /\ G.type = heap.type /\ G.kids = heap.kids /\ G.moved = heap.moved
        /\ \A m \in Node \ {n} : G.ref[m] = heap.ref[m]
    BY <1>1, <1>3, <2>3, <2>4, DecrefGood
  <2>6. QED BY <2>2, <2>5 DEF G, y, NonFree
<1>4. CASE ~(heap.ref[n] > 1)
  <2>1. PassedOn(n) = Refs(heap.kids[n])
    BY <1>4 DEF PassedOn
  <2>2. FreeForm(heap, n, G)
    <3>1. heap' = [heap EXCEPT !.ref[n] = 0, !.type[n] = "Free", !.kids[n] = NoKids]
      BY <1>4 DEF Decref
    <3>2. FreeForm(heap, n, [heap EXCEPT !.ref[n] = 0, !.type[n] = "Free", !.kids[n] = NoKids])
      BY <1>1, DecrefForms
    <3>3. QED BY ONLY <3>1, <3>2
  <2>3. y \in [Node -> Int] /\ \A m \in Node : y[m] + One(n)[m] = HeldF[m] + Refs(heap.kids[n])[m]
    BY <2>1
  <2> HIDE DEF G, y
  <2>4. /\ Good(G, y, col)
        /\ G.moved = heap.moved /\ HeldF[n] = 1
        /\ \A m \in Node \ {n} :
              G.type[m] = heap.type[m] /\ G.kids[m] = heap.kids[m] /\ G.ref[m] = heap.ref[m]
        /\ \A m \in Node : Refs(heap.kids[n])[m] > 0 => col[m] = col[n]
    BY <1>1, <1>4, <2>2, <2>3, FreeGood
  <2>5. \A m \in Node : NonFree(G, m) => NonFree(heap, m)
    BY <1>2, <2>4 DEF NonFree
  <2>6. QED BY <2>1, <2>4, <2>5 DEF G, y
<1>5. QED BY <1>3, <1>4

LEMMA EventDecrefKeeps ==
  ASSUME NEW col, Inv(col), NEW n \in Node, Decref("event", n)
  PROVE  DataInv'
<1>1. StateType /\ HeapType(heap) /\ RootsOK(col) /\ col \in [Node -> Group]
      /\ "event" \in Thread /\ "game" \in Thread \ {"event"}
  BY DEF Inv, Good, Thread
<1> DEFINE R == PassedOn(n)
           t == "event"
<1>2. /\ R \in [Node -> Nat]
      /\ drop' \in [Thread -> [Node -> Nat]]
      /\ drop'["game"] = drop["game"]
      /\ \A m \in Node : drop'["event"][m] + One(n)[m] = drop["event"][m] + R[m]
      /\ drop["event"][n] > 0
      /\ UNCHANGED <<json, iter, body, sent, parsed, copy, job>>
  <2>1. /\ R \in [Node -> Nat]
        /\ drop' \in [Thread -> [Node -> Nat]]
        /\ \A s \in Thread \ {t} : drop'[s] = drop[s]
        /\ \A m \in Node : drop'[t][m] + One(n)[m] = drop[t][m] + R[m]
        /\ drop[t][n] > 0
        /\ UNCHANGED <<json, iter, body, sent, parsed, copy, job>>
    <3>1. t \in Thread /\ Decref(t, n)
      BY <1>1
    <3> HIDE DEF t
    <3>2. QED BY <1>1, <3>1, DecrefDrop
  <2>2. QED BY <1>1, <2>1
<1> HIDE DEF R
<1>3. ASSUME NEW m \in Node
      PROVE  /\ HeldF'[m] + One(n)[m] = HeldF[m] + R[m]
             /\ HeldF'[m] \in Nat
             /\ EventHolds(m)' > 0 => EventHolds(m) > 0 \/ R[m] > 0
             /\ drop["event"][m] > 0 => EventHolds(m) > 0 /\ HeldF[m] > 0
  <2>1. /\ HeldF'[m] + One(sent)[m] + One(parsed)[m] + drop["event"][m]
           = HeldF[m] + One(sent')[m] + One(parsed')[m] + drop'["event"][m]
        /\ HeldF'[m] \in Nat /\ HeldF[m] \in Nat
        /\ drop["event"][m] \in Nat /\ drop'["event"][m] \in Nat
        /\ EventHolds(m) = One(sent)[m] + drop["event"][m]
        /\ EventHolds(m)' = One(sent')[m] + drop'["event"][m]
    BY <1>1, <1>2, HeldByEvent
  <2>2. /\ HeldF[m] = PluginHolds(m) + One(body)[m] + One(sent)[m] + One(parsed)[m]
                      + One(copy.root)[m] + drop["event"][m]
        /\ PluginHolds(m) \in Nat
    BY <1>1, HeldParts
  <2>3. /\ One(sent)[m] \in Nat /\ One(parsed)[m] \in Nat /\ One(sent')[m] = One(sent)[m]
        /\ One(parsed')[m] = One(parsed)[m] /\ One(n)[m] \in Nat
        /\ One(body)[m] \in Nat /\ One(copy.root)[m] \in Nat
    BY <1>2, OneType
  <2> DEFINE e == drop["event"][m]
             d == drop'["event"][m]
  <2>4. /\ HeldF'[m] + One(sent)[m] + One(parsed)[m] + e = HeldF[m] + One(sent)[m] + One(parsed)[m] + d
        /\ d + One(n)[m] = e + R[m] /\ e \in Nat /\ d \in Nat /\ R[m] \in Nat
        /\ EventHolds(m) = One(sent)[m] + e /\ EventHolds(m)' = One(sent)[m] + d
        /\ HeldF[m] = PluginHolds(m) + One(body)[m] + One(sent)[m] + One(parsed)[m]
                      + One(copy.root)[m] + e
        /\ HeldF'[m] \in Nat /\ HeldF[m] \in Nat
    BY <1>2, <2>1, <2>2, <2>3
  <2> HIDE DEF d, e
  <2>5. /\ HeldF'[m] + One(n)[m] = HeldF[m] + R[m]
        /\ EventHolds(m)' > 0 => EventHolds(m) > 0 \/ R[m] > 0
        /\ e > 0 => EventHolds(m) > 0 /\ HeldF[m] > 0
    <3> DEFINE a == One(sent)[m]
               b == One(parsed)[m]
               u == HeldF'[m]
               v == HeldF[m]
               z == PluginHolds(m) + One(body)[m] + One(copy.root)[m]
    <3>1. /\ u + a + b + e = v + a + b + d /\ d + One(n)[m] = e + R[m]
          /\ e \in Nat /\ d \in Nat /\ R[m] \in Nat /\ a \in Nat /\ b \in Nat
          /\ One(n)[m] \in Nat /\ u \in Nat /\ v \in Nat
      BY <2>3, <2>4
    <3>2. EventHolds(m) = a + e /\ EventHolds(m)' = a + d
      BY <2>4
    <3>3. v = z + a + b + e /\ z \in Nat
      BY <2>2, <2>3, <2>4
    <3> HIDE DEF a, b, u, v, z
    <3>4. u + One(n)[m] = v + R[m]
      BY <3>1
    <3>5. a + d > 0 => a + e > 0 \/ R[m] > 0
      BY <3>1
    <3>6. e > 0 => a + e > 0 /\ v > 0
      BY <3>1, <3>3
    <3>7. QED BY <3>2, <3>4, <3>5, <3>6 DEF u, v
  <2>6. QED BY <2>4, <2>5 DEF e
<1>4. HeldF' \in [Node -> Nat] /\ HeldF[n] > 0 /\ EventHolds(n) > 0
  BY <1>2, <1>3, HeldFNat
<1>5. col[n] = "event"
  BY <1>1, <1>4 DEF RootsOK
<1>6. /\ Good(heap', HeldF', col)
      /\ heap'.moved = heap.moved
      /\ \A m \in Node : R[m] > 0 => col[m] = col[n]
      /\ \A m \in Node : \/ m = n /\ HeldF[n] = 1
                         \/ /\ heap'.type[m] = heap.type[m] /\ heap'.kids[m] = heap.kids[m]
                            /\ m # n => heap'.ref[m] = heap.ref[m]
      /\ \A m \in Node : NonFree(heap', m) => NonFree(heap, m)
  <2> USE DEF R
  <2>1. t \in Thread /\ Decref(t, n)
    BY <1>1
  <2> HIDE DEF t
  <2>2. QED BY <1>3, <1>4, <2>1, DecrefHeap
<1>7. Untouched(col)
  BY <1>5, <1>6 DEF Untouched
<1> DEFINE y == HeldF'
<1>8. Good(heap', y, col) /\ \A m \in Node : HeldF'[m] = y[m]
  BY <1>6
<1> HIDE DEF y
<1>9. /\ \A m \in Node : NonFree(heap', m) => NonFree(heap, m) \/ col[m] # "copy"
      /\ \A m \in Node :
            /\ m = parsed' => m = parsed \/ col[m] = "parsed"
            /\ EventHolds(m)' > 0 => EventHolds(m) > 0 \/ col[m] = "event"
  BY <1>2, <1>3, <1>5, <1>6
<1>10. sent' \in Node \cup {None} /\ parsed' \in Node \cup {None}
       /\ UNCHANGED <<json, iter, body, copy, job>>
  BY <1>1, <1>2 DEF StateType
<1>11. heap'.moved = heap.moved /\ drop' \in [Thread -> [Node -> Nat]]
       /\ drop'["game"] = drop["game"]
  BY <1>2, <1>6
<1>12. QED BY <1>1, <1>7, <1>8, <1>9, <1>10, <1>11, EventStep

LEMMA HeldByGame ==
  ASSUME StateType, UNCHANGED <<json, iter, body, sent, parsed, copy>>,
         drop' \in [Thread -> [Node -> Nat]], drop'["event"] = drop["event"], NEW m \in Node
  PROVE  /\ HeldF'[m] + drop["game"][m] = HeldF[m] + drop'["game"][m]
         /\ PluginHolds(m)' + drop["game"][m] = PluginHolds(m) + drop'["game"][m]
         /\ HeldF'[m] \in Nat /\ HeldF[m] \in Nat /\ PluginHolds(m) \in Nat /\ PluginHolds(m)' \in Nat
         /\ drop["game"][m] \in Nat /\ drop'["game"][m] \in Nat
         /\ EventHolds(m)' = EventHolds(m)
         /\ HeldF[m] >= drop["game"][m] + Refs(json)[m] + One(iter.node)[m]
         /\ Refs(json)[m] \in Nat /\ One(iter.node)[m] \in Nat
<1>1. /\ HeldF[m] = PluginHolds(m) + One(body)[m] + One(sent)[m] + One(parsed)[m]
                       + One(copy.root)[m] + drop["event"][m]
      /\ HeldF[m] \in Nat
      /\ PluginHolds(m) \in Nat /\ drop["event"][m] \in Nat
      /\ EventHolds(m) = One(sent)[m] + drop["event"][m]
      /\ PluginHolds(m) = Refs(json)[m] + One(iter.node)[m] + drop["game"][m]
      /\ Refs(json)[m] \in Nat /\ drop["game"][m] \in Nat
  BY HeldParts
<1>2. drop'["game"][m] \in Nat
  BY DEF Thread
<1>3. /\ One(body)[m] \in Nat /\ One(sent)[m] \in Nat /\ One(parsed)[m] \in Nat
      /\ One(copy.root)[m] \in Nat /\ One(iter.node)[m] \in Nat
  BY OneType
<1>4. HeldF'[m] = Refs(json)[m] + One(iter.node)[m] + One(body)[m] + One(sent)[m]
                  + One(parsed)[m] + One(copy.root)[m] + drop'["game"][m] + drop["event"][m]
  BY DEF HeldF, Held
<1>5. /\ EventHolds(m)' = One(sent)[m] + drop["event"][m]
      /\ PluginHolds(m)' = Refs(json)[m] + One(iter.node)[m] + drop'["game"][m]
  BY DEF EventHolds, PluginHolds
<1> DEFINE p == Refs(json)[m] + One(iter.node)[m]
           q == One(body)[m] + One(sent)[m] + One(parsed)[m] + One(copy.root)[m] + drop["event"][m]
           d == drop["game"][m]
           e == drop'["game"][m]
<1>6. /\ HeldF'[m] = p + q + e /\ PluginHolds(m)' = p + e
      /\ HeldF[m] = p + q + d /\ PluginHolds(m) = p + d
      /\ p \in Nat /\ q \in Nat /\ d \in Nat /\ e \in Nat
  <2> DEFINE a1 == Refs(json)[m]
             a2 == One(iter.node)[m]
             a3 == One(body)[m]
             a4 == One(sent)[m]
             a5 == One(parsed)[m]
             a6 == One(copy.root)[m]
             a7 == drop["event"][m]
  <2>1. /\ HeldF[m] = PluginHolds(m) + a3 + a4 + a5 + a6 + a7
        /\ PluginHolds(m) = a1 + a2 + d
        /\ a1 \in Nat /\ a2 \in Nat /\ a3 \in Nat /\ a4 \in Nat /\ a5 \in Nat /\ a6 \in Nat
        /\ a7 \in Nat /\ d \in Nat /\ e \in Nat
        /\ p = a1 + a2 /\ q = a3 + a4 + a5 + a6 + a7
    BY <1>1, <1>2, <1>3
  <2>2. HeldF'[m] = a1 + a2 + a3 + a4 + a5 + a6 + e + a7
    BY <1>4
  <2>3. PluginHolds(m)' = a1 + a2 + e
    BY <1>5
  <2> HIDE DEF a1, a2, a3, a4, a5, a6, a7, p, q, d, e
  <2>4. HeldF'[m] = p + q + e
    BY <2>1, <2>2
  <2>5. QED BY <2>1, <2>3, <2>4
<1> HIDE DEF p, q, d, e
<1>7. /\ HeldF'[m] + d = HeldF[m] + e /\ PluginHolds(m)' + d = PluginHolds(m) + e
      /\ HeldF'[m] \in Nat /\ PluginHolds(m)' \in Nat /\ HeldF[m] >= d + p
  BY <1>6
<1>8. HeldF[m] >= drop["game"][m] + Refs(json)[m] + One(iter.node)[m]
  BY <1>1, <1>3, <1>7 DEF d, p
<1>9. QED BY <1>1, <1>2, <1>3, <1>5, <1>7, <1>8 DEF d, e

LEMMA GameDecrefKeeps ==
  ASSUME NEW col, Inv(col), NEW n \in Node, Decref("game", n)
  PROVE  DataInv'
<1>1. StateType /\ HeapType(heap) /\ RootsOK(col) /\ col \in [Node -> Group] /\ JobInv
      /\ "game" \in Thread /\ "event" \in Thread \ {"game"}
  BY DEF Inv, Good, Thread
<1> DEFINE R == PassedOn(n)
           t == "game"
<1>2. /\ R \in [Node -> Nat]
      /\ drop' \in [Thread -> [Node -> Nat]]
      /\ drop'["event"] = drop["event"]
      /\ \A m \in Node : drop'["game"][m] + One(n)[m] = drop["game"][m] + R[m]
      /\ drop["game"][n] > 0
      /\ UNCHANGED <<json, iter, body, sent, parsed, copy, job>>
  <2>1. /\ R \in [Node -> Nat]
        /\ drop' \in [Thread -> [Node -> Nat]]
        /\ \A s \in Thread \ {t} : drop'[s] = drop[s]
        /\ \A m \in Node : drop'[t][m] + One(n)[m] = drop[t][m] + R[m]
        /\ drop[t][n] > 0
        /\ UNCHANGED <<json, iter, body, sent, parsed, copy, job>>
    <3>1. t \in Thread /\ Decref(t, n)
      BY <1>1
    <3> HIDE DEF t
    <3>2. QED BY <1>1, <3>1, DecrefDrop
  <2>2. QED BY <1>1, <2>1
<1> HIDE DEF R
<1>3. ASSUME NEW m \in Node
      PROVE  /\ HeldF'[m] + One(n)[m] = HeldF[m] + R[m]
             /\ HeldF'[m] \in Nat
             /\ PluginHolds(m)' > 0 => PluginHolds(m) > 0 \/ R[m] > 0
             /\ EventHolds(m)' = EventHolds(m)
  <2>1. /\ HeldF'[m] + drop["game"][m] = HeldF[m] + drop'["game"][m]
        /\ PluginHolds(m)' + drop["game"][m] = PluginHolds(m) + drop'["game"][m]
        /\ HeldF'[m] \in Nat /\ HeldF[m] \in Nat /\ PluginHolds(m) \in Nat /\ PluginHolds(m)' \in Nat
        /\ drop["game"][m] \in Nat /\ drop'["game"][m] \in Nat
        /\ EventHolds(m)' = EventHolds(m)
    BY <1>1, <1>2, HeldByGame
  <2>2. One(n)[m] \in Nat /\ R[m] \in Nat /\ drop'["game"][m] + One(n)[m] = drop["game"][m] + R[m]
    BY <1>2, OneType
  <2> DEFINE d == drop["game"][m]
             e == drop'["game"][m]
             u == HeldF'[m]
             v == PluginHolds(m)'
  <2>3. /\ u + d = HeldF[m] + e /\ v + d = PluginHolds(m) + e /\ e + One(n)[m] = d + R[m]
        /\ u \in Nat /\ HeldF[m] \in Nat /\ PluginHolds(m) \in Nat /\ v \in Nat
        /\ d \in Nat /\ e \in Nat
    BY <2>1, <2>2
  <2> HIDE DEF d, e, u, v
  <2>4. u + One(n)[m] = HeldF[m] + R[m] /\ (v > 0 => PluginHolds(m) > 0 \/ R[m] > 0)
    BY <2>2, <2>3
  <2>5. QED BY <2>1, <2>4 DEF u, v
<1>4. /\ HeldF' \in [Node -> Nat]
      /\ HeldF[n] > 0 /\ PluginHolds(n) > 0
      /\ HeldF[n] = 1 => Refs(json)[n] = 0 /\ n # iter.node
  <2>1. /\ PluginHolds(n) \in Nat /\ HeldF[n] \in Nat /\ drop["game"][n] \in Nat
        /\ HeldF[n] >= drop["game"][n] + Refs(json)[n] + One(iter.node)[n]
        /\ Refs(json)[n] \in Nat /\ One(iter.node)[n] \in Nat
        /\ PluginHolds(n) = Refs(json)[n] + One(iter.node)[n] + drop["game"][n]
    BY <1>1, <1>2, HeldByGame, HeldParts
  <2>2. n = iter.node => One(iter.node)[n] = 1
    BY OneType
  <2>3. HeldF' \in [Node -> Nat]
    BY <1>3, HeldFNat
  <2> DEFINE d == drop["game"][n]
             i == One(iter.node)[n]
             j == Refs(json)[n]
  <2>4. /\ d > 0 /\ d \in Nat /\ i \in Nat /\ j \in Nat /\ HeldF[n] \in Nat
        /\ HeldF[n] >= d + j + i /\ PluginHolds(n) = j + i + d
    BY <1>2, <2>1
  <2> HIDE DEF d, i, j
  <2>5. HeldF[n] > 0 /\ PluginHolds(n) > 0 /\ (HeldF[n] = 1 => j = 0 /\ i # 1)
    BY <2>4
  <2>6. QED BY <2>2, <2>3, <2>5 DEF i, j
<1>5. col[n] = "plugin"
  BY <1>1, <1>4 DEF RootsOK
<1>6. copy = NoCopy
  <2>1. Nothing[n] = 0
    BY OneNothing
  <2>2. QED BY <1>1, <1>2, <2>1 DEF JobInv
<1>7. /\ Good(heap', HeldF', col)
      /\ heap'.moved = heap.moved
      /\ \A m \in Node : R[m] > 0 => col[m] = col[n]
      /\ \A m \in Node : \/ m = n /\ HeldF[n] = 1
                         \/ /\ heap'.type[m] = heap.type[m] /\ heap'.kids[m] = heap.kids[m]
                            /\ m # n => heap'.ref[m] = heap.ref[m]
      /\ \A m \in Node : NonFree(heap', m) => NonFree(heap, m)
  <2> USE DEF R
  <2>1. t \in Thread /\ Decref(t, n)
    BY <1>1
  <2> HIDE DEF t
  <2>2. QED BY <1>3, <1>4, <2>1, DecrefHeap
<1>8. \A m \in Node : Refs(json)[m] > 0 \/ m = iter.node =>
         heap'.type[m] = heap.type[m] /\ heap'.kids[m] = heap.kids[m]
  BY <1>4, <1>7
<1>9. JobInv'
  <2>1. job.op \in {"Merge", "Extend"} =>
            /\ heap'.type[Target] = heap.type[Target]
            /\ heap'.type[Source] = heap.type[Source]
            /\ heap'.kids[Source] = heap.kids[Source]
    BY <1>8, LoopNodes
  <2>2. copy' = NoCopy /\ UNCHANGED <<json, iter, job>>
    BY <1>2, <1>6
  <2>3. QED BY <1>1, <2>1, <2>2, JobKept
<1>10. CopyInv(col)'
  <2>1. \A m \in Node : NonFree(heap', m) => col[m] # "copy"
    BY <1>6, <1>7, NoCopyColour
  <2>2. copy' = NoCopy
    BY <1>2, <1>6
  <2>3. QED BY <2>1, <2>2, NoCopyNext
<1>11. IterKeeps(heap, heap')
  BY <1>7, <1>8 DEF IterKeeps
<1>12. StateType'
  BY <1>1, <1>2 DEF StateType
<1>13. \A m \in Node :
            /\ PluginHolds(m)' > 0 => PluginHolds(m) > 0 \/ col[m] = "plugin"
            /\ m = copy'.root => col[m] = "copy"
            /\ m = parsed' => m = parsed \/ col[m] = "parsed"
            /\ EventHolds(m)' > 0 => EventHolds(m) > 0 \/ col[m] = "event"
  <2> TAKE m \in Node
  <2>1. m = copy.root => col[m] = "copy"
    BY RootFacts
  <2>2. QED BY <1>2, <1>3, <1>5, <1>7, <2>1
<1>14. iter' = iter /\ body' = body
  BY <1>2
<1> DEFINE y == HeldF'
<1>15. Good(heap', y, col) /\ \A m \in Node : HeldF'[m] = y[m]
  BY <1>7
<1> HIDE DEF y
<1>16. QED BY <1>1, <1>9, <1>10, <1>11, <1>12, <1>13, <1>14, <1>15, AnyStep

-----------------------------------------------------------------------------
(* The invariant holds at first, and every step keeps it.                  *)

LEMMA BlankFacts ==
  /\ HeapType(Blank)
  /\ \A n \in Node : /\ Blank.type[n] = "Free" /\ Blank.ref[n] = 0 /\ Blank.kids[n] = NoKids
                     /\ Kids(Blank, n) = {} /\ Links(Blank, n) = {}
  /\ Blank.moved = FALSE
<1>1. /\ \A n \in Node : Blank.type[n] = "Free" /\ Blank.ref[n] = 0 /\ Blank.kids[n] = NoKids
      /\ Blank.moved = FALSE
  BY DEF Blank
<1>2. DOMAIN NoKids = {} /\ NoKids \in KidMaps
  BY NoKidsType
<1>3. HeapType(Blank)
  <2>1. /\ Blank.type \in [Node -> Containers \cup {"Int", "Free"}] /\ Blank.ref \in [Node -> Nat]
        /\ Blank.kids \in [Node -> KidMaps] /\ Blank.moved \in BOOLEAN
        /\ Blank = [type |-> Blank.type, ref |-> Blank.ref, kids |-> Blank.kids,
                    moved |-> Blank.moved]
    BY <1>2 DEF Blank
  <2>2. \A n \in Node : WellFormed(Blank.type[n], DOMAIN Blank.kids[n])
    <3>1. WellFormed("Free", {})
      BY DEF WellFormed, Maps
    <3>2. QED BY <1>1, <1>2, <3>1
  <2> DEFINE B == Blank
  <2> HIDE DEF B
  <2>3. B \in [type : [Node -> Containers \cup {"Int", "Free"}], ref : [Node -> Nat],
               kids : [Node -> KidMaps], moved : BOOLEAN]
    BY <2>1 DEF B
  <2>4. QED BY <2>2, <2>3 DEF B, HeapType
<1>4. \A n \in Node : Kids(Blank, n) = {} /\ Links(Blank, n) = {}
  BY <1>1, <1>2 DEF Kids, Links
<1>5. QED BY <1>1, <1>3, <1>4

LEMMA InitHolds == Init => DataInv
<1> SUFFICES ASSUME Init
             PROVE  DataInv
  OBVIOUS
<1> DEFINE col == [n \in Node |-> "plugin"]
<1>1. /\ heap = Blank /\ json = [h \in Handle |-> None] /\ iter = NoIter
      /\ body = None /\ sent = None /\ parsed = None
      /\ drop = [t \in Thread |-> Nothing] /\ copy = NoCopy /\ job = NoJob
  BY DEF Init
<1>2. col \in [Node -> Group] /\ \A n \in Node : col[n] = "plugin"
  BY DEF Group
<1> HIDE DEF col
<1>3. NoKids \in UNION {[S -> Node] : S \in SUBSET Node}
  <2>1. NoKids \in [{} -> Node]
    BY DEF NoKids
  <2>2. QED BY <2>1
<1>4. StateType
  <2>1. json \in [Handle -> Node \cup {None}]
    BY <1>1
  <2>2. iter \in [slot : Handle \cup {None}, node : Node \cup {None}, todo : SUBSET Key,
                  keys : SUBSET Key, value : Node \cup {None}]
    BY <1>1 DEF NoIter
  <2>3. drop \in [Thread -> [Node -> Nat]]
    BY <1>1, OneNothing
  <2>4. copy \in [root : Node \cup {None}, of : UNION {[S -> Node] : S \in SUBSET Node}]
    BY <1>1, <1>3 DEF NoCopy
  <2>5. job \in [op : {"None", "Copy", "Body", "Send", "Merge", "Extend"},
                 h : Handle \cup {None}, o : Handle \cup {None}, todo : SUBSET Slot,
                 overwrite : BOOLEAN]
    BY <1>1 DEF NoJob
  <2>6. {body, sent, parsed} \subseteq Node \cup {None}
    BY <1>1
  <2>7. QED BY <2>1, <2>2, <2>3, <2>4, <2>5, <2>6 DEF StateType
<1>5. ASSUME NEW n \in Node
      PROVE  HeldF[n] = 0 /\ PluginHolds(n) = 0 /\ EventHolds(n) = 0
  <2>1. None \notin Node
    BY DataAssumption
  <2>2. One(None)[n] = 0
    BY OneNothing
  <2>3. Refs(json)[n] = 0
    <3>1. IsFiniteSet(DOMAIN json) /\ \A h \in DOMAIN json : json[h] = None
      BY <1>1, DataAssumption
    <3>2. Refs(json)[n] \in Nat /\ (Refs(json)[n] > 0 <=> \E h \in DOMAIN json : json[h] = n)
      BY <3>1, RefsCount
    <3>3. QED BY <2>1, <3>1, <3>2
  <2>4. drop["game"][n] = 0 /\ drop["event"][n] = 0
    BY <1>1, OneNothing DEF Thread
  <2>5. iter.node = None /\ copy.root = None
    BY <1>1, NoIterFacts, NoCopyFacts
  <2>6. PluginHolds(n) = 0 + 0 + 0
    BY <2>2, <2>3, <2>4, <2>5 DEF PluginHolds
  <2>7. EventHolds(n) = 0 + 0
    BY <1>1, <2>2, <2>4 DEF EventHolds
  <2>8. HeldF[n] = 0 + 0 + 0 + 0 + 0 + 0
    <3>1. HeldF[n] = PluginHolds(n) + One(body)[n] + One(sent)[n] + One(parsed)[n]
                       + One(copy.root)[n] + drop["event"][n]
      BY <1>4, HeldParts
    <3>2. QED BY <1>1, <2>2, <2>4, <2>5, <2>6, <3>1
  <2>9. QED BY <2>6, <2>7, <2>8
<1>6. Good(heap, HeldF, col)
  <2>1. HeldF \in [Node -> Nat]
    BY <1>4, HeldFType
  <2>2. Balanced(heap, HeldF)
    <3> SUFFICES ASSUME NEW n \in Node
                 PROVE  /\ heap.ref[n] = Cardinality(Links(heap, n)) + HeldF[n]
                        /\ heap.type[n] = "Free" <=> heap.ref[n] = 0
      BY DEF Balanced
    <3>1. Cardinality(Links(heap, n)) = 0
      BY <1>1, BlankFacts, FS_EmptySet
    <3>2. QED BY <1>1, <1>5, <3>1, BlankFacts
  <2>3. NoCycle(heap)
    BY <1>1, BlankFacts DEF NoCycle
  <2>4. Coloured(heap, col)
    BY <1>1, BlankFacts DEF Coloured
  <2>5. QED BY <1>1, <1>2, <2>1, <2>2, <2>3, <2>4, BlankFacts DEF Good
<1>7. RootsOK(col)
  <2>1. None \notin Node /\ copy.root = None
    BY <1>1, DataAssumption, NoCopyFacts
  <2>2. QED BY <1>1, <1>5, <2>1 DEF RootsOK
<1>8. CopyInv(col)
  <2>1. \A n \in Node : ~NonFree(heap, n)
    BY <1>1, BlankFacts DEF NonFree
  <2>2. DOMAIN copy.of = {}
    BY <1>1, NoCopyFacts
  <2>3. QED BY <1>1, <2>1, <2>2 DEF CopyInv
<1>9. JobInv
  BY <1>1, NoJobFacts DEF JobInv
<1>10. IterOK
  <2>1. iter.node = None /\ iter.todo = {} /\ iter.keys = {} /\ None \notin Node
    BY <1>1, NoIterFacts, DataAssumption
  <2>2. QED BY <2>1 DEF IterOK, IterFresh, Advances
<1>11. Inv(col)
  BY <1>4, <1>6, <1>7, <1>8, <1>9, <1>10 DEF Inv
<1>12. QED BY <1>2, <1>11 DEF DataInv

LEMMA NativesKeep ==
  ASSUME NEW col, Inv(col), job = NoJob, drop["game"] = Nothing, Natives
  PROVE  DataInv'
<1>1. CASE \/ \E t \in Containers : Native_JsonCreate(t)
           \/ Native_JsonParseString
  BY <1>1, CreateKeeps, ParseKeeps
<1>2. CASE \E h, o \in Handle, overwrite \in BOOLEAN :
              \/ Native_JsonObjectMerge(h, o, overwrite)
              \/ Native_IntMapMerge(h, o, overwrite)
  BY <1>2, LoopKeeps
<1>3. CASE \E h, o \in Handle : Native_JsonArrayExtend(h, o) \/ Native_JsonArrayAppendObject(h, o)
  BY <1>3, LoopKeeps, SetNodeKeeps
<1>4. CASE \/ \E h, c \in Handle, k \in Key :
                 Native_JsonSetObject(h, k, c) \/ Native_IntMapSetObject(h, k, c)
           \/ \E h, c \in Handle, i \in Index : Native_JsonArraySetObject(h, i, c)
  BY <1>4, SetNodeKeeps
<1>5. CASE \E h \in Handle, k \in Key :
              \/ Native_JsonGet(h, k) \/ Native_IntMapGet(h, k)
              \/ Native_JsonSet(h, k) \/ Native_IntMapSet(h, k)
              \/ Native_JsonRemoveKey(h, k) \/ Native_IntMapRemoveKey(h, k)
  <2>1. PICK h \in Handle, k \in Key :
              \/ Native_JsonGet(h, k) \/ Native_IntMapGet(h, k)
              \/ Native_JsonSet(h, k) \/ Native_IntMapSet(h, k)
              \/ Native_JsonRemoveKey(h, k) \/ Native_IntMapRemoveKey(h, k)
    BY <1>5
  <2>2. CASE Native_JsonGet(h, k) \/ Native_IntMapGet(h, k)
    BY <2>2, GetKeeps DEF Native_JsonGet, Native_IntMapGet
  <2>3. CASE Native_JsonSet(h, k) \/ Native_IntMapSet(h, k)
    BY <2>3, SetKeeps
  <2>4. CASE Native_JsonRemoveKey(h, k) \/ Native_IntMapRemoveKey(h, k)
    BY <2>4, RemoveKeeps
  <2>5. QED BY <2>1, <2>2, <2>3, <2>4
<1>6. CASE \E h \in Handle, i \in Index :
              Native_JsonArrayGet(h, i) \/ Native_JsonArraySet(h, i) \/ Native_JsonArrayRemove(h, i)
  <2>1. PICK h \in Handle, i \in Index :
              Native_JsonArrayGet(h, i) \/ Native_JsonArraySet(h, i) \/ Native_JsonArrayRemove(h, i)
    BY <1>6
  <2>2. CASE Native_JsonArrayGet(h, i)
    BY <2>2, GetKeeps DEF Native_JsonArrayGet
  <2>3. CASE Native_JsonArraySet(h, i)
    BY <2>3, SetKeeps
  <2>4. CASE Native_JsonArrayRemove(h, i)
    BY <2>4, RemoveKeeps
  <2>5. QED BY <2>1, <2>2, <2>3, <2>4
<1>7. CASE \E h \in Handle :
              \/ Native_JsonClose(h) \/ Native_JsonRef(h) \/ Native_JsonCopy(h)
              \/ Native_JsonPathGet(h)
              \/ Native_JsonArrayAppend(h) \/ Native_JsonObjectClear(h)
              \/ Native_IntMapClear(h) \/ Native_JsonArrayClear(h)
              \/ Native_IterCreate(h)
              \/ Native_SetBodyJSON(h) \/ WsSendNode(h) \/ SendRefused(h)
  <2>1. PICK h \in Handle :
              \/ Native_JsonClose(h) \/ Native_JsonRef(h) \/ Native_JsonCopy(h)
              \/ Native_JsonPathGet(h)
              \/ Native_JsonArrayAppend(h) \/ Native_JsonObjectClear(h)
              \/ Native_IntMapClear(h) \/ Native_JsonArrayClear(h)
              \/ Native_IterCreate(h)
              \/ Native_SetBodyJSON(h) \/ WsSendNode(h) \/ SendRefused(h)
    BY <1>7
  <2>2. CASE Native_JsonClose(h) \/ SendRefused(h)
    BY <2>2, CloseKeeps
  <2>3. CASE Native_JsonRef(h) \/ Native_JsonPathGet(h)
    BY <2>3, GetKeeps
  <2>4. CASE Native_JsonCopy(h) \/ Native_SetBodyJSON(h) \/ WsSendNode(h)
    BY <2>4, BeginCopyKeeps
  <2>5. CASE Native_JsonArrayAppend(h)
    BY <2>5, SetKeeps
  <2>6. CASE Native_JsonObjectClear(h) \/ Native_IntMapClear(h) \/ Native_JsonArrayClear(h)
    BY <2>6, RemoveKeeps
  <2>7. CASE Native_IterCreate(h)
    BY <2>7, IterCreateKeeps
  <2>8. QED BY <2>1, <2>2, <2>3, <2>4, <2>5, <2>6, <2>7
<1>8. CASE \/ \E k \in Key : Native_IterNext(k)
           \/ Native_IterGetObject \/ Native_IterClose
  BY <1>8, IterNextKeeps, IterGetKeeps, IterCloseKeeps
<1>9. CASE \/ DropBody \/ Native_HttpExecute
           \/ \E b \in BOOLEAN : Deliver(b)
  BY <1>9, DropBodyKeeps, ExecuteKeeps, DeliverKeeps
<1>10. QED BY <1>1, <1>2, <1>3, <1>4, <1>5, <1>6, <1>7, <1>8, <1>9 DEF Natives

LEMMA NextKeeps == DataInv /\ [Next]_vars => DataInv'
<1> SUFFICES ASSUME NEW col, Inv(col), [Next]_vars, col \in [Node -> Group]
             PROVE  DataInv'
  BY DEF DataInv
<1>1. CASE GameThread
  <2>1. CASE drop["game"] = Nothing /\ job = NoJob /\ Natives
    BY <2>1, NativesKeep
  <2>2. CASE \E d \in DOMAIN copy.of, k \in Slot : DeepCopy(d, k)
    BY <2>2, DeepCopyKeeps
  <2>3. CASE \E k \in Slot : MergeKeep(k) \/ MergeRelease(k) \/ CopyNext(k) \/ Store(k)
    BY <2>3, MergeKeepKeeps, MergeReleaseKeeps, CopyNextKeeps, StoreKeeps
  <2>4. CASE ReturnCopy \/ SetBodyNode \/ EnqueueWsOp
    BY <2>4, ReturnCopyKeeps, SetBodyKeeps, EnqueueKeeps
  <2>5. CASE \E n \in Node : Decref("game", n)
    BY <2>5, GameDecrefKeeps
  <2>6. QED BY <1>1, <2>1, <2>2, <2>3, <2>4, <2>5 DEF GameThread
<1>2. CASE EventThread
  BY <1>2, SetupCurlKeeps, EventParseKeeps, EventDecrefKeeps DEF EventThread
<1>3. CASE UNCHANGED vars
  <2>1. UNCHANGED <<heap, json, iter, body, sent, parsed, drop, copy>> /\ job' = job
    BY <1>3 DEF vars
  <2>2. JobInv' /\ job' \in JobType
    <3>1. JobInv /\ job \in JobType
      BY DEF Inv, StateType, JobType
    <3>2. JobInv'
      BY <2>1, <3>1 DEF JobInv, LoopInv, Target, Source
    <3>3. QED BY <2>1, <3>1, <3>2
  <2>3. QED BY <2>1, <2>2, JobStep
<1>4. QED BY <1>1, <1>2, <1>3 DEF Next

(* The inductive invariant of the data nodes holds in every state. *)
LEMMA SpecInv == Spec => []DataInv
BY InitHolds, NextKeeps, PTL DEF Spec

-----------------------------------------------------------------------------
(* What follows from the invariant.                                        *)

(* The heap is well formed and the counts are exact, in every state that natives,
   callbacks and the event thread reach: data_node.cpp neither frees what is held
   nor forgets what nobody holds, and no tree has a cycle. *)
THEOREM DataCounts == Spec => []HeapInv
<1>1. DataInv => HeapInv
  <2> SUFFICES ASSUME NEW col, Inv(col)
               PROVE  HeapInv
    BY DEF DataInv
  <2>1. Good(heap, HeldF, col) /\ StateType
    BY DEF Inv
  <2>2. TypeOK
    BY <2>1 DEF TypeOK, Good, StateType
  <2>3. RefcountExact
    <3> SUFFICES ASSUME NEW n \in Node
                 PROVE  /\ heap.ref[n] = Cardinality(Links(heap, n)) + Held(n)
                        /\ heap.type[n] = "Free" <=> heap.ref[n] = 0
      BY DEF RefcountExact
    <3>1. /\ heap.ref[n] = Cardinality(Links(heap, n)) + HeldF[n]
          /\ heap.type[n] = "Free" <=> heap.ref[n] = 0
      BY <2>1 DEF Good, Balanced
    <3>2. HeldF[n] = Held(n)
      BY DEF HeldF
    <3>3. QED BY <3>1, <3>2
  <2>4. NoCycle(heap)
    BY <2>1 DEF Good
  <2>5. QED BY <2>2, <2>3, <2>4 DEF HeapInv
<1>2. QED BY <1>1, SpecInv, PTL

(* All that is below nodes of some colours has one of these colours. *)
LEMMA BelowColours ==
  ASSUME NEW col, Inv(col), NEW C, NEW S \in SUBSET Node, \A n \in S : col[n] \in C
  PROVE  \A n \in Below(heap, S) : n \in Node /\ col[n] \in C
<1> DEFINE T == {n \in Node : col[n] \in C}
<1>1. Good(heap, HeldF, col) /\ HeapType(heap)
  BY DEF Inv, Good
<1>2. ClosedUnder(heap, T)
  <2> SUFFICES ASSUME NEW n \in T, NEW c \in Kids(heap, n)
               PROVE  c \in T
    BY DEF ClosedUnder
  <2>1. c \in Node
    BY <1>1, KidNonFree
  <2>2. col[c] = col[n]
    BY <1>1 DEF Good, Coloured
  <2>3. QED BY <2>1, <2>2
<1>3. S \subseteq T /\ T \in SUBSET Node
  OBVIOUS
<1>4. Below(heap, S) \subseteq T
  <2> HIDE DEF T
  <2>1. QED BY <1>2, <1>3, BelowLeast
<1>5. QED BY <1>4

(* No node is below something of the game thread and something of the event
   thread: what CopyNodeForSend is for (data_handle.h). *)
THEOREM ThreadsApart == Spec => []ThreadExclusive
<1>1. DataInv => ThreadExclusive
  <2> SUFFICES ASSUME NEW col, Inv(col)
               PROVE  ThreadExclusive
    BY DEF DataInv
  <2>1. StateType /\ RootsOK(col)
    BY DEF Inv
  <2>2. ASSUME NEW n \in GameRoots
        PROVE  n \in Node /\ col[n] \in {"plugin", "body", "copy"}
    <3>1. n # None
      BY DEF GameRoots
    <3>2. CASE \E h \in Handle : n = json[h]
      <4>1. PICK h \in Handle : n = json[h]
        BY <3>2
      <4>2. Valid(h)
        BY <3>1, <4>1 DEF Valid
      <4>3. QED BY <4>1, <4>2, HandleNode
    <3>3. CASE n = iter.node
      <4>1. n \in Node
        BY <2>1, <3>1, <3>3 DEF StateType
      <4>2. /\ PluginHolds(n) = Refs(json)[n] + One(iter.node)[n] + drop["game"][n]
            /\ Refs(json)[n] \in Nat /\ drop["game"][n] \in Nat /\ One(iter.node)[n] = 1
        BY <2>1, <3>3, <4>1, HeldParts, OneType
      <4>3. PluginHolds(n) > 0
        BY <4>2
      <4>4. QED BY <2>1, <4>1, <4>3 DEF RootsOK
    <3>4. CASE n = body \/ n = copy.root
      BY <3>1, <3>4, RootFacts
    <3>5. CASE n \in Pending("game")
      <4>1. n \in Node /\ drop["game"][n] > 0
        BY <3>5 DEF Pending
      <4>2. /\ PluginHolds(n) = Refs(json)[n] + One(iter.node)[n] + drop["game"][n]
            /\ Refs(json)[n] \in Nat /\ drop["game"][n] \in Nat /\ One(iter.node)[n] \in Nat
        BY <2>1, <4>1, HeldParts, OneType
      <4>3. PluginHolds(n) > 0
        BY <4>1, <4>2
      <4>4. QED BY <2>1, <4>1, <4>3 DEF RootsOK
    <3>6. QED BY <3>2, <3>3, <3>4, <3>5 DEF GameRoots
  <2>3. ASSUME NEW n \in EventRoots
        PROVE  n \in Node /\ col[n] \in {"parsed", "event"}
    <3>1. n # None
      BY DEF EventRoots
    <3>2. CASE n = sent \/ n = parsed
      BY <3>1, <3>2, RootFacts
    <3>3. CASE n \in Pending("event")
      <4>1. n \in Node /\ drop["event"][n] > 0
        BY <3>3 DEF Pending
      <4>2. /\ EventHolds(n) = One(sent)[n] + drop["event"][n]
            /\ drop["event"][n] \in Nat /\ One(sent)[n] \in Nat
        BY <2>1, <4>1, HeldParts, OneType
      <4>3. EventHolds(n) > 0
        BY <4>1, <4>2
      <4>4. QED BY <2>1, <4>1, <4>3 DEF RootsOK
    <3>4. QED BY <3>2, <3>3 DEF EventRoots
  <2>4. \A n \in Below(heap, GameRoots) : col[n] \in {"plugin", "body", "copy"}
    <3> DEFINE C == {"plugin", "body", "copy"}
    <3>1. GameRoots \in SUBSET Node /\ \A n \in GameRoots : col[n] \in C
      BY <2>2
    <3> HIDE DEF C
    <3>2. \A n \in Below(heap, GameRoots) : col[n] \in C
      BY <3>1, BelowColours
    <3>3. QED BY <3>2 DEF C
  <2>5. \A n \in Below(heap, EventRoots) : col[n] \in {"parsed", "event"}
    <3> DEFINE C == {"parsed", "event"}
    <3>1. EventRoots \in SUBSET Node /\ \A n \in EventRoots : col[n] \in C
      BY <2>3
    <3> HIDE DEF C
    <3>2. \A n \in Below(heap, EventRoots) : col[n] \in C
      BY <3>1, BelowColours
    <3>3. QED BY <3>2 DEF C
  <2>6. QED BY <2>4, <2>5 DEF ThreadExclusive
<1>2. QED BY <1>1, SpecInv, PTL

(* An iterator whose version is current is in a container with the keys that it
   had when the iterator was made: Native_IterNext never leaves the map. *)
THEOREM IteratorSafe == Spec => []IterFresh
<1>1. DataInv => IterFresh
  BY DEF DataInv, Inv, IterOK
<1>2. QED BY <1>1, SpecInv, PTL

(* A complete copy is made of the nodes that were made for it. *)
LEMMA CopyBelow ==
  ASSUME NEW col, Inv(col), copy # NoCopy
  PROVE  /\ copy.root \in DOMAIN copy.of
         /\ Below(heap, {copy.root}) = DOMAIN copy.of
<1>1. CopyInv(col) /\ copy.root \in DOMAIN copy.of
  BY DEF Inv, CopyInv
<1>2. \A d \in DOMAIN copy.of : CopyNode(col, d) /\ d \in Node
  BY CopyNodeFacts
<1>3. DOMAIN copy.of \subseteq Below(heap, {copy.root})
  BY <1>2 DEF CopyNode
<1>4. ClosedUnder(heap, DOMAIN copy.of)
  BY <1>2 DEF ClosedUnder, Kids, CopyNode
<1>5. {copy.root} \subseteq DOMAIN copy.of /\ DOMAIN copy.of \in SUBSET Node
  BY <1>1, <1>2
<1>6. Below(heap, {copy.root}) \subseteq DOMAIN copy.of
  BY <1>4, <1>5, BelowLeast
<1>7. QED BY <1>1, <1>3, <1>6

(* DeepCopy returns a tree that equals the original and shares no node with
   anything. *)
THEOREM CopiesFaithful == Spec => []CopyFaithful
<1>1. DataInv => CopyFaithful
  <2> SUFFICES ASSUME NEW col, Inv(col), Copied
               PROVE  /\ Equals(heap, copy.root, copy.of[copy.root])
                      /\ Below(heap, {copy.root}) = DOMAIN copy.of
                      /\ \A n \in Node \ DOMAIN copy.of : Kids(heap, n) \cap DOMAIN copy.of = {}
                      /\ \A n \in DOMAIN copy.of : heap.ref[n] = 1
    BY DEF DataInv, CopyFaithful
  <2> DEFINE D == DOMAIN copy.of
             R == {<<d, copy.of[d]>> : d \in D}
  <2>1. copy # NoCopy /\ \A d \in D : Missing(d) = {}
    BY DEF Copied, Copying
  <2>2. copy.root \in D /\ Below(heap, {copy.root}) = D
    BY <2>1, CopyBelow
  <2>3. ASSUME NEW d \in D
        PROVE  /\ d \in Node /\ heap.ref[d] = 1 /\ col[d] = "copy"
               /\ copy.of[d] \in Below(heap, {copy.of[copy.root]})
               /\ heap.type[d] = heap.type[copy.of[d]]
               /\ DOMAIN heap.kids[d] = DOMAIN heap.kids[copy.of[d]]
               /\ \A k \in DOMAIN heap.kids[d] :
                     /\ heap.kids[d][k] \in D
                     /\ copy.of[heap.kids[d][k]] = heap.kids[copy.of[d]][k]
    <3>1. CopyNode(col, d) /\ d \in Node /\ col[d] = "copy"
      BY CopyNodeFacts
    <3>2. DOMAIN heap.kids[copy.of[d]] \subseteq DOMAIN heap.kids[d]
      BY <2>1 DEF Missing
    <3>3. DOMAIN heap.kids[d] \subseteq DOMAIN heap.kids[copy.of[d]]
      BY <3>1 DEF CopyNode
    <3>4. QED BY <3>1, <3>2, <3>3 DEF CopyNode
  <2>4. Equals(heap, copy.root, copy.of[copy.root])
    <3>1. R \in SUBSET (Below(heap, {copy.root}) \X Below(heap, {copy.of[copy.root]}))
      <4> DEFINE A == Below(heap, {copy.root})
                 B == Below(heap, {copy.of[copy.root]})
      <4>1. \A d \in D : d \in A /\ copy.of[d] \in B
        BY <2>2, <2>3
      <4> HIDE DEF A, B
      <4>2. \A d \in D : <<d, copy.of[d]>> \in A \X B
        BY <4>1
      <4>3. R \subseteq A \X B
        BY <4>2
      <4>4. QED BY <4>3 DEF A, B
    <3>2. <<copy.root, copy.of[copy.root]>> \in R
      BY <2>2
    <3>3. ASSUME NEW p \in R
          PROVE  /\ heap.type[p[1]] = heap.type[p[2]]
                 /\ DOMAIN heap.kids[p[1]] = DOMAIN heap.kids[p[2]]
                 /\ \A k \in DOMAIN heap.kids[p[1]] :
                       <<heap.kids[p[1]][k], heap.kids[p[2]][k]>> \in R
      <4>1. PICK d \in D : p = <<d, copy.of[d]>>
        OBVIOUS
      <4>2. p[1] = d /\ p[2] = copy.of[d]
        BY <4>1
      <4>3. \A k \in DOMAIN heap.kids[d] : <<heap.kids[d][k], heap.kids[copy.of[d]][k]>> \in R
        <5> TAKE k \in DOMAIN heap.kids[d]
        <5>1. heap.kids[d][k] \in D /\ copy.of[heap.kids[d][k]] = heap.kids[copy.of[d]][k]
          BY <2>3
        <5>2. QED BY <5>1
      <4>4. heap.type[d] = heap.type[copy.of[d]] /\ DOMAIN heap.kids[d] = DOMAIN heap.kids[copy.of[d]]
        BY <2>3
      <4> HIDE DEF R
      <4>5. QED BY <4>2, <4>3, <4>4
    <3> HIDE DEF R
    <3>4. QED BY <3>1, <3>2, <3>3 DEF Equals
  <2>5. ASSUME NEW n \in Node \ D, NEW c \in Kids(heap, n), c \in D
        PROVE  FALSE
    <3>1. Good(heap, HeldF, col) /\ CopyInv(col)
      BY DEF Inv
    <3>2. NonFree(heap, n)
      BY <3>1, KidNonFree
    <3>3. col[n] = "copy"
      BY <2>3, <2>5, <3>1 DEF Good, Coloured
    <3>4. QED BY <3>1, <3>2, <3>3 DEF CopyInv
  <2>6. QED BY <2>2, <2>3, <2>4, <2>5
<1>2. QED BY <1>1, SpecInv, PTL

=============================================================================
