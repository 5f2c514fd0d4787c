--------------------------- MODULE TreeShapeProofs ---------------------------
(***************************************************************************)
(* Every step on content keeps the document a tree of normalized nodes,    *)
(* proved for any document, texts, marks and bounds: text and marks,       *)
(* atoms, splits and joins, their inverses, and what undoes those.         *)
(*                                                                         *)
(* Reachability by levels (Subtree) is replaced by a closure condition     *)
(* (Connected), a document by MadeOf and Placed; each way an edit changes  *)
(* the placement of nodes is one lemma about those, each step one lemma    *)
(* about what it leaves (Good), and ShapeInv is the inductive invariant.   *)
(***************************************************************************)
EXTENDS InlineProofs

-----------------------------------------------------------------------------
(* Reachability.                                                           *)

Closed(store, S) == \A id \in S \cap DOMAIN store : Refs(store[id]) \subseteq S
Linked(store) == \A id \in DOMAIN store : Refs(store[id]) \subseteq DOMAIN store
\* Every set that holds the root and what its members refer to holds all.
Connected(store) == \A S : Root \in S /\ Closed(store, S) => DOMAIN store \subseteq S

\* What is reached from a set in one more step.
Wider(store, S) == S \cup UNION {Refs(store[i]) : i \in S \cap DOMAIN store}

AreLevels(f, store, top, size) ==
  f = [k \in 0..size |-> IF k = 0 THEN {top} ELSE Wider(store, f[k - 1])]

\* The levels of a subtree: the recursive function exists.
LEMMA LevelsExist ==
  ASSUME NEW store, NEW top, NEW size \in Nat
  PROVE  \E f : AreLevels(f, store, top, size)
<1> DEFINE then(above) == Wider(store, above)
           To(n) == \E f : f = [k \in 0..n |-> IF k = 0 THEN {top} ELSE then(f[k - 1])]
           S == {n \in Nat : To(n)}
<1> HIDE DEF then
<1>1. 0 \in S
  <2> DEFINE g == [k \in 0..0 |-> {top}]
  <2>1. g = [k \in 0..0 |-> IF k = 0 THEN {top} ELSE then(g[k - 1])]
    OBVIOUS
  <2> HIDE DEF g
  <2>2. To(0)
    BY <2>1
  <2> HIDE DEF To
  <2>3. QED BY <2>2
<1>2. ASSUME NEW n \in Nat, n \in S PROVE n + 1 \in S
  <2>1. PICK f : f = [k \in 0..n |-> IF k = 0 THEN {top} ELSE then(f[k - 1])]
    BY <1>2
  <2>2. \A k \in 0..n : f[k] = IF k = 0 THEN {top} ELSE then(f[k - 1])
    BY <2>1
  <2> DEFINE g == [k \in 0..(n + 1) |-> IF k = n + 1 THEN then(f[n]) ELSE f[k]]
  <2>3. ASSUME NEW k \in 0..(n + 1)
        PROVE  g[k] = IF k = 0 THEN {top} ELSE then(g[k - 1])
    <3>1. CASE k = n + 1
      <4>1. g[n] = f[n] /\ g[k] = then(f[n]) /\ k # 0 /\ k - 1 = n
        BY <3>1
      <4> HIDE DEF g
      <4>2. QED BY <4>1
    <3>2. CASE k = 0
      <4>1. g[k] = f[0] /\ 0 \in 0..n
        BY <3>2
      <4> HIDE DEF g
      <4>2. QED BY <2>2, <3>2, <4>1
    <3>3. CASE k \in 1..n
      <4>1. g[k] = f[k] /\ g[k - 1] = f[k - 1] /\ k \in 0..n /\ k # 0
        BY <3>3
      <4> HIDE DEF g
      <4>2. QED BY <2>2, <3>3, <4>1
    <3>4. QED BY <3>1, <3>2, <3>3
  <2>4. g = [k \in 0..(n + 1) |-> IF k = 0 THEN {top} ELSE then(g[k - 1])]
    BY <2>3
  <2> HIDE DEF g
  <2>5. To(n + 1)
    BY <2>4
  <2> HIDE DEF To
  <2>6. QED BY <2>5
<1> HIDE DEF S
<1>3. Nat \subseteq S
  BY <1>1, <1>2, InductionOverNat
<1>4. To(size)
  BY <1>3 DEF S
<1>5. QED BY <1>4 DEF then, AreLevels

\* The subtree as the last of its levels.
LEMMA SubtreeUnfolds ==
  ASSUME NEW store, IsFiniteSet(DOMAIN store), NEW top
  PROVE  \E f : /\ f[0] = {top}
                /\ \A k \in 1..Cardinality(DOMAIN store) :
                     f[k] = Wider(store, f[k - 1])
                /\ Subtree(store, top) = f[Cardinality(DOMAIN store)]
<1> DEFINE size == Cardinality(DOMAIN store)
           level[k \in 0..size] == IF k = 0 THEN {top} ELSE Wider(store, level[k - 1])
<1>1. size \in Nat
  BY FS_CardinalityType
<1>2. Subtree(store, top) = level[size]
  BY DEF Subtree, Wider
<1> HIDE DEF size
<1>3. \E f : AreLevels(f, store, top, size)
  BY <1>1, LevelsExist
<1>4. level = [k \in 0..size |-> IF k = 0 THEN {top} ELSE Wider(store, level[k - 1])]
  BY <1>3 DEF AreLevels
<1> HIDE DEF level
<1>5. \A k \in 0..size : level[k] = IF k = 0 THEN {top} ELSE Wider(store, level[k - 1])
  BY <1>4
<1>6. level[0] = {top} /\ \A k \in 1..size : level[k] = Wider(store, level[k - 1])
  <2>1. 0 \in 0..size /\ \A k \in 1..size : k \in 0..size /\ k # 0
    BY <1>1
  <2>2. QED BY <1>5, <2>1
<1>7. QED BY <1>2, <1>6 DEF size

\* What is reached from a node is in every closed set that holds it.
LEMMA SubtreeLeast ==
  ASSUME NEW store, IsFiniteSet(DOMAIN store), NEW top, NEW S, top \in S, Closed(store, S)
  PROVE  Subtree(store, top) \subseteq S
<1> DEFINE size == Cardinality(DOMAIN store)
<1>1. size \in Nat
  BY FS_CardinalityType
<1>2. PICK f : /\ f[0] = {top}
               /\ \A k \in 1..size :
                    f[k] = Wider(store, f[k - 1])
               /\ Subtree(store, top) = f[size]
  BY SubtreeUnfolds
<1> HIDE DEF size
<1> DEFINE T == {n \in Nat : n <= size => f[n] \subseteq S}
<1>3. 0 \in T
  BY <1>2
<1>4. ASSUME NEW n \in Nat, n \in T PROVE n + 1 \in T
  <2>1. SUFFICES ASSUME n + 1 <= size PROVE f[n + 1] \subseteq S
    OBVIOUS
  <2>2. f[n + 1] = f[n] \cup UNION {Refs(store[i]) : i \in f[n] \cap DOMAIN store}
    <3>1. n + 1 \in 1..size /\ (n + 1) - 1 = n
      BY <1>1, <2>1
    <3>2. QED BY <1>2, <3>1 DEF Wider
  <2>3. f[n] \subseteq S
    BY <1>1, <1>4, <2>1
  <2>4. QED BY <2>2, <2>3 DEF Closed
<1> HIDE DEF T
<1>5. Nat \subseteq T
  BY <1>3, <1>4, InductionOverNat
<1>6. QED BY <1>1, <1>2, <1>5 DEF T

\* As many levels as there are nodes are enough: a level that adds nothing is
\* the last, and each other one adds a node.
LEMMA SubtreeClosed ==
  ASSUME NEW store, IsFiniteSet(DOMAIN store), Linked(store), NEW top \in DOMAIN store
  PROVE  /\ top \in Subtree(store, top)
         /\ Subtree(store, top) \subseteq DOMAIN store
         /\ Closed(store, Subtree(store, top))
<1> DEFINE size == Cardinality(DOMAIN store)
<1>1. size \in Nat
  BY FS_CardinalityType
<1>2. PICK f : /\ f[0] = {top}
               /\ \A k \in 1..size :
                    f[k] = Wider(store, f[k - 1])
               /\ Subtree(store, top) = f[size]
  BY SubtreeUnfolds
<1>3. Subtree(store, top) \subseteq DOMAIN store
  BY SubtreeLeast DEF Linked, Closed
<1> DEFINE T == {n \in Nat : n <= size =>
                   /\ top \in f[n]
                   /\ f[n] \subseteq DOMAIN store
                   /\ Closed(store, f[n]) \/ Cardinality(f[n]) >= n + 1}
<1>4. 0 \in T
  <2>1. Cardinality(f[0]) = 1
    BY <1>2, FS_Singleton
  <2>2. QED BY <1>2, <2>1
<1>5. ASSUME NEW n \in Nat, n \in T PROVE n + 1 \in T
  <2>1. SUFFICES ASSUME n + 1 <= size
                 PROVE  /\ top \in f[n + 1]
                        /\ f[n + 1] \subseteq DOMAIN store
                        /\ Closed(store, f[n + 1]) \/ Cardinality(f[n + 1]) >= (n + 1) + 1
    OBVIOUS
  <2>2. f[n + 1] = f[n] \cup UNION {Refs(store[i]) : i \in f[n] \cap DOMAIN store}
    <3>1. n + 1 \in 1..size /\ (n + 1) - 1 = n
      BY <1>1, <2>1
    <3>2. QED BY <1>2, <3>1 DEF Wider
  <2>3. /\ top \in f[n]
        /\ f[n] \subseteq DOMAIN store
        /\ Closed(store, f[n]) \/ Cardinality(f[n]) >= n + 1
    BY <1>1, <1>5, <2>1
  <2>4. top \in f[n + 1] /\ f[n + 1] \subseteq DOMAIN store
    BY <2>2, <2>3 DEF Linked
  <2>5. CASE Closed(store, f[n])
    <3>1. f[n + 1] = f[n]
      BY <2>2, <2>5 DEF Closed
    <3>2. QED BY <2>4, <2>5, <3>1
  <2>6. CASE ~Closed(store, f[n]) /\ Cardinality(f[n]) >= n + 1
    <3>1. PICK x : x \in f[n + 1] /\ x \notin f[n]
      BY <2>2, <2>6 DEF Closed
    <3>2. f[n] \cup {x} \subseteq f[n + 1]
      BY <2>2, <3>1
    <3>3. IsFiniteSet(f[n]) /\ IsFiniteSet(f[n + 1])
      BY <2>3, <2>4, FS_Subset
    <3>4. /\ IsFiniteSet(f[n] \cup {x})
          /\ Cardinality(f[n] \cup {x}) = Cardinality(f[n]) + 1
      BY <3>1, <3>3, FS_AddElement
    <3>5. Cardinality(f[n] \cup {x}) <= Cardinality(f[n + 1])
      BY <3>2, <3>3, FS_Subset
    <3>6. Cardinality(f[n]) \in Nat /\ Cardinality(f[n + 1]) \in Nat
      BY <3>3, FS_CardinalityType
    <3>7. QED BY <2>4, <2>6, <3>4, <3>5, <3>6
  <2>7. QED BY <2>3, <2>5, <2>6
<1> HIDE DEF T
<1>6. Nat \subseteq T
  BY <1>4, <1>5, InductionOverNat
<1>7. /\ top \in f[size]
      /\ f[size] \subseteq DOMAIN store
      /\ Closed(store, f[size]) \/ Cardinality(f[size]) >= size + 1
  BY <1>1, <1>6 DEF T
<1>8. Cardinality(f[size]) <= size
  BY <1>7, FS_Subset
<1>9. Cardinality(f[size]) \in Nat
  BY <1>7, FS_Subset, FS_CardinalityType
<1>10. Closed(store, f[size])
  BY <1>1, <1>7, <1>8, <1>9
<1>11. QED BY <1>2, <1>7, <1>10

\* Reaching every node, without levels.
LEMMA ReachingAll ==
  ASSUME NEW store, IsFiniteSet(DOMAIN store), Linked(store), Root \in DOMAIN store
  PROVE  Subtree(store, Root) = DOMAIN store <=> Connected(store)
<1>1. ASSUME Subtree(store, Root) = DOMAIN store PROVE Connected(store)
  BY <1>1, SubtreeLeast DEF Connected
<1>2. ASSUME Connected(store) PROVE Subtree(store, Root) = DOMAIN store
  BY <1>2, SubtreeClosed DEF Connected
<1>3. QED BY <1>1, <1>2

-----------------------------------------------------------------------------
(* Documents: well-made nodes, placed in a tree.                           *)

MadeOf(store) ==
  /\ store = [id \in DOMAIN store |-> store[id]]
  /\ IsFiniteSet(DOMAIN store) /\ DOMAIN store \subseteq Nat
  /\ \A id \in DOMAIN store : WellMade(store[id])

Placed(store) ==
  /\ Root \in DOMAIN store /\ store[Root].kind = "Document"
  /\ \A id \in DOMAIN store :
       /\ Refs(store[id]) \subseteq DOMAIN store \ {Root}
       /\ \A kid \in Range(Kids(store[id])) : AllowsChild(store[id].kind, store[kid].kind)
       /\ store[id].content.shape = "inline" =>
            \A atom \in Refs(store[id]) : store[atom].kind \in AtomKinds
       /\ IsInjective(Kids(store[id]))
  /\ \A id, other \in DOMAIN store : id # other => Refs(store[id]) \cap Refs(store[other]) = {}
  /\ Connected(store)

\* A valid document, with reachability in place of levels.
LEMMA DocumentIs ==
  ASSUME NEW store
  PROVE  IsDocument(store) <=> MadeOf(store) /\ Placed(store)
<1>1. SUFFICES ASSUME MadeOf(store) PROVE ValidTree(store) <=> Placed(store)
  BY DEF IsDocument, MadeOf
<1>2. \A id \in DOMAIN store : NodeOK(store[id])
  BY <1>1 DEF MadeOf, WellMade
<1> DEFINE local(id) ==
             /\ Refs(store[id]) \subseteq DOMAIN store \ {Root}
             /\ \A kid \in Range(Kids(store[id])) : AllowsChild(store[id].kind, store[kid].kind)
             /\ IsInjective(Kids(store[id]))
           typed(id) == \A c \in InlineOf(store, id), atom \in DOMAIN store :
                          atom \in AtomsOf(c) => store[atom].kind \in AtomKinds
           typed2(id) == store[id].content.shape = "inline" =>
                           \A atom \in Refs(store[id]) : store[atom].kind \in AtomKinds
           apart(id) == \A other \in DOMAIN store \ {id} : Refs(store[id]) \cap Refs(store[other]) = {}
<1>3. ASSUME NEW id \in DOMAIN store, Refs(store[id]) \subseteq DOMAIN store \ {Root}
      PROVE  typed(id) <=> typed2(id)
  <2>1. CASE store[id].content.shape = "inline"
    <3>1. InlineOf(store, id) = {store[id].content} /\ Refs(store[id]) = AtomsOf(store[id].content)
      BY <2>1 DEF InlineOf, ContentIn, Refs
    <3>2. QED BY <1>3, <2>1, <3>1
  <2>2. CASE store[id].content.shape # "inline"
    <3>1. InlineOf(store, id) = {}
      BY <2>2 DEF InlineOf, ContentIn
    <3>2. QED BY <2>2, <3>1
  <2>3. QED BY <2>1, <2>2
<1>4. ASSUME Root \in DOMAIN store,
             \A id \in DOMAIN store : Refs(store[id]) \subseteq DOMAIN store \ {Root}
      PROVE  Subtree(store, Root) = DOMAIN store <=> Connected(store)
  <2>1. IsFiniteSet(DOMAIN store) /\ Linked(store)
    BY <1>1, <1>4 DEF MadeOf, Linked
  <2>2. QED BY <1>4, <2>1, ReachingAll
<1>5. ValidTree(store) <=>
        /\ Root \in DOMAIN store /\ store[Root].kind = "Document"
        /\ \A id \in DOMAIN store : local(id) /\ typed(id) /\ apart(id)
        /\ Subtree(store, Root) = DOMAIN store
  BY <1>2 DEF ValidTree
<1>6. Placed(store) <=>
        /\ Root \in DOMAIN store /\ store[Root].kind = "Document"
        /\ \A id \in DOMAIN store : local(id) /\ typed2(id) /\ apart(id)
        /\ Connected(store)
  BY DEF Placed
<1>7. \A id \in DOMAIN store : local(id) => Refs(store[id]) \subseteq DOMAIN store \ {Root}
  OBVIOUS
<1> HIDE DEF local, typed, typed2, apart
<1>8. QED BY <1>3, <1>4, <1>5, <1>6, <1>7

\* Content keeps its references where it is replaced by content with the same
\* ones.
LEMMA PlacedAsBefore ==
  ASSUME NEW store, Placed(store), NEW after, DOMAIN after = DOMAIN store,
         \A id \in DOMAIN store :
           /\ after[id].kind = store[id].kind
           /\ after[id].content.shape = store[id].content.shape
           /\ Refs(after[id]) = Refs(store[id])
           /\ Kids(after[id]) = Kids(store[id])
  PROVE  Placed(after)
<1>1. \A id \in DOMAIN store : Refs(store[id]) \subseteq DOMAIN store
  BY DEF Placed
<1>2. \A id \in DOMAIN store : Range(Kids(store[id])) \subseteq DOMAIN store
  BY <1>1 DEF Refs, Kids, Range
<1>3. Connected(after)
  <2>1. \A S : Closed(after, S) => Closed(store, S)
    BY DEF Closed
  <2>2. QED BY <2>1 DEF Placed, Connected
<1>4. QED BY <1>1, <1>2, <1>3 DEF Placed

\* A new leaf is placed in the content of a node.
LEMMA PlacedWithAtom ==
  ASSUME NEW store, Placed(store), NEW at \in DOMAIN store, NEW atom, atom \notin DOMAIN store,
         NEW after, DOMAIN after = DOMAIN store \cup {atom},
         \A id \in DOMAIN store :
           /\ after[id].kind = store[id].kind
           /\ after[id].content.shape = store[id].content.shape
           /\ Kids(after[id]) = Kids(store[id])
           /\ id # at => Refs(after[id]) = Refs(store[id]),
         store[at].content.shape = "inline",
         Refs(after[at]) = Refs(store[at]) \cup {atom},
         after[atom].kind \in AtomKinds, after[atom].content.shape # "inline",
         Kids(after[atom]) = <<>>
  PROVE  Placed(after)
<1>1. \A id \in DOMAIN store : Refs(store[id]) \subseteq DOMAIN store \ {Root}
  BY DEF Placed
<1>2. \A id \in DOMAIN store : Range(Kids(store[id])) \subseteq DOMAIN store
  BY <1>1 DEF Refs, Kids, Range
<1>3. Refs(after[atom]) = {} /\ Range(Kids(after[atom])) = {} /\ IsInjective(Kids(after[atom]))
  BY DEF Refs, Range, IsInjective
<1>4. Root \in DOMAIN store /\ Root # atom
  BY DEF Placed
<1>5. Connected(after)
  <2>1. ASSUME NEW S, Root \in S, Closed(after, S) PROVE DOMAIN after \subseteq S
    <3>1. Closed(store, S)
      <4>1. ASSUME NEW id \in S \cap DOMAIN store PROVE Refs(store[id]) \subseteq S
        <5>1. Refs(after[id]) \subseteq S
          BY <2>1 DEF Closed
        <5>2. QED BY <5>1
      <4>2. QED BY <4>1 DEF Closed
    <3>2. DOMAIN store \subseteq S
      BY <2>1, <3>1 DEF Placed, Connected
    <3>3. QED BY <2>1, <3>2 DEF Closed
  <2>2. QED BY <2>1 DEF Connected
<1>6. \A id \in DOMAIN after :
        /\ Refs(after[id]) \subseteq DOMAIN after \ {Root}
        /\ IsInjective(Kids(after[id]))
  BY <1>1, <1>3, <1>4 DEF Placed
<1>7. ASSUME NEW id \in DOMAIN after, NEW kid \in Range(Kids(after[id]))
      PROVE  AllowsChild(after[id].kind, after[kid].kind)
  BY <1>2, <1>3 DEF Placed
<1>8. ASSUME NEW id \in DOMAIN after, after[id].content.shape = "inline", NEW x \in Refs(after[id])
      PROVE  after[x].kind \in AtomKinds
  <2>1. CASE x = atom
    BY <2>1
  <2>2. CASE x # atom
    <3>1. id \in DOMAIN store /\ x \in Refs(store[id])
      BY <1>3, <1>8, <2>2
    <3>2. QED BY <1>1, <1>8, <3>1 DEF Placed
  <2>3. QED BY <2>1, <2>2
<1>9. ASSUME NEW id \in DOMAIN after, NEW other \in DOMAIN after, id # other
      PROVE  Refs(after[id]) \cap Refs(after[other]) = {}
  <2>1. CASE id = atom \/ other = atom
    BY <1>3, <2>1
  <2>2. CASE id \in DOMAIN store /\ other \in DOMAIN store
    <3>1. Refs(store[id]) \cap Refs(store[other]) = {}
      BY <1>9, <2>2 DEF Placed
    <3>2. atom \notin Refs(store[id]) /\ atom \notin Refs(store[other])
      BY <1>1, <2>2
    <3>3. QED BY <1>9, <2>2, <3>1, <3>2
  <2>3. QED BY <2>1, <2>2
<1>10. QED BY <1>4, <1>5, <1>6, <1>7, <1>8, <1>9 DEF Placed

\* A leaf leaves the content of a node.
LEMMA PlacedWithoutAtom ==
  ASSUME NEW store, Placed(store), NEW at \in DOMAIN store, NEW atom \in DOMAIN store,
         NEW after, DOMAIN after = DOMAIN store \ {atom},
         \A id \in DOMAIN store \ {atom} :
           /\ after[id].kind = store[id].kind
           /\ after[id].content.shape = store[id].content.shape
           /\ Kids(after[id]) = Kids(store[id])
           /\ id # at => Refs(after[id]) = Refs(store[id]),
         store[at].content.shape = "inline", at # atom,
         atom \in Refs(store[at]),
         Refs(after[at]) = Refs(store[at]) \ {atom},
         Refs(store[atom]) = {}
  PROVE  Placed(after)
<1>1. \A id \in DOMAIN store : Refs(store[id]) \subseteq DOMAIN store \ {Root}
  BY DEF Placed
<1>2. \A id \in DOMAIN store : Range(Kids(store[id])) \subseteq Refs(store[id])
  BY DEF Refs, Kids, Range
<1>3. \A id \in DOMAIN store \ {at} : atom \notin Refs(store[id])
  BY DEF Placed
<1>4. Range(Kids(store[at])) = {}
  BY DEF Kids, Range
<1>5. Root \in DOMAIN store /\ Root # atom
  BY <1>1 DEF Placed
<1>6. Connected(after)
  <2>1. ASSUME NEW S, Root \in S, Closed(after, S) PROVE DOMAIN after \subseteq S
    <3>1. Closed(store, S \cup {atom})
      <4>1. ASSUME NEW id \in (S \cup {atom}) \cap DOMAIN store
            PROVE  Refs(store[id]) \subseteq S \cup {atom}
        <5>1. CASE id = atom
          BY <5>1
        <5>2. CASE id # atom
          <6>1. Refs(after[id]) \subseteq S
            BY <2>1, <5>2 DEF Closed
          <6>2. QED BY <5>2, <6>1
        <5>3. QED BY <5>1, <5>2
      <4>2. QED BY <4>1 DEF Closed
    <3>2. DOMAIN store \subseteq S \cup {atom}
      BY <2>1, <3>1 DEF Placed, Connected
    <3>3. QED BY <3>2
  <2>2. QED BY <2>1 DEF Connected
<1>7. \A id \in DOMAIN after : Refs(after[id]) \subseteq Refs(store[id]) \ {atom}
  BY <1>3
<1>8. \A id \in DOMAIN after :
        /\ Refs(after[id]) \subseteq DOMAIN after \ {Root}
        /\ IsInjective(Kids(after[id]))
  BY <1>1, <1>7 DEF Placed
<1>9. ASSUME NEW id \in DOMAIN after, NEW kid \in Range(Kids(after[id]))
      PROVE  AllowsChild(after[id].kind, after[kid].kind)
  <2>1. kid \in Range(Kids(store[id])) /\ id # at
    BY <1>4, <1>9
  <2>2. kid \in DOMAIN store \ {atom}
    BY <1>1, <1>2, <1>3, <2>1
  <2>3. QED BY <2>1, <2>2 DEF Placed
<1>10. ASSUME NEW id \in DOMAIN after, after[id].content.shape = "inline", NEW x \in Refs(after[id])
       PROVE  after[x].kind \in AtomKinds
  <2>1. x \in Refs(store[id]) /\ x \in DOMAIN store \ {atom}
    BY <1>1, <1>7, <1>10
  <2>2. QED BY <1>10, <2>1 DEF Placed
<1>11. ASSUME NEW id \in DOMAIN after, NEW other \in DOMAIN after, id # other
       PROVE  Refs(after[id]) \cap Refs(after[other]) = {}
  <2>1. Refs(store[id]) \cap Refs(store[other]) = {}
    BY <1>11 DEF Placed
  <2>2. QED BY <1>7, <2>1
<1>12. Root \in DOMAIN after /\ after[Root].kind = "Document"
  BY <1>5 DEF Placed
<1>13. QED BY <1>6, <1>8, <1>9, <1>10, <1>11, <1>12 DEF Placed

\* A node passes some of its references on to a new sibling.
Grown(store, after, p, n, x) ==
  /\ p \in DOMAIN store /\ n \in DOMAIN store
  /\ x \notin DOMAIN store /\ DOMAIN after = DOMAIN store \cup {x}
  /\ store[p].content.shape = "children" /\ store[n].content.shape = "inline"
  /\ n \in Range(Kids(store[p]))
  /\ \A id \in DOMAIN store :
       /\ after[id].kind = store[id].kind
       /\ after[id].content.shape = store[id].content.shape
       /\ id # p => Kids(after[id]) = Kids(store[id])
       /\ id \notin {p, n} => Refs(after[id]) = Refs(store[id])
  /\ Range(Kids(after[p])) = Range(Kids(store[p])) \cup {x}
  /\ IsInjective(Kids(after[p]))
  /\ Refs(after[n]) \cup Refs(after[x]) = Refs(store[n])
  /\ Refs(after[n]) \cap Refs(after[x]) = {}
  /\ after[x].content.shape = "inline" /\ Kids(after[x]) = <<>>
  /\ AllowsChild(after[p].kind, after[x].kind)

\* A tail grown next to its head leaves the tree in place.
LEMMA PlacedWithTail ==
  ASSUME NEW store, Placed(store), NEW after, NEW p, NEW n, NEW x, Grown(store, after, p, n, x)
  PROVE  Placed(after)
<1> USE DEF Grown
<1>1. \A id \in DOMAIN store : Refs(store[id]) \subseteq DOMAIN store \ {Root}
  BY DEF Placed
<1>2. \A id \in DOMAIN store : Range(Kids(store[id])) \subseteq Refs(store[id])
  BY DEF Refs, Kids, Range
<1>3. p # n /\ p # x /\ n # x
  OBVIOUS
<1>4. Refs(store[p]) = Range(Kids(store[p])) /\ Refs(after[p]) = Refs(store[p]) \cup {x}
  BY DEF Refs
<1>5. n \in Refs(store[p]) /\ n # Root
  BY <1>1, <1>4
<1>6. \A id \in DOMAIN store \ {p} : n \notin Refs(store[id])
  BY <1>5 DEF Placed
<1>7. Range(Kids(after[x])) = {} /\ IsInjective(Kids(after[x]))
  BY DEF Range, IsInjective
<1>8. Root \in DOMAIN store /\ Root # x
  BY DEF Placed
<1>9. Connected(after)
  <2>1. ASSUME NEW S, Root \in S, Closed(after, S) PROVE DOMAIN after \subseteq S
    <3>1. p \in S
      <4>1. SUFFICES ASSUME p \notin S PROVE FALSE
        OBVIOUS
      <4>2. Closed(store, S \ {n})
        <5>1. ASSUME NEW id \in (S \ {n}) \cap DOMAIN store
              PROVE  Refs(store[id]) \subseteq S \ {n}
          <6>1. id \notin {p, n}
            BY <4>1
          <6>2. Refs(after[id]) \subseteq S
            BY <2>1 DEF Closed
          <6>3. QED BY <1>6, <6>1, <6>2
        <5>2. QED BY <5>1 DEF Closed
      <4>3. DOMAIN store \subseteq S \ {n}
        BY <1>5, <2>1, <4>2 DEF Placed, Connected
      <4>4. QED BY <4>3
    <3>2. Refs(after[p]) \subseteq S
      BY <2>1, <3>1 DEF Closed
    <3>3. n \in S /\ x \in S
      BY <1>4, <1>5, <3>2
    <3>4. Refs(after[n]) \subseteq S /\ Refs(after[x]) \subseteq S
      BY <2>1, <3>3 DEF Closed
    <3>5. Closed(store, S)
      <4>1. ASSUME NEW id \in S \cap DOMAIN store PROVE Refs(store[id]) \subseteq S
        <5>1. CASE id = n
          BY <3>4, <5>1
        <5>2. CASE id = p
          BY <1>4, <3>2, <5>2
        <5>3. CASE id \notin {p, n}
          <6>1. Refs(after[id]) \subseteq S
            BY <2>1 DEF Closed
          <6>2. QED BY <5>3, <6>1
        <5>4. QED BY <5>1, <5>2, <5>3
      <4>2. QED BY <4>1 DEF Closed
    <3>6. DOMAIN store \subseteq S
      BY <2>1, <3>5 DEF Placed, Connected
    <3>7. QED BY <3>3, <3>6
  <2>2. QED BY <2>1 DEF Connected
<1>10. \A id \in DOMAIN after : Refs(after[id]) \subseteq DOMAIN after \ {Root}
  <2>1. Refs(after[n]) \subseteq DOMAIN store \ {Root} /\ Refs(after[x]) \subseteq DOMAIN store \ {Root}
    BY <1>1
  <2>2. Refs(after[p]) \subseteq DOMAIN after \ {Root}
    BY <1>1, <1>4, <1>8
  <2>3. QED BY <1>1, <2>1, <2>2
<1>11. \A id \in DOMAIN after : IsInjective(Kids(after[id]))
  BY <1>7 DEF Placed
<1>12. ASSUME NEW id \in DOMAIN after, NEW kid \in Range(Kids(after[id]))
       PROVE  AllowsChild(after[id].kind, after[kid].kind)
  <2>1. CASE kid = x /\ id = p
    BY <2>1
  <2>2. CASE id \in DOMAIN store /\ kid \in Range(Kids(store[id]))
    <3>1. kid \in DOMAIN store
      BY <1>1, <1>2, <2>2
    <3>2. QED BY <2>2, <3>1 DEF Placed
  <2>3. id \in DOMAIN store
    BY <1>7, <1>12
  <2>4. id # p => kid \in Range(Kids(store[id]))
    BY <2>3, <1>12
  <2>5. id = p => kid = x \/ kid \in Range(Kids(store[id]))
    BY <1>12
  <2>6. QED BY <2>1, <2>2, <2>3, <2>4, <2>5
<1>13. ASSUME NEW id \in DOMAIN after, after[id].content.shape = "inline", NEW a \in Refs(after[id])
       PROVE  after[a].kind \in AtomKinds
  <2>1. PICK old \in DOMAIN store : store[old].content.shape = "inline" /\ a \in Refs(store[old])
    <3>1. CASE id = x \/ id = n
      BY <1>13, <3>1
    <3>2. CASE id \in DOMAIN store /\ id # n
      BY <1>13, <3>2
    <3>3. QED BY <3>1, <3>2
  <2>2. a \in DOMAIN store
    BY <1>1, <2>1
  <2>3. QED BY <2>1, <2>2 DEF Placed
<1>14. \A id, other \in DOMAIN store : id # other => Refs(store[id]) \cap Refs(store[other]) = {}
  BY DEF Placed
<1>15. \A id \in DOMAIN store : x \notin Refs(store[id])
  BY <1>1
<1>16. ASSUME NEW id \in DOMAIN after, NEW other \in DOMAIN after, id # other,
              NEW a \in Refs(after[id]) \cap Refs(after[other])
       PROVE  FALSE
  <2> DEFINE from(i) == IF i = x THEN n ELSE i
  <2>1. \A i \in DOMAIN after : a \in Refs(after[i]) => (i = p /\ a = x) \/ a \in Refs(store[from(i)])
    BY <1>3, <1>4
  <2>2. \A i \in DOMAIN after : from(i) \in DOMAIN store
    OBVIOUS
  <2>3. CASE a = x
    BY <1>15, <1>16, <2>1, <2>2, <2>3
  <2>4. CASE a # x
    <3>1. a \in Refs(store[from(id)]) /\ a \in Refs(store[from(other)])
      BY <1>16, <2>1, <2>4
    <3>2. from(id) = from(other)
      BY <1>14, <2>2, <3>1
    <3>3. {id, other} = {n, x}
      BY <1>16, <3>2
    <3>4. a \in Refs(after[n]) \cap Refs(after[x])
      BY <1>16, <3>3
    <3>5. QED BY <3>4
  <2>5. QED BY <2>3, <2>4
<1>17. \A id, other \in DOMAIN after : id # other => Refs(after[id]) \cap Refs(after[other]) = {}
  BY <1>16
<1>18. QED BY <1>8, <1>9, <1>10, <1>11, <1>12, <1>13, <1>17 DEF Placed

\* A node takes over the references of a sibling that leaves.
Shrunk(store, after, p, n, x) ==
  /\ p \in DOMAIN store /\ n \in DOMAIN store /\ x \in DOMAIN store /\ n # x
  /\ DOMAIN after = DOMAIN store \ {x}
  /\ store[p].content.shape = "children"
  /\ store[n].content.shape = "inline" /\ store[x].content.shape = "inline"
  /\ n \in Range(Kids(store[p])) /\ x \in Range(Kids(store[p]))
  /\ \A id \in DOMAIN store \ {x} :
       /\ after[id].kind = store[id].kind
       /\ after[id].content.shape = store[id].content.shape
       /\ id # p => Kids(after[id]) = Kids(store[id])
       /\ id \notin {p, n} => Refs(after[id]) = Refs(store[id])
  /\ Range(Kids(after[p])) = Range(Kids(store[p])) \ {x}
  /\ IsInjective(Kids(after[p]))
  /\ Refs(after[n]) = Refs(store[n]) \cup Refs(store[x])

\* So does a node joined to the one before it.
LEMMA PlacedWithoutTail ==
  ASSUME NEW store, Placed(store), NEW after, NEW p, NEW n, NEW x, Shrunk(store, after, p, n, x)
  PROVE  Placed(after)
<1> USE DEF Shrunk
<1>1. \A id \in DOMAIN store : Refs(store[id]) \subseteq DOMAIN store \ {Root}
  BY DEF Placed
<1>2. \A id \in DOMAIN store : Range(Kids(store[id])) \subseteq Refs(store[id])
  BY DEF Refs, Kids, Range
<1>3. p # n /\ p # x
  OBVIOUS
<1>4. Refs(store[p]) = Range(Kids(store[p])) /\ Refs(after[p]) = Refs(store[p]) \ {x}
  BY <1>3 DEF Refs
<1>5. /\ n \in Refs(store[p]) /\ x \in Refs(store[p])
      /\ n # Root /\ x # Root
  BY <1>1, <1>4
<1>6. \A id, other \in DOMAIN store : id # other => Refs(store[id]) \cap Refs(store[other]) = {}
  BY DEF Placed
<1>7. \A id \in DOMAIN store \ {p} : n \notin Refs(store[id]) /\ x \notin Refs(store[id])
  BY <1>5, <1>6
<1>8. Root \in DOMAIN after /\ after[Root].kind = "Document"
  BY <1>5 DEF Placed
<1>9. Connected(after)
  <2>1. ASSUME NEW S, Root \in S, Closed(after, S) PROVE DOMAIN after \subseteq S
    <3>1. \A id \in S \cap DOMAIN after : Refs(after[id]) \subseteq S
      BY <2>1 DEF Closed
    <3>2. n \in S
      <4>1. SUFFICES ASSUME n \notin S PROVE FALSE
        OBVIOUS
      <4>2. p \notin S
        BY <1>3, <1>4, <1>5, <3>1, <4>1
      <4>3. Closed(store, S \ {x})
        <5>1. ASSUME NEW id \in (S \ {x}) \cap DOMAIN store
              PROVE  Refs(store[id]) \subseteq S \ {x}
          <6>1. id \notin {p, n}
            BY <4>1, <4>2
          <6>2. Refs(after[id]) \subseteq S
            BY <3>1
          <6>3. QED BY <1>7, <6>1, <6>2
        <5>2. QED BY <5>1 DEF Closed
      <4>4. DOMAIN store \subseteq S \ {x}
        BY <1>5, <2>1, <4>3 DEF Placed, Connected
      <4>5. QED BY <4>1, <4>4
    <3>3. Closed(store, S \cup {x})
      <4>1. Refs(after[n]) \subseteq S
        BY <3>1, <3>2
      <4>2. ASSUME NEW id \in (S \cup {x}) \cap DOMAIN store
            PROVE  Refs(store[id]) \subseteq S \cup {x}
        <5>1. CASE id = n \/ id = x
          BY <4>1, <5>1
        <5>2. CASE id # x /\ id = p
          BY <1>4, <3>1, <5>2
        <5>3. CASE id # x /\ id \notin {p, n}
          BY <3>1, <5>3
        <5>4. QED BY <5>1, <5>2, <5>3
      <4>3. QED BY <4>2 DEF Closed
    <3>4. DOMAIN store \subseteq S \cup {x}
      BY <2>1, <3>3 DEF Placed, Connected
    <3>5. QED BY <3>4
  <2>2. QED BY <2>1 DEF Connected
<1>10. \A id \in DOMAIN after : Refs(after[id]) \subseteq DOMAIN after \ {Root}
  <2>1. Refs(after[n]) \subseteq DOMAIN after \ {Root}
    BY <1>1, <1>3, <1>7
  <2>2. Refs(after[p]) \subseteq DOMAIN after \ {Root}
    BY <1>1, <1>4
  <2>3. \A id \in DOMAIN after \ {p, n} : Refs(after[id]) \subseteq DOMAIN after \ {Root}
    BY <1>1, <1>7
  <2>4. QED BY <2>1, <2>2, <2>3
<1>11. \A id \in DOMAIN after : IsInjective(Kids(after[id]))
  BY DEF Placed
<1>12. ASSUME NEW id \in DOMAIN after, NEW kid \in Range(Kids(after[id]))
       PROVE  AllowsChild(after[id].kind, after[kid].kind)
  <2>1. kid \in Range(Kids(store[id]))
    BY <1>12
  <2>2. kid \in DOMAIN after
    <3>1. id # p => kid # x
      BY <1>2, <1>7, <2>1
    <3>2. id = p => kid # x
      BY <1>12
    <3>3. kid \in DOMAIN store
      BY <1>1, <1>2, <2>1
    <3>4. QED BY <3>1, <3>2, <3>3
  <2>3. QED BY <2>1, <2>2 DEF Placed
<1>13. ASSUME NEW id \in DOMAIN after, after[id].content.shape = "inline", NEW a \in Refs(after[id])
       PROVE  after[a].kind \in AtomKinds
  <2>1. PICK old \in DOMAIN store : store[old].content.shape = "inline" /\ a \in Refs(store[old])
    <3>1. CASE id = n
      BY <1>13, <3>1
    <3>2. CASE id # n
      BY <1>3, <1>13, <3>2
    <3>3. QED BY <3>1, <3>2
  <2>2. a \in DOMAIN after
    BY <1>10, <1>13
  <2>3. QED BY <2>1, <2>2 DEF Placed
<1>14. ASSUME NEW id \in DOMAIN after, NEW other \in DOMAIN after, id # other,
              NEW a \in Refs(after[id]) \cap Refs(after[other])
       PROVE  FALSE
  <2>1. \A i \in DOMAIN after : a \in Refs(after[i]) =>
          \/ a \in Refs(store[i])
          \/ i = n /\ a \in Refs(store[x])
    BY <1>3, <1>4
  <2>2. ~(a \in Refs(store[id]) /\ a \in Refs(store[other]))
    BY <1>6, <1>14
  <2>3. \A i \in DOMAIN after : ~(a \in Refs(store[x]) /\ a \in Refs(store[i]))
    BY <1>6
  <2>4. QED BY <1>14, <2>1, <2>2, <2>3
<1>15. \A id, other \in DOMAIN after : id # other => Refs(after[id]) \cap Refs(after[other]) = {}
  BY <1>14
<1>16. QED BY <1>8, <1>9, <1>10, <1>11, <1>12, <1>13, <1>15 DEF Placed

-----------------------------------------------------------------------------
(* Nodes and stores rewritten.                                             *)

\* What the content of a node refers to.
LEMMA NodeIs ==
  ASSUME NEW node, WellMade(node)
  PROVE  /\ node.content.shape = ShapeOf(node.kind)
         /\ node.content.shape = "inline" =>
              MixedContent(node.content) /\ Refs(node) = AtomsOf(node.content)
         /\ node.content.shape = "children" =>
              Kids(node) = node.content.kids /\ Kids(node) \in Seq(Nat)
         /\ node.content.shape # "inline" => Refs(node) = Range(Kids(node))
         /\ node.content.shape # "children" => Kids(node) = <<>>
BY DEF WellMade, NodeOK, Refs, Kids

\* Content of a shape.
Fits(c, shape) ==
  /\ c.shape = shape
  /\ shape = "inline" => MixedContent(c)
  /\ shape = "children" => c = Children(c.kids) /\ c.kids \in Seq(Nat)
  /\ shape = "atom" => c = AtomContent(c.marks) /\ c.marks \subseteq Marks

\* A node takes content of its shape.
LEMMA Reworked ==
  ASSUME NEW node, WellMade(node), NEW c, Fits(c, node.content.shape)
  PROVE  /\ WellMade([node EXCEPT !.content = c])
         /\ [node EXCEPT !.content = c].content = c
         /\ [node EXCEPT !.content = c].kind = node.kind
<1> DEFINE new == [node EXCEPT !.content = c]
<1>1. node = Node(node.kind, node.attrs, node.content)
  BY DEF WellMade
<1>2. new = Node(node.kind, node.attrs, c)
  BY <1>1 DEF Node
<1> HIDE DEF new
<1>3. new.kind = node.kind /\ new.attrs = node.attrs /\ new.content = c
  BY <1>2 DEF Node
<1>4. NodeOK(new)
  BY <1>3 DEF NodeOK, WellMade, Fits
<1>5. WellMade(new)
  BY <1>2, <1>3, <1>4 DEF WellMade, Fits
<1>6. QED BY <1>3, <1>5 DEF new

\* So does a node of a store.
LEMMA RewriteMade ==
  ASSUME NEW store, MadeOf(store), NEW id \in DOMAIN store, NEW c,
         Fits(c, store[id].content.shape)
  PROVE  /\ MadeOf(Rewrite(store, id, c))
         /\ DOMAIN Rewrite(store, id, c) = DOMAIN store
         /\ Rewrite(store, id, c)[id].kind = store[id].kind
         /\ Rewrite(store, id, c)[id].content = c
         /\ \A other \in DOMAIN store \ {id} : Rewrite(store, id, c)[other] = store[other]
<1> DEFINE node == [store[id] EXCEPT !.content = c]
           after == [store EXCEPT ![id] = node]
<1>1. Rewrite(store, id, c) = after
  BY DEF Rewrite
<1>2. WellMade(node) /\ node.content = c /\ node.kind = store[id].kind
  BY Reworked DEF MadeOf
<1> HIDE DEF node
<1>3. /\ DOMAIN after = DOMAIN store /\ after = [x \in DOMAIN after |-> after[x]]
      /\ after[id] = node
      /\ \A other \in DOMAIN store \ {id} : after[other] = store[other]
  OBVIOUS
<1> HIDE DEF after
<1>4. MadeOf(after)
  BY <1>2, <1>3 DEF MadeOf
<1>5. QED BY <1>1, <1>2, <1>3, <1>4

\* A well-made node enters a store.
LEMMA WithNodeMade ==
  ASSUME NEW store, MadeOf(store), NEW new \in Nat, new \notin DOMAIN store,
         NEW node, WellMade(node)
  PROVE  /\ MadeOf(WithNode(store, new, node))
         /\ DOMAIN WithNode(store, new, node) = DOMAIN store \cup {new}
         /\ WithNode(store, new, node)[new] = node
         /\ \A id \in DOMAIN store : WithNode(store, new, node)[id] = store[id]
<1> DEFINE after == WithNode(store, new, node)
<1>1. after = [id \in DOMAIN store \cup {new} |->
                 IF id \in DOMAIN store THEN store[id] ELSE [x \in {new} |-> node][id]]
  BY DEF WithNode, With
<1>2. /\ DOMAIN after = DOMAIN store \cup {new} /\ after = [id \in DOMAIN after |-> after[id]]
      /\ after[new] = node
      /\ \A id \in DOMAIN store : after[id] = store[id]
  BY <1>1
<1> HIDE DEF after
<1>3. IsFiniteSet(DOMAIN after)
  BY <1>2, FS_AddElement DEF MadeOf
<1>4. MadeOf(after)
  BY <1>2, <1>3 DEF MadeOf
<1>5. QED BY <1>2, <1>4 DEF after

\* Nodes leave a store.
LEMMA WithoutMade ==
  ASSUME NEW store, MadeOf(store), NEW ids
  PROVE  /\ MadeOf(Without(store, ids))
         /\ DOMAIN Without(store, ids) = DOMAIN store \ ids
         /\ \A id \in DOMAIN store \ ids : Without(store, ids)[id] = store[id]
<1> DEFINE after == Without(store, ids)
<1>1. after = [id \in DOMAIN store \ ids |-> store[id]]
  BY DEF Without, Restrict
<1>2. /\ DOMAIN after = DOMAIN store \ ids /\ after = [id \in DOMAIN after |-> after[id]]
      /\ \A id \in DOMAIN store \ ids : after[id] = store[id]
  BY <1>1
<1> HIDE DEF after
<1>3. IsFiniteSet(DOMAIN after)
  BY <1>2, FS_Subset DEF MadeOf
<1>4. MadeOf(after)
  BY <1>2, <1>3 DEF MadeOf
<1>5. QED BY <1>2, <1>4 DEF after

-----------------------------------------------------------------------------
(* Documents stay documents.                                               *)

\* Content changes, its atoms do not.
LEMMA ContentRewritten ==
  ASSUME NEW store, IsDocument(store), NEW id \in DOMAIN store,
         store[id].content.shape = "inline",
         NEW c, MixedContent(c), AtomsOf(c) = AtomsOf(store[id].content)
  PROVE  IsDocument(Rewrite(store, id, c))
<1> DEFINE after == Rewrite(store, id, c)
<1>1. MadeOf(store) /\ Placed(store)
  BY DocumentIs
<1>2. Fits(c, "inline")
  BY Laid DEF Fits
<1>3. /\ MadeOf(after) /\ DOMAIN after = DOMAIN store
      /\ after[id].kind = store[id].kind /\ after[id].content = c
      /\ \A other \in DOMAIN store \ {id} : after[other] = store[other]
  BY <1>1, <1>2, RewriteMade
<1> HIDE DEF after
<1>4. /\ WellMade(store[id]) /\ WellMade(after[id]) /\ after[id].content.shape = "inline"
  BY <1>1, <1>2, <1>3 DEF MadeOf, Fits
<1>5. Refs(after[id]) = Refs(store[id]) /\ Kids(after[id]) = Kids(store[id])
  BY <1>3, <1>4, NodeIs
<1>6. Placed(after)
  BY <1>1, <1>3, <1>4, <1>5, PlacedAsBefore
<1>7. QED BY <1>3, <1>6, DocumentIs DEF after

\* The marks of an atom change.
LEMMA AtomRemarked ==
  ASSUME NEW store, IsDocument(store), NEW id \in DOMAIN store,
         store[id].content.shape = "atom", NEW marks, marks \subseteq Marks
  PROVE  IsDocument(Rewrite(store, id, AtomContent(marks)))
<1> DEFINE c == AtomContent(marks)
           after == Rewrite(store, id, c)
<1>1. MadeOf(store) /\ Placed(store)
  BY DocumentIs
<1>2. Fits(c, "atom") /\ c.shape = "atom"
  BY DEF Fits, AtomContent
<1> HIDE DEF c
<1>3. /\ MadeOf(after) /\ DOMAIN after = DOMAIN store
      /\ after[id].kind = store[id].kind /\ after[id].content = c
      /\ \A other \in DOMAIN store \ {id} : after[other] = store[other]
  BY <1>1, <1>2, RewriteMade
<1> HIDE DEF after
<1>4. /\ WellMade(store[id]) /\ WellMade(after[id]) /\ after[id].content.shape = "atom"
  BY <1>1, <1>2, <1>3 DEF MadeOf
<1>5. Refs(after[id]) = Refs(store[id]) /\ Kids(after[id]) = Kids(store[id])
  BY <1>3, <1>4, NodeIs
<1>6. Placed(after)
  BY <1>1, <1>3, <1>4, <1>5, PlacedAsBefore
<1>7. QED BY <1>3, <1>6, DocumentIs DEF after, c

\* The kinds of the three shapes that matter.
LEMMA ShapesAre ==
  /\ \A kind : ShapeOf(kind) = "inline" <=> kind \in Textual
  /\ \A kind \in AtomKinds : ShapeOf(kind) = "atom"
  /\ \A kind : ShapeOf(kind) = "children" <=> kind \in Containers
<1>1. Containers \cap Textual = {} /\ AtomKinds \cap Containers = {} /\ AtomKinds \cap Textual = {}
  BY AtomKindsApart DEF Containers, Textual, Lists
<1>2. ASSUME NEW kind
      PROVE  /\ kind \in Containers => ShapeOf(kind) = "children"
             /\ kind \in Textual => ShapeOf(kind) = "inline"
             /\ kind \in AtomKinds => ShapeOf(kind) = "atom"
             /\ kind \notin Containers \cup Textual \cup AtomKinds => ShapeOf(kind) = "atomic"
  BY <1>1 DEF ShapeOf
<1>3. QED BY <1>2

\* What parents of text allow: any other text.
LEMMA TextSiblings ==
  ASSUME NEW parent, NEW child \in Textual, NEW sibling \in Textual, AllowsChild(parent, child)
  PROVE  AllowsChild(parent, sibling)
<1>1. child \notin {"ListItem", "TaskItem"}
  BY DEF Textual
<1>2. parent \notin Lists /\ parent \in Containers
  BY <1>1 DEF AllowsChild, Lists, Containers
<1>3. sibling \notin {"Document", "ListItem", "TaskItem"} \cup AtomKinds
  BY AtomKindsApart DEF Textual
<1>4. QED BY <1>2, <1>3 DEF AllowsChild, Lists, Containers

\* An atom enters the content of a node.
LEMMA AtomEnters ==
  ASSUME NEW store, IsDocument(store), NEW at \in DOMAIN store,
         store[at].content.shape = "inline",
         NEW offset, NEW index, ValidGap(store[at].content, offset, index),
         NEW atom \in Nat, atom \notin DOMAIN store,
         NEW node, WellMade(node), node.kind \in AtomKinds
  PROVE  IsDocument(WithNode(Rewrite(store, at, AttachAtom(store[at].content, offset, index, atom)),
                             atom, node))
<1> DEFINE old == store[at].content
           c == AttachAtom(old, offset, index, atom)
           base == Rewrite(store, at, c)
           after == WithNode(base, atom, node)
<1>1. MadeOf(store) /\ Placed(store) /\ WellMade(store[at])
  BY DocumentIs DEF MadeOf
<1>2. MixedContent(old) /\ Refs(store[at]) = AtomsOf(old) /\ Kids(store[at]) = <<>>
  BY <1>1, NodeIs
<1>3. Refs(store[at]) \subseteq DOMAIN store
  BY <1>1 DEF Placed
<1>4. MixedContent(c) /\ AtomsOf(c) = AtomsOf(old) \cup {atom}
  BY <1>2, <1>3, AttachKeeps
<1> HIDE DEF c
<1>5. Fits(c, "inline") /\ c.shape = "inline"
  BY <1>4, Laid DEF Fits
<1>6. /\ MadeOf(base) /\ DOMAIN base = DOMAIN store
      /\ base[at].kind = store[at].kind /\ base[at].content = c
      /\ \A other \in DOMAIN store \ {at} : base[other] = store[other]
  BY <1>1, <1>5, RewriteMade
<1> HIDE DEF base
<1>7. /\ MadeOf(after) /\ DOMAIN after = DOMAIN store \cup {atom}
      /\ after[atom] = node
      /\ \A id \in DOMAIN store : after[id] = base[id]
  <2>1. MadeOf(base) /\ atom \notin DOMAIN base
    BY <1>6
  <2>2. /\ MadeOf(WithNode(base, atom, node))
        /\ DOMAIN WithNode(base, atom, node) = DOMAIN base \cup {atom}
        /\ WithNode(base, atom, node)[atom] = node
        /\ \A id \in DOMAIN base : WithNode(base, atom, node)[id] = base[id]
    BY <2>1, WithNodeMade
  <2>3. QED BY <1>6, <2>2
<1> HIDE DEF after
<1>8. /\ WellMade(after[at])
      /\ after[at].content = c
  BY <1>6, <1>7 DEF MadeOf
<1>9. Refs(after[at]) = Refs(store[at]) \cup {atom} /\ Kids(after[at]) = Kids(store[at])
  BY <1>2, <1>4, <1>5, <1>8, NodeIs
<1>10. node.content.shape = "atom" /\ Kids(node) = <<>>
  BY NodeIs, ShapesAre
<1>11. \A id \in DOMAIN store :
         /\ after[id].kind = store[id].kind
         /\ after[id].content.shape = store[id].content.shape
         /\ Kids(after[id]) = Kids(store[id])
         /\ id # at => Refs(after[id]) = Refs(store[id])
  BY <1>5, <1>6, <1>7, <1>9
<1>12. Placed(after)
  BY <1>1, <1>7, <1>9, <1>10, <1>11, PlacedWithAtom
<1>13. QED BY <1>7, <1>12, DocumentIs DEF after, base, c

\* An atom leaves the content of a node, and the store.
LEMMA AtomLeaves ==
  ASSUME NEW store, IsDocument(store), NEW at \in DOMAIN store,
         store[at].content.shape = "inline", NEW k \in DOMAIN store[at].content.atoms
  PROVE  LET atom == store[at].content.atoms[k].atom
         IN /\ atom \in DOMAIN store /\ WellMade(store[atom]) /\ store[atom].kind \in AtomKinds
            /\ IsDocument(Without(Rewrite(store, at, DetachAtom(store[at].content, k)), {atom}))
<1> DEFINE old == store[at].content
           atom == old.atoms[k].atom
           c == DetachAtom(old, k)
           base == Rewrite(store, at, c)
           after == Without(base, {atom})
<1>1. MadeOf(store) /\ Placed(store) /\ WellMade(store[at])
  BY DocumentIs DEF MadeOf
<1>2. MixedContent(old) /\ Refs(store[at]) = AtomsOf(old) /\ Kids(store[at]) = <<>>
  BY <1>1, NodeIs
<1>3. k \in 1..Len(old.atoms)
  BY <1>2, Laid
<1>4. MixedContent(c) /\ AtomsOf(c) = AtomsOf(old) \ {atom}
  BY <1>2, <1>3, DetachKeeps
<1>5. atom \in Refs(store[at])
  BY <1>2 DEF AtomsOf
<1> HIDE DEF c, atom
<1>6. atom \in DOMAIN store /\ store[atom].kind \in AtomKinds
  BY <1>1, <1>5 DEF Placed
<1>7. WellMade(store[atom]) /\ store[atom].content.shape = "atom" /\ Refs(store[atom]) = {}
  <2>1. WellMade(store[atom])
    BY <1>1, <1>6 DEF MadeOf
  <2>2. store[atom].content.shape = "atom"
    BY <1>6, <2>1, NodeIs, ShapesAre
  <2>3. Refs(store[atom]) = Range(<<>>)
    BY <2>1, <2>2, NodeIs
  <2>4. Range(<<>>) = {}
    BY DEF Range
  <2>5. QED BY <2>1, <2>2, <2>3, <2>4
<1>8. at # atom
  BY <1>7
<1>9. Fits(c, "inline") /\ c.shape = "inline"
  BY <1>4, Laid DEF Fits
<1>10. /\ MadeOf(base) /\ DOMAIN base = DOMAIN store
       /\ base[at].kind = store[at].kind /\ base[at].content = c
       /\ \A other \in DOMAIN store \ {at} : base[other] = store[other]
  BY <1>1, <1>9, RewriteMade
<1> HIDE DEF base
<1>11. /\ MadeOf(after) /\ DOMAIN after = DOMAIN store \ {atom}
       /\ \A id \in DOMAIN store \ {atom} : after[id] = base[id]
  BY <1>10, WithoutMade
<1> HIDE DEF after
<1>12. WellMade(after[at]) /\ after[at].content = c
  BY <1>8, <1>10, <1>11 DEF MadeOf
<1>13. Refs(after[at]) = Refs(store[at]) \ {atom} /\ Kids(after[at]) = Kids(store[at])
  BY <1>2, <1>4, <1>9, <1>12, NodeIs
<1>14. \A id \in DOMAIN store \ {atom} :
         /\ after[id].kind = store[id].kind
         /\ after[id].content.shape = store[id].content.shape
         /\ Kids(after[id]) = Kids(store[id])
         /\ id # at => Refs(after[id]) = Refs(store[id])
  BY <1>9, <1>10, <1>11, <1>13
<1>15. Placed(after)
  BY <1>1, <1>5, <1>6, <1>7, <1>8, <1>11, <1>13, <1>14, PlacedWithoutAtom
<1>16. IsDocument(after)
  BY <1>11, <1>15, DocumentIs
<1>17. QED BY <1>6, <1>7, <1>16 DEF after, base, c, atom

\* Kids gained and lost.
LEMMA KidsInserted ==
  ASSUME NEW kids \in Seq(Nat), IsInjective(kids), NEW k \in 1..(Len(kids) + 1),
         NEW x \in Nat, x \notin Range(kids)
  PROVE  /\ InsertAt(kids, k, x) \in Seq(Nat)
         /\ Range(InsertAt(kids, k, x)) = Range(kids) \cup {x}
         /\ IsInjective(InsertAt(kids, k, x))
<1> DEFINE new == InsertAt(kids, k, x)
           n == Len(kids)
           was == [i \in 1..(n + 1) |-> IF i < k THEN i ELSE i - 1]
<1>1. n \in Nat /\ DOMAIN kids = 1..n /\ k \in 1..(n + 1)
  OBVIOUS
<1>2. /\ new \in Seq(Nat) /\ Len(new) = n + 1
      /\ \A i \in 1..(n + 1) : new[i] = IF i < k THEN kids[i] ELSE IF i = k THEN x ELSE kids[i - 1]
  <2> DEFINE T == Nat
  <2>1. kids \in Seq(T) /\ x \in T
    OBVIOUS
  <2> HIDE DEF T
  <2>2. /\ InsertAt(kids, k, x) \in Seq(T)
        /\ Len(InsertAt(kids, k, x)) = Len(kids) + 1
        /\ \A i \in 1..(Len(kids) + 1) :
             InsertAt(kids, k, x)[i]
               = IF i < k THEN kids[i] ELSE IF i = k THEN x ELSE kids[i - 1]
    BY <2>1, Inserted
  <2>3. QED BY <2>2 DEF T
<1>3. DOMAIN new = 1..(n + 1)
  BY <1>2
<1> HIDE DEF new, n
<1>4. \A i \in 1..(n + 1) : i # k => was[i] \in 1..n /\ new[i] = kids[was[i]]
  BY <1>1, <1>2
<1>5. k \in 1..(n + 1) /\ new[k] = x
  BY <1>1, <1>2
<1>6. \A i, j \in 1..(n + 1) : i # k /\ j # k /\ i # j => was[i] # was[j]
  BY <1>1
<1>7. \A i \in 1..n : \E j \in 1..(n + 1) : j # k /\ was[j] = i
  <2>1. TAKE i \in 1..n
  <2>2. CASE i < k
    <3>1. i \in 1..(n + 1) /\ i # k /\ was[i] = i
      BY <1>1, <2>2
    <3> HIDE DEF was
    <3>2. QED BY <3>1
  <2>3. CASE i >= k
    <3>1. i + 1 \in 1..(n + 1) /\ i + 1 # k /\ was[i + 1] = i
      BY <1>1, <2>3
    <3> HIDE DEF was
    <3>2. QED BY <3>1
  <2>4. QED BY <1>1, <2>2, <2>3
<1> HIDE DEF was
<1>8. Range(new) = Range(kids) \cup {x}
  <2>1. ASSUME NEW i \in 1..(n + 1) PROVE new[i] \in Range(kids) \cup {x}
    <3>1. CASE i = k
      BY <1>5, <3>1
    <3>2. CASE i # k
      <4>1. was[i] \in DOMAIN kids /\ new[i] = kids[was[i]]
        BY <1>1, <1>4, <3>2
      <4>2. QED BY <4>1 DEF Range
    <3>3. QED BY <3>1, <3>2
  <2>2. ASSUME NEW i \in 1..n PROVE kids[i] \in Range(new)
    BY <1>3, <1>4, <1>7 DEF Range
  <2>3. x \in Range(new)
    BY <1>3, <1>5 DEF Range
  <2>4. QED BY <1>1, <1>3, <2>1, <2>2, <2>3 DEF Range
<1>9. IsInjective(new)
  <2>1. ASSUME NEW i \in 1..(n + 1), NEW j \in 1..(n + 1), new[i] = new[j] PROVE i = j
    <3>1. \A z \in 1..(n + 1) : z # k => new[z] # x
      BY <1>1, <1>4 DEF Range
    <3>2. CASE i = k \/ j = k
      BY <1>5, <2>1, <3>1, <3>2
    <3>3. CASE i # k /\ j # k
      <4>1. was[i] = was[j]
        BY <1>1, <1>4, <2>1, <3>3 DEF IsInjective
      <4>2. QED BY <1>6, <3>3, <4>1
    <3>4. QED BY <3>2, <3>3
  <2>2. QED BY <1>3, <2>1 DEF IsInjective
<1>10. QED BY <1>2, <1>8, <1>9 DEF new

\* A parent loses a child.
LEMMA KidsRemoved ==
  ASSUME NEW kids \in Seq(Nat), IsInjective(kids), NEW k \in 1..Len(kids)
  PROVE  /\ RemoveAt(kids, k) \in Seq(Nat)
         /\ Range(RemoveAt(kids, k)) = Range(kids) \ {kids[k]}
         /\ IsInjective(RemoveAt(kids, k))
<1> DEFINE new == RemoveAt(kids, k)
           n == Len(kids)
           was == [i \in 1..(n - 1) |-> IF i < k THEN i ELSE i + 1]
<1>1. n \in Nat /\ DOMAIN kids = 1..n /\ k \in 1..n /\ n - 1 \in Nat
  OBVIOUS
<1>2. /\ new \in Seq(Nat) /\ Len(new) = n - 1
      /\ \A i \in 1..(n - 1) : new[i] = IF i < k THEN kids[i] ELSE kids[i + 1]
  BY Removed
<1>3. DOMAIN new = 1..(n - 1)
  BY <1>1, <1>2
<1> HIDE DEF new, n
<1>4. \A i \in 1..(n - 1) : was[i] \in 1..n /\ was[i] # k /\ new[i] = kids[was[i]]
  BY <1>1, <1>2
<1>5. \A i, j \in 1..(n - 1) : i # j => was[i] # was[j]
  BY <1>1
<1>6. \A i \in 1..n : i # k => \E j \in 1..(n - 1) : was[j] = i
  <2>1. SUFFICES ASSUME NEW i \in 1..n, i # k PROVE \E j \in 1..(n - 1) : was[j] = i
    OBVIOUS
  <2>2. CASE i < k
    <3>1. i \in 1..(n - 1) /\ was[i] = i
      BY <1>1, <2>2
    <3> HIDE DEF was
    <3>2. QED BY <3>1
  <2>3. CASE i > k
    <3>1. i - 1 \in 1..(n - 1) /\ was[i - 1] = i
      BY <1>1, <2>3
    <3> HIDE DEF was
    <3>2. QED BY <3>1
  <2>4. QED BY <1>1, <2>1, <2>2, <2>3
<1> HIDE DEF was
<1>7. \A i \in 1..n : i # k => kids[i] # kids[k]
  BY <1>1 DEF IsInjective
<1>8. Range(new) = Range(kids) \ {kids[k]}
  <2>1. ASSUME NEW i \in 1..(n - 1) PROVE new[i] \in Range(kids) \ {kids[k]}
    <3>1. was[i] \in DOMAIN kids /\ new[i] = kids[was[i]] /\ kids[was[i]] # kids[k]
      BY <1>1, <1>4, <1>7
    <3>2. QED BY <3>1 DEF Range
  <2>2. ASSUME NEW i \in 1..n, i # k PROVE kids[i] \in Range(new)
    BY <1>3, <1>4, <1>6, <2>2 DEF Range
  <2>3. QED BY <1>1, <1>3, <2>1, <2>2 DEF Range
<1>9. IsInjective(new)
  <2>1. ASSUME NEW i \in 1..(n - 1), NEW j \in 1..(n - 1), new[i] = new[j] PROVE i = j
    <3>1. was[i] = was[j]
      BY <1>1, <1>4, <2>1 DEF IsInjective
    <3>2. QED BY <1>5, <3>1
  <2>2. QED BY <1>3, <2>1 DEF IsInjective
<1>10. QED BY <1>2, <1>8, <1>9 DEF new

\* A parent lists its child.
LEMMA IndexIs ==
  ASSUME NEW store, NEW p, NEW id \in Range(Kids(store[p]))
  PROVE  IndexIn(store, p, id) \in DOMAIN Kids(store[p]) /\ Kids(store[p])[IndexIn(store, p, id)] = id
BY DEF IndexIn, Range

\* A parent has children, its child among them.
LEMMA ParentIs ==
  ASSUME NEW store, NEW id, NEW p \in ParentsOf(store, id)
  PROVE  /\ p \in DOMAIN store /\ id \in Range(Kids(store[p]))
         /\ store[p].content.shape = "children"
<1>1. p \in DOMAIN store /\ id \in Range(Kids(store[p]))
  BY DEF ParentsOf
<1>2. Range(<<>>) = {}
  BY DEF Range
<1>3. QED BY <1>1, <1>2 DEF Kids

\* A new list of kids for a node.
LEMMA Refilled ==
  ASSUME NEW store, MadeOf(store), NEW p \in DOMAIN store, store[p].content.shape = "children",
         NEW kids \in Seq(Nat)
  PROVE  /\ MadeOf(Rewrite(store, p, Children(kids)))
         /\ DOMAIN Rewrite(store, p, Children(kids)) = DOMAIN store
         /\ Rewrite(store, p, Children(kids))[p].kind = store[p].kind
         /\ Rewrite(store, p, Children(kids))[p].content.shape = "children"
         /\ Kids(Rewrite(store, p, Children(kids))[p]) = kids
         /\ \A other \in DOMAIN store \ {p} : Rewrite(store, p, Children(kids))[other] = store[other]
<1> DEFINE c == Children(kids)
           after == Rewrite(store, p, c)
<1>1. c.shape = "children" /\ c.kids = kids /\ Fits(c, "children")
  BY DEF Children, Fits
<1> HIDE DEF c
<1>2. /\ MadeOf(after) /\ DOMAIN after = DOMAIN store
      /\ after[p].kind = store[p].kind /\ after[p].content = c
      /\ \A other \in DOMAIN store \ {p} : after[other] = store[other]
  BY <1>1, RewriteMade
<1> HIDE DEF after
<1>3. Kids(after[p]) = kids /\ after[p].content.shape = "children"
  BY <1>1, <1>2 DEF Kids
<1>4. QED BY <1>2, <1>3 DEF after, c

\* The tail of a node enters as its next sibling.
LEMMA TailEnters ==
  ASSUME NEW store, IsDocument(store), NEW n \in DOMAIN store,
         store[n].content.shape = "inline", NEW p \in ParentsOf(store, n),
         NEW offset, NEW index, ValidGap(store[n].content, offset, index),
         NEW x \in Nat, x \notin DOMAIN store,
         NEW tail, WellMade(tail), tail.content = TailOf(store[n].content, offset, index)
  PROVE  IsDocument(WithNode(Insert(Rewrite(store, n, HeadOf(store[n].content, offset, index)),
                                    p, IndexIn(store, p, n), x), x, tail))
<1> DEFINE old == store[n].content
           head == HeadOf(old, offset, index)
           cut == Rewrite(store, n, head)
           at == IndexIn(store, p, n)
           kids == InsertAt(Kids(store[p]), at + 1, x)
           base == Insert(cut, p, at, x)
           after == WithNode(base, x, tail)
<1>1. MadeOf(store) /\ Placed(store) /\ WellMade(store[n])
  BY DocumentIs DEF MadeOf
<1>2. /\ p \in DOMAIN store /\ store[p].content.shape = "children" /\ p # n
      /\ n \in Range(Kids(store[p]))
  BY ParentIs
<1>3. MixedContent(old) /\ Refs(store[n]) = AtomsOf(old) /\ Kids(store[n]) = <<>>
  BY <1>1, NodeIs
<1>4. /\ MixedContent(head) /\ MixedContent(tail.content)
      /\ AtomsOf(head) \cup AtomsOf(tail.content) = AtomsOf(old)
      /\ AtomsOf(head) \cap AtomsOf(tail.content) = {}
  BY <1>3, CutKeeps
<1> HIDE DEF head
<1>5. Fits(head, "inline") /\ head.shape = "inline"
  BY <1>4, Laid DEF Fits
<1>6. /\ MadeOf(cut) /\ DOMAIN cut = DOMAIN store
      /\ cut[n].kind = store[n].kind /\ cut[n].content = head
      /\ \A other \in DOMAIN store \ {n} : cut[other] = store[other]
  BY <1>1, <1>5, RewriteMade
<1>7. /\ Kids(store[p]) \in Seq(Nat) /\ IsInjective(Kids(store[p]))
      /\ at \in 1..Len(Kids(store[p])) /\ x \notin Range(Kids(store[p]))
  <2>1. WellMade(store[p]) /\ IsInjective(Kids(store[p]))
    BY <1>1, <1>2 DEF MadeOf, Placed
  <2>2. Kids(store[p]) \in Seq(Nat) /\ Refs(store[p]) = Range(Kids(store[p]))
    BY <1>2, <2>1, NodeIs
  <2>3. Refs(store[p]) \subseteq DOMAIN store
    BY <1>1, <1>2 DEF Placed
  <2>4. at \in DOMAIN Kids(store[p])
    BY <1>2, IndexIs
  <2>5. QED BY <2>1, <2>2, <2>3, <2>4
<1>8. base = Rewrite(cut, p, Children(kids))
  BY <1>2, <1>6 DEF Insert
<1> HIDE DEF cut, at
<1>9. /\ kids \in Seq(Nat) /\ Range(kids) = Range(Kids(store[p])) \cup {x}
      /\ IsInjective(kids)
  <2> DEFINE s == Kids(store[p])
             k == at + 1
  <2>1. s \in Seq(Nat) /\ IsInjective(s) /\ k \in 1..(Len(s) + 1) /\ x \notin Range(s)
    BY <1>7
  <2> HIDE DEF s, k
  <2>2. /\ InsertAt(s, k, x) \in Seq(Nat) /\ Range(InsertAt(s, k, x)) = Range(s) \cup {x}
        /\ IsInjective(InsertAt(s, k, x))
    BY <2>1, KidsInserted
  <2>3. QED BY <2>2 DEF s, k
<1> HIDE DEF kids, base
<1>10. /\ MadeOf(base) /\ DOMAIN base = DOMAIN store
       /\ base[p].kind = cut[p].kind /\ base[p].content.shape = "children"
       /\ Kids(base[p]) = kids
       /\ \A other \in DOMAIN store \ {p} : base[other] = cut[other]
  <2>1. cut[p].content.shape = "children" /\ p \in DOMAIN cut
    BY <1>2, <1>6
  <2>2. QED BY <1>6, <1>8, <1>9, <2>1, Refilled
<1>11. /\ MadeOf(after) /\ DOMAIN after = DOMAIN store \cup {x}
       /\ after[x] = tail
       /\ \A id \in DOMAIN store : after[id] = base[id]
  <2>1. x \notin DOMAIN base
    BY <1>10
  <2>2. /\ MadeOf(WithNode(base, x, tail))
        /\ DOMAIN WithNode(base, x, tail) = DOMAIN base \cup {x}
        /\ WithNode(base, x, tail)[x] = tail
        /\ \A id \in DOMAIN base : WithNode(base, x, tail)[id] = base[id]
    BY <1>10, <2>1, WithNodeMade
  <2>3. QED BY <1>10, <2>2
<1> HIDE DEF after
<1>12. after[n].content = head /\ after[n].kind = store[n].kind /\ WellMade(after[n])
  BY <1>2, <1>6, <1>10, <1>11 DEF MadeOf
<1>13. Refs(after[n]) = AtomsOf(head) /\ Kids(after[n]) = Kids(store[n])
  BY <1>3, <1>5, <1>12, NodeIs
<1>14. /\ tail.content.shape = "inline" /\ Refs(tail) = AtomsOf(tail.content)
       /\ Kids(tail) = <<>> /\ tail.kind \in Textual /\ store[n].kind \in Textual
  <2>1. tail.content.shape = "inline"
    BY <1>4, Laid
  <2>2. tail.kind \in Textual /\ store[n].kind \in Textual
    BY <1>1, <2>1, NodeIs, ShapesAre
  <2>3. QED BY <2>1, <2>2, NodeIs
<1>15. after[p].kind = store[p].kind /\ after[p].content.shape = "children" /\ Kids(after[p]) = kids
  BY <1>2, <1>6, <1>10, <1>11
<1>16. AllowsChild(after[p].kind, after[x].kind)
  <2>1. AllowsChild(store[p].kind, store[n].kind)
    BY <1>1, <1>2 DEF Placed
  <2>2. QED BY <1>11, <1>14, <1>15, <2>1, TextSiblings
<1>17. \A id \in DOMAIN store :
         /\ after[id].kind = store[id].kind
         /\ after[id].content.shape = store[id].content.shape
         /\ id # p => Kids(after[id]) = Kids(store[id])
         /\ id \notin {p, n} => Refs(after[id]) = Refs(store[id])
  <2>1. ASSUME NEW id \in DOMAIN store \ {p, n} PROVE after[id] = store[id]
    BY <1>6, <1>10, <1>11
  <2>2. QED BY <1>2, <1>5, <1>12, <1>13, <1>15, <2>1
<1>18. Placed(after)
  <2>1. /\ Range(Kids(after[p])) = Range(Kids(store[p])) \cup {x} /\ IsInjective(Kids(after[p]))
        /\ Refs(after[n]) \cup Refs(after[x]) = Refs(store[n])
        /\ Refs(after[n]) \cap Refs(after[x]) = {}
        /\ after[x].content.shape = "inline" /\ Kids(after[x]) = <<>>
    BY <1>3, <1>4, <1>9, <1>11, <1>13, <1>14, <1>15
  <2>2. /\ Placed(store) /\ p \in DOMAIN store /\ n \in DOMAIN store /\ x \notin DOMAIN store
        /\ DOMAIN after = DOMAIN store \cup {x}
        /\ store[p].content.shape = "children" /\ store[n].content.shape = "inline"
        /\ n \in Range(Kids(store[p]))
    BY <1>1, <1>2, <1>11
  <2>3. Grown(store, after, p, n, x)
    BY <1>16, <1>17, <2>1, <2>2 DEF Grown
  <2>4. QED BY <2>2, <2>3, PlacedWithTail
<1>19. IsDocument(after)
  BY <1>11, <1>18, DocumentIs
<1>20. QED BY <1>19 DEF after, base, cut, at, head

\* A node is joined to the sibling before it.
LEMMA TailLeaves ==
  ASSUME NEW store, IsDocument(store), NEW n \in DOMAIN store, NEW x \in DOMAIN store, n # x,
         store[n].content.shape = "inline", store[x].content.shape = "inline",
         NEW p \in ParentsOf(store, n), x \in Range(Kids(store[p]))
  PROVE  IsDocument(Without(Detach(Rewrite(store, n, Joined(store[n].content, store[x].content)),
                                   p, x), {x}))
<1> DEFINE a == store[n].content
           b == store[x].content
           both == Joined(a, b)
           cut == Rewrite(store, n, both)
           at == IndexIn(store, p, x)
           kids == RemoveAt(Kids(store[p]), at)
           base == Detach(cut, p, x)
           after == Without(base, {x})
<1>1. MadeOf(store) /\ Placed(store) /\ WellMade(store[n]) /\ WellMade(store[x])
  BY DocumentIs DEF MadeOf
<1>2. /\ p \in DOMAIN store /\ store[p].content.shape = "children" /\ p # n /\ p # x
      /\ n \in Range(Kids(store[p]))
  BY ParentIs
<1>3. /\ MixedContent(a) /\ Refs(store[n]) = AtomsOf(a) /\ Kids(store[n]) = <<>>
      /\ MixedContent(b) /\ Refs(store[x]) = AtomsOf(b)
  BY <1>1, NodeIs
<1>4. MixedContent(both) /\ AtomsOf(both) = AtomsOf(a) \cup AtomsOf(b)
  <2>1. AtomsOf(a) \cap AtomsOf(b) = {}
    BY <1>1, <1>3 DEF Placed
  <2>2. QED BY <1>3, <2>1, JoinKeeps
<1> HIDE DEF both
<1>5. Fits(both, "inline") /\ both.shape = "inline"
  BY <1>4, Laid DEF Fits
<1>6. /\ MadeOf(cut) /\ DOMAIN cut = DOMAIN store
      /\ cut[n].kind = store[n].kind /\ cut[n].content = both
      /\ \A other \in DOMAIN store \ {n} : cut[other] = store[other]
  BY <1>1, <1>5, RewriteMade
<1>7. /\ Kids(store[p]) \in Seq(Nat) /\ IsInjective(Kids(store[p]))
      /\ at \in 1..Len(Kids(store[p])) /\ Kids(store[p])[at] = x
  <2>1. WellMade(store[p]) /\ IsInjective(Kids(store[p]))
    BY <1>1, <1>2 DEF MadeOf, Placed
  <2>2. Kids(store[p]) \in Seq(Nat)
    BY <1>2, <2>1, NodeIs
  <2>3. at \in DOMAIN Kids(store[p]) /\ Kids(store[p])[at] = x
    BY <1>2, IndexIs
  <2>4. QED BY <2>1, <2>2, <2>3
<1>8. base = Rewrite(cut, p, Children(kids))
  <2>1. cut[p] = store[p]
    BY <1>2, <1>6
  <2>2. IndexIn(cut, p, x) = at
    BY <2>1 DEF IndexIn
  <2>3. QED BY <2>1, <2>2 DEF Detach
<1> HIDE DEF cut, at
<1>9. /\ kids \in Seq(Nat) /\ Range(kids) = Range(Kids(store[p])) \ {x}
      /\ IsInjective(kids)
  BY <1>7, KidsRemoved
<1> HIDE DEF kids, base
<1>10. /\ MadeOf(base) /\ DOMAIN base = DOMAIN store
       /\ base[p].kind = cut[p].kind /\ base[p].content.shape = "children"
       /\ Kids(base[p]) = kids
       /\ \A other \in DOMAIN store \ {p} : base[other] = cut[other]
  <2>1. cut[p].content.shape = "children" /\ p \in DOMAIN cut
    BY <1>2, <1>6
  <2>2. QED BY <1>6, <1>8, <1>9, <2>1, Refilled
<1>11. /\ MadeOf(after) /\ DOMAIN after = DOMAIN store \ {x}
       /\ \A id \in DOMAIN store \ {x} : after[id] = base[id]
  <2> DEFINE gone == {x}
  <2> HIDE DEF gone
  <2>1. /\ MadeOf(Without(base, gone))
        /\ DOMAIN Without(base, gone) = DOMAIN base \ gone
        /\ \A id \in DOMAIN base \ gone : Without(base, gone)[id] = base[id]
    BY <1>10, WithoutMade
  <2>2. QED BY <1>10, <2>1 DEF gone
<1> HIDE DEF after
<1>12. after[n].content = both /\ after[n].kind = store[n].kind /\ WellMade(after[n])
  BY <1>2, <1>6, <1>10, <1>11 DEF MadeOf
<1>13. Refs(after[n]) = AtomsOf(both) /\ Kids(after[n]) = Kids(store[n])
  BY <1>3, <1>5, <1>12, NodeIs
<1>14. after[p].kind = store[p].kind /\ after[p].content.shape = "children" /\ Kids(after[p]) = kids
  BY <1>2, <1>6, <1>10, <1>11
<1>15. \A id \in DOMAIN store \ {x} :
         /\ after[id].kind = store[id].kind
         /\ after[id].content.shape = store[id].content.shape
         /\ id # p => Kids(after[id]) = Kids(store[id])
         /\ id \notin {p, n} => Refs(after[id]) = Refs(store[id])
  <2>1. ASSUME NEW id \in DOMAIN store \ {p, n, x} PROVE after[id] = store[id]
    BY <1>6, <1>10, <1>11
  <2>2. QED BY <1>2, <1>5, <1>12, <1>13, <1>14, <2>1
<1>16. Placed(after)
  <2>1. /\ Range(Kids(after[p])) = Range(Kids(store[p])) \ {x} /\ IsInjective(Kids(after[p]))
        /\ Refs(after[n]) = Refs(store[n]) \cup Refs(store[x])
    BY <1>3, <1>4, <1>9, <1>13, <1>14
  <2>2. /\ Placed(store) /\ p \in DOMAIN store /\ n \in DOMAIN store /\ x \in DOMAIN store
        /\ n # x /\ DOMAIN after = DOMAIN store \ {x}
        /\ store[p].content.shape = "children"
        /\ store[n].content.shape = "inline" /\ store[x].content.shape = "inline"
        /\ n \in Range(Kids(store[p])) /\ x \in Range(Kids(store[p]))
    BY <1>1, <1>2, <1>11
  <2>3. Shrunk(store, after, p, n, x)
    BY <1>15, <2>1, <2>2 DEF Shrunk
  <2>4. QED BY <2>2, <2>3, PlacedWithoutTail
<1>17. IsDocument(after)
  BY <1>11, <1>16, DocumentIs
<1>18. QED BY <1>17 DEF after, base, cut, both

-----------------------------------------------------------------------------
(* Steps on content keep the document, and leave steps that do.            *)

ContentOps ==
  {"ReplaceText", "ReplaceInlineText", "AddMark", "RemoveMark", "InsertInlineAtom",
   "RemoveInlineAtom", "SetInlineAtomMarks", "SplitNode", "SplitInlineNode", "JoinNodes"}
ContentSteps == ContentOps \cup {"RestoreInlineAtom", "RestoreJoinedNode"}

\* Steps with the text, the marks and the nodes that callers and inverses give.
Kept(s) ==
  /\ s.op \in ContentSteps
  /\ s.op \in {"ReplaceText", "ReplaceInlineText"} => s.text \in Seq(TextLetters)
  /\ s.op = "AddMark" => s.mark \in Marks
  /\ s.op = "InsertInlineAtom" => s.kind \in AtomKinds
  /\ s.op \in {"InsertInlineAtom", "SetInlineAtomMarks"} => s.marks \subseteq Marks
  /\ s.op \in {"RestoreInlineAtom", "RestoreJoinedNode"} => s.id \in Nat /\ WellMade(s.node)
KeptAll(q) == \E T : q \in Seq(T) /\ \A s \in T : Kept(s)
Good(r) == IsDocument(r.store) /\ KeptAll(r.inverse)

\* The empty group.
LEMMA KeptNone == KeptAll(<<>>)
<1> DEFINE T == {}
<1>1. <<>> \in Seq(T) /\ \A s \in T : Kept(s)
  OBVIOUS
<1> HIDE DEF T
<1>2. QED BY <1>1 DEF KeptAll

\* One step.
LEMMA KeptOne == ASSUME NEW s, Kept(s) PROVE KeptAll(<<s>>)
<1> DEFINE T == {s}
<1>1. <<s>> \in Seq(T) /\ \A x \in T : Kept(x)
  OBVIOUS
<1> HIDE DEF T
<1>2. QED BY <1>1 DEF KeptAll

\* Mark steps.
LEMMA KeptMarks == ASSUME NEW q, MarkGroup(q) PROVE KeptAll(q)
<1>1. PICK T : q \in Seq(T) /\ \A s \in T : IsMarkStep(s)
  BY DEF MarkGroup
<1>2. \A s \in T : Kept(s)
  BY <1>1 DEF IsMarkStep, Kept, ContentSteps, ContentOps
<1>3. QED BY <1>1, <1>2 DEF KeptAll

\* Two groups.
LEMMA KeptBoth == ASSUME NEW p, NEW q, KeptAll(p), KeptAll(q) PROVE KeptAll(p \o q)
<1>1. PICK S : p \in Seq(S) /\ \A s \in S : Kept(s)
  BY DEF KeptAll
<1>2. PICK T : q \in Seq(T) /\ \A s \in T : Kept(s)
  BY DEF KeptAll
<1>3. p \in Seq(S \cup T) /\ q \in Seq(S \cup T)
  <2>1. Seq(S) \subseteq Seq(S \cup T) /\ Seq(T) \subseteq Seq(S \cup T)
    OBVIOUS
  <2>2. QED BY <1>1, <1>2, <2>1
<1>4. p \o q \in Seq(S \cup T)
  BY <1>3
<1>5. \A s \in S \cup T : Kept(s)
  BY <1>1, <1>2
<1> HIDE DEF KeptAll
<1>6. QED BY <1>4, <1>5 DEF KeptAll

\* Inline content of a document.
LEMMA InlineIs ==
  ASSUME NEW store, IsDocument(store), NEW id, NEW c \in InlineOf(store, id)
  PROVE  /\ id \in DOMAIN store /\ c = store[id].content
         /\ c.shape = "inline" /\ MixedContent(c)
<1>1. id \in DOMAIN store /\ c = store[id].content /\ c.shape = "inline"
  BY DEF InlineOf, ContentIn
<1>2. WellMade(store[id])
  BY <1>1 DEF IsDocument
<1>3. QED BY <1>1, <1>2 DEF WellMade

\* Its atoms carry marks of the schema.
LEMMA AtomsCarryMarks ==
  ASSUME NEW store, IsDocument(store), NEW id, NEW c \in InlineOf(store, id),
         NEW i \in 1..Len(c.atoms)
  PROVE  store[c.atoms[i].atom].content.marks \subseteq Marks
<1>1. /\ id \in DOMAIN store /\ c = store[id].content
      /\ c.shape = "inline" /\ MixedContent(c)
  BY InlineIs
<1>2. i \in DOMAIN c.atoms
  BY <1>1 DEF MixedContent
<1>3. c.atoms[i].atom \in AtomsOf(c)
  BY <1>2 DEF AtomsOf
<1>4. Refs(store[id]) = AtomsOf(c)
  BY <1>1 DEF Refs
<1>5. MadeOf(store) /\ Placed(store)
  BY DocumentIs
<1>6. /\ c.atoms[i].atom \in DOMAIN store
      /\ store[c.atoms[i].atom].kind \in AtomKinds
  BY <1>1, <1>3, <1>4, <1>5 DEF Placed
<1>7. WellMade(store[c.atoms[i].atom])
  BY <1>5, <1>6 DEF MadeOf
<1>8. store[c.atoms[i].atom].content.shape = "atom"
  BY <1>6, <1>7, NodeIs, ShapesAre
<1>9. QED BY <1>7, <1>8 DEF WellMade

\* Text replaced between atoms.
LEMMA ReplaceTextGood ==
  ASSUME NEW w, NEW s, IsDocument(w.store), Kept(s), s.op = "ReplaceText",
         NEW r \in ApplyReplaceText(w, s)
  PROVE  Good(r)
<1> DEFINE Back(c) == <<ReplaceTextStep(s.node, s.start, s.start + Len(s.text),
                                       LettersOf(c, s.start, s.end))>>
           Marked(c) == Remark(s.node, s.start, s.end,
                               RunMarksAt(ReplaceText(c, s.start, s.end, s.text), s.start),
                               SpansWithin(c, s.start, s.end))
<1>1. PICK c \in InlineOf(w.store, s.node) :
        /\ ReplacesText(c, s.start, s.end)
        /\ r.store = Rewrite(w.store, s.node, ReplaceText(c, s.start, s.end, s.text))
        /\ r.inverse = Back(c) \o (IF s.start = s.end THEN <<>> ELSE Marked(c))
  <2>1. PICK c \in {c \in InlineOf(w.store, s.node) : ReplacesText(c, s.start, s.end)} :
          r = Done(Rewrite(w.store, s.node, ReplaceText(c, s.start, s.end, s.text)), w.next,
                   <<TextReplaced(s.node, s.start, s.end, Len(s.text))>>,
                   Back(c) \o (IF s.start = s.end THEN <<>> ELSE Marked(c)))
    BY DEF ApplyReplaceText
  <2> HIDE DEF Back, Marked
  <2>2. QED BY <2>1 DEF Done
<1>2. /\ s.node \in DOMAIN w.store /\ c = w.store[s.node].content
      /\ c.shape = "inline" /\ MixedContent(c)
  BY InlineIs
<1>3. s.start \in 0..Len(c.text) /\ s.end \in s.start..Len(c.text)
  BY <1>1 DEF ReplacesText, ValidOffset
<1>4. KeptAll(Back(c))
  <2>1. LettersOf(c, s.start, s.end) \in Seq(TextLetters)
    BY <1>2, <1>3, LettersAreWords
  <2>2. Kept(ReplaceTextStep(s.node, s.start, s.start + Len(s.text),
                             LettersOf(c, s.start, s.end)))
    BY <2>1 DEF Kept, ContentSteps, ContentOps, ReplaceTextStep
  <2>3. QED BY <2>2, KeptOne
<1>5. KeptAll(Marked(c))
  <2>1. s.start \in Int /\ s.end \in Int
    BY <1>3
  <2>2. PICK k \in Nat : DOMAIN SpansWithin(c, s.start, s.end) = 1..k
    BY <2>1, SpansAreListed
  <2>3. QED BY <2>2, RemarkIs, KeptMarks
<1> HIDE DEF Back, Marked
<1>6. KeptAll(r.inverse)
  <2>1. KeptAll(IF s.start = s.end THEN <<>> ELSE Marked(c))
    BY <1>5, KeptNone
  <2>2. QED BY <1>1, <1>4, <2>1, KeptBoth
<1>7. s.text \in Seq(TextLetters)
  BY DEF Kept
<1>8. IsDocument(r.store)
  <2>1. /\ MixedContent(ReplaceText(c, s.start, s.end, s.text))
        /\ AtomsOf(ReplaceText(c, s.start, s.end, s.text)) = AtomsOf(c)
    BY <1>1, <1>2, <1>7, ReplaceTextKeeps
  <2>2. IsDocument(Rewrite(w.store, s.node, ReplaceText(c, s.start, s.end, s.text)))
    BY <1>2, <2>1, ContentRewritten
  <2>3. QED BY <1>1, <2>2
<1>9. QED BY <1>6, <1>8 DEF Good

\* Text replaced at a seam.
LEMMA ReplaceInlineTextGood ==
  ASSUME NEW w, NEW s, IsDocument(w.store), Kept(s), s.op = "ReplaceInlineText",
         NEW r \in ApplyReplaceInlineText(w, s)
  PROVE  Good(r)
<1> DEFINE node == s.at.node
           offset == s.at.offset
           index == s.at.index
           After(c) == ReplaceInlineText(c, offset, index, s.end, s.text,
                                        GapMarks(w.store, c, offset, index))
           Back(c) == <<ReplaceInlineTextStep(s.at, offset + Len(s.text),
                                              LettersOf(c, offset, s.end))>>
           Marked(c) == Remark(node, offset, s.end, GapMarks(w.store, After(c), offset, index),
                               SpansWithin(c, offset, s.end))
<1>1. PICK c \in InlineOf(w.store, node) :
        /\ ReplacesInlineText(c, offset, index, s.end)
        /\ r.store = Rewrite(w.store, node, After(c))
        /\ r.inverse = Back(c) \o (IF offset = s.end THEN <<>> ELSE Marked(c))
  <2> DEFINE mapped == <<InlineTextReplaced(node, offset, s.end, Len(s.text), index)>>
             back(c) == Back(c) \o (IF offset = s.end THEN <<>> ELSE Marked(c))
             result(c) == Done(Rewrite(w.store, node, After(c)), w.next, mapped, back(c))
  <2>1. r \in {result(c) : c \in {c \in InlineOf(w.store, node) :
                                  ReplacesInlineText(c, offset, index, s.end)}}
    BY Zenon DEF ApplyReplaceInlineText
  <2> HIDE DEF After, Back, Marked, mapped, node, offset, index
  <2>2. QED BY <2>1 DEF Done
<1>2. /\ node \in DOMAIN w.store /\ c = w.store[node].content
      /\ c.shape = "inline" /\ MixedContent(c)
  <2> HIDE DEF node
  <2>1. QED BY InlineIs
<1>3. ValidGap(c, offset, index) /\ offset \in 0..Len(c.text) /\ s.end \in offset..Len(c.text)
  <2>1. ReplacesInlineText(c, offset, index, s.end)
    BY <1>1
  <2> HIDE DEF node, offset, index
  <2>2. ValidGap(c, offset, index) /\ ValidOffset(c, s.end) /\ offset <= s.end
    BY <2>1 DEF ReplacesInlineText
  <2>3. offset \in 0..Len(c.text) /\ s.end \in 0..Len(c.text)
    BY <2>2 DEF ValidGap, ValidOffset
  <2>4. QED BY <2>2, <2>3
<1>4. KeptAll(Back(c))
  <2>1. LettersOf(c, offset, s.end) \in Seq(TextLetters)
    BY <1>2, <1>3, LettersAreWords
  <2>2. Kept(ReplaceInlineTextStep(s.at, offset + Len(s.text), LettersOf(c, offset, s.end)))
    BY <2>1 DEF Kept, ContentSteps, ContentOps, ReplaceInlineTextStep
  <2>3. QED BY <2>2, KeptOne
<1>5. KeptAll(Marked(c))
  <2>1. offset \in Int /\ s.end \in Int
    BY <1>3
  <2>2. PICK k \in Nat : DOMAIN SpansWithin(c, offset, s.end) = 1..k
    BY <2>1, SpansAreListed
  <2>3. QED BY <2>2, RemarkIs, KeptMarks
<1>6. s.text \in Seq(TextLetters)
  BY DEF Kept
<1>7. GapMarks(w.store, c, offset, index) \subseteq Marks
  <2>1. \A i \in 1..Len(c.atoms) : w.store[c.atoms[i].atom].content.marks \subseteq Marks
    BY <1>1, AtomsCarryMarks
  <2>2. QED BY <1>2, <1>3, <2>1, GapMarksAre
<1>8. MixedContent(After(c)) /\ AtomsOf(After(c)) = AtomsOf(c)
  <2> DEFINE marks == GapMarks(w.store, c, offset, index)
  <2>1. marks \subseteq Marks /\ After(c) = ReplaceInlineText(c, offset, index, s.end, s.text, marks)
    BY <1>7
  <2> HIDE DEF marks, After, offset, index
  <2>2. ReplacesInlineText(c, offset, index, s.end)
    BY <1>1
  <2> DEFINE end == s.end  letters == s.text
  <2>3. ReplacesInlineText(c, offset, index, end) /\ letters \in Seq(TextLetters)
    BY <1>6, <2>2
  <2> HIDE DEF end, letters
  <2>4. /\ MixedContent(ReplaceInlineText(c, offset, index, end, letters, marks))
        /\ AtomsOf(ReplaceInlineText(c, offset, index, end, letters, marks)) = AtomsOf(c)
    BY <1>2, <2>1, <2>3, ReplaceInlineTextKeeps
  <2>5. QED BY <2>1, <2>4 DEF end, letters
<1> HIDE DEF Back, Marked, After, node
<1>9. KeptAll(r.inverse)
  <2>1. KeptAll(IF offset = s.end THEN <<>> ELSE Marked(c))
    BY <1>5, KeptNone
  <2>2. QED BY <1>1, <1>4, <2>1, KeptBoth
<1>10. IsDocument(r.store)
  BY <1>1, <1>2, <1>8, ContentRewritten
<1>11. QED BY <1>9, <1>10 DEF Good

\* Marks added and removed.
LEMMA MarkStepsGood ==
  ASSUME NEW w, NEW s, IsDocument(w.store), Kept(s), NEW r,
         \/ s.op = "AddMark" /\ r \in ApplyAddMark(w, s)
         \/ r \in ApplyRemoveMark(w, s)
  PROVE  Good(r)
<1>1. ASSUME NEW c \in Ranged(w, s), NEW kind
      PROVE  KeptAll(ReviveMarks(s.node, kind, SpansWithin(c, s.start, s.end)))
  <2>1. s.start \in Int /\ s.end \in Int
    BY DEF Ranged, ValidOffset
  <2>2. PICK k \in Nat : DOMAIN SpansWithin(c, s.start, s.end) = 1..k
    BY <2>1, SpansAreListed
  <2>3. QED BY <2>2, ReviveIs, KeptMarks
<1>2. ASSUME NEW c \in Ranged(w, s)
      PROVE  /\ s.node \in DOMAIN w.store /\ c = w.store[s.node].content
             /\ c.shape = "inline" /\ MixedContent(c)
  <2>1. c \in InlineOf(w.store, s.node)
    BY DEF Ranged
  <2>2. QED BY <2>1, InlineIs
<1>3. CASE s.op = "AddMark" /\ r \in ApplyAddMark(w, s)
  <2> DEFINE Off == RemoveMarkStep(s.node, s.start, s.end, s.mark.kind)
  <2>1. PICK c \in Ranged(w, s) :
          /\ r.store = Rewrite(w.store, s.node, AddMark(c, s.start, s.end, s.mark))
          /\ r.inverse = IF s.start = s.end THEN <<>>
                         ELSE <<Off>> \o ReviveMarks(s.node, s.mark.kind,
                                                     SpansWithin(c, s.start, s.end))
    <3>1. PICK c \in Ranged(w, s) :
            r = Done(Rewrite(w.store, s.node, AddMark(c, s.start, s.end, s.mark)), w.next, <<>>,
                     IF s.start = s.end THEN <<>>
                     ELSE <<Off>> \o ReviveMarks(s.node, s.mark.kind,
                                                 SpansWithin(c, s.start, s.end)))
      BY <1>3 DEF ApplyAddMark
    <3> HIDE DEF Off
    <3>2. QED BY <3>1 DEF Done
  <2>2. Kept(Off)
    BY DEF Kept, ContentSteps, ContentOps, RemoveMarkStep
  <2> HIDE DEF Off
  <2>3. KeptAll(r.inverse)
    BY <1>1, <2>1, <2>2, KeptOne, KeptBoth, KeptNone
  <2>4. s.mark \in Marks
    BY <1>3 DEF Kept
  <2>5. IsDocument(r.store)
    BY <1>2, <2>1, <2>4, MarksChange, ContentRewritten
  <2>6. QED BY <2>3, <2>5 DEF Good
<1>4. CASE r \in ApplyRemoveMark(w, s)
  <2>1. PICK c \in Ranged(w, s) :
          /\ r.store = Rewrite(w.store, s.node, RemoveMark(c, s.start, s.end, s.kind))
          /\ r.inverse = ReviveMarks(s.node, s.kind, SpansWithin(c, s.start, s.end))
    BY <1>4 DEF ApplyRemoveMark, Done
  <2>2. IsDocument(r.store)
    BY <1>2, <2>1, MarksChange, ContentRewritten
  <2>3. QED BY <1>1, <2>1, <2>2 DEF Good
<1>5. QED BY <1>3, <1>4

\* An atom is placed.
LEMMA PlaceAtomGood ==
  ASSUME NEW w, IsDocument(w.store), NEW at, NEW id \in Nat, id \notin DOMAIN w.store,
         NEW node, NodeOK(node) => WellMade(node), node.kind \in AtomKinds, NEW next,
         NEW r \in PlaceAtom(w, at, id, node, next)
  PROVE  Good(r)
<1> DEFINE n == at.node
           offset == at.offset
           index == at.index
<1>1. PICK c \in InlineOf(w.store, n) :
        /\ ValidGap(c, offset, index) /\ NodeOK(node)
        /\ r.store = WithNode(Rewrite(w.store, n, AttachAtom(c, offset, index, id)), id, node)
        /\ r.inverse = <<NodeStep("RemoveInlineAtom", id)>>
  BY DEF PlaceAtom, Done
<1> HIDE DEF n, offset, index
<1>2. n \in DOMAIN w.store /\ c = w.store[n].content /\ c.shape = "inline"
  BY InlineIs
<1>3. IsDocument(r.store)
  BY <1>1, <1>2, AtomEnters
<1>4. Kept(NodeStep("RemoveInlineAtom", id))
  BY DEF Kept, ContentSteps, ContentOps, NodeStep
<1>5. QED BY <1>1, <1>3, <1>4, KeptOne DEF Good

\* Atoms inserted, restored, removed, marked.
LEMMA AtomStepsGood ==
  ASSUME NEW w, NEW s, IsDocument(w.store), Allocated(w.store, w.next), Kept(s), NEW r,
         \/ s.op = "InsertInlineAtom" /\ r \in ApplyInsertInlineAtom(w, s)
         \/ s.op = "RestoreInlineAtom" /\ r \in ApplyRestoreInlineAtom(w, s)
         \/ r \in ApplyRemoveInlineAtom(w, s)
         \/ s.op = "SetInlineAtomMarks" /\ r \in ApplySetInlineAtomMarks(w, s)
  PROVE  Good(r)
<1>1. CASE s.op = "InsertInlineAtom" /\ r \in ApplyInsertInlineAtom(w, s)
  <2> DEFINE id == w.next
             node == Node(s.kind, s.attrs, AtomContent(s.marks))
  <2>1. id \in Nat /\ id \notin DOMAIN w.store
    BY DEF Allocated
  <2>2. s.kind \in AtomKinds /\ s.marks \subseteq Marks
    BY <1>1 DEF Kept
  <2>3. NodeOK(node) => WellMade(node)
    BY <2>2 DEF WellMade, Node, AtomContent
  <2>4. node.kind \in AtomKinds
    BY <2>2 DEF Node
  <2>5. r \in PlaceAtom(w, s.at, id, node, w.next + 1)
    BY <1>1 DEF ApplyInsertInlineAtom
  <2> HIDE DEF id, node
  <2>6. QED BY <2>1, <2>3, <2>4, <2>5, PlaceAtomGood
<1>2. CASE s.op = "RestoreInlineAtom" /\ r \in ApplyRestoreInlineAtom(w, s)
  <2>1. s.id \in Nat /\ WellMade(s.node)
    BY <1>2 DEF Kept
  <2>2. /\ s.id \notin DOMAIN w.store /\ s.node.kind \in AtomKinds
        /\ r \in PlaceAtom(w, s.at, s.id, s.node, Ceiling(w.next, {s.id}))
    BY <1>2 DEF ApplyRestoreInlineAtom
  <2>3. QED BY <2>1, <2>2, PlaceAtomGood
<1>3. CASE r \in ApplyRemoveInlineAtom(w, s)
  <2> DEFINE C(p) == w.store[p[1]].content
             At(p) == InlinePoint(p[1], C(p).atoms[p[2]].offset, Ordinal(C(p), p[2]))
  <2>1. PICK p \in Placings(w.store, s.node) :
          /\ r.store = Without(Rewrite(w.store, p[1], DetachAtom(C(p), p[2])), {s.node})
          /\ r.inverse = <<RestoreInlineAtomStep(At(p), s.node, w.store[s.node])>>
    <3>1. PICK p \in {p \in Placings(w.store, s.node) :
                        s.node \in DOMAIN w.store /\ w.store[s.node].kind \in AtomKinds} :
            r = Done(Without(Rewrite(w.store, p[1], DetachAtom(C(p), p[2])), {s.node}), w.next,
                     <<InlineAtomRemoved(At(p).node, At(p).offset, At(p).index, s.node)>>,
                     <<RestoreInlineAtomStep(At(p), s.node, w.store[s.node])>>)
      BY <1>3 DEF ApplyRemoveInlineAtom
    <3> HIDE DEF C, At
    <3>2. QED BY <3>1 DEF Done
  <2> DEFINE at == p[1]
             k == p[2]
             here == At(p)
             c == C(p)
  <2>2. PICK d \in InlineOf(w.store, at) : k \in DOMAIN d.atoms /\ d.atoms[k].atom = s.node
    BY DEF Placings
  <2>3. c = w.store[at].content
    OBVIOUS
  <2>4. /\ r.store = Without(Rewrite(w.store, at, DetachAtom(c, k)), {s.node})
        /\ r.inverse = <<RestoreInlineAtomStep(here, s.node, w.store[s.node])>>
    BY <2>1
  <2> HIDE DEF at, k, here, c, C, At
  <2>5. at \in DOMAIN w.store /\ d = c /\ c.shape = "inline"
    BY <2>2, <2>3, InlineIs
  <2>6. k \in DOMAIN c.atoms /\ c.atoms[k].atom = s.node
    BY <2>2, <2>5
  <2>7. /\ s.node \in DOMAIN w.store /\ WellMade(w.store[s.node])
        /\ IsDocument(Without(Rewrite(w.store, at, DetachAtom(c, k)), {s.node}))
    BY <2>3, <2>5, <2>6, AtomLeaves
  <2>8. s.node \in Nat
    BY <2>7 DEF IsDocument
  <2>9. Kept(RestoreInlineAtomStep(here, s.node, w.store[s.node]))
    BY <2>7, <2>8 DEF Kept, ContentSteps, ContentOps, RestoreInlineAtomStep
  <2>10. QED BY <2>4, <2>7, <2>9, KeptOne DEF Good
<1>4. CASE s.op = "SetInlineAtomMarks" /\ r \in ApplySetInlineAtomMarks(w, s)
  <2>1. PICK c \in ContentIn(w.store, s.node, "atom") :
          /\ r.store = Rewrite(w.store, s.node, AtomContent(s.marks))
          /\ r.inverse = <<SetInlineAtomMarksStep(s.node, c.marks)>>
    BY <1>4 DEF ApplySetInlineAtomMarks, Done
  <2>2. /\ s.node \in DOMAIN w.store /\ c = w.store[s.node].content
        /\ w.store[s.node].content.shape = "atom"
    BY DEF ContentIn
  <2>3. WellMade(w.store[s.node])
    BY <2>2 DEF IsDocument
  <2>4. c.marks \subseteq Marks
    BY <2>2, <2>3 DEF WellMade
  <2>5. Kept(SetInlineAtomMarksStep(s.node, c.marks))
    BY <2>4 DEF Kept, ContentSteps, ContentOps, SetInlineAtomMarksStep
  <2>6. s.marks \subseteq Marks
    BY <1>4 DEF Kept
  <2>7. IsDocument(r.store)
    BY <2>1, <2>2, <2>6, AtomRemarked
  <2>8. QED BY <2>1, <2>5, <2>7, KeptOne DEF Good
<1>5. QED BY <1>1, <1>2, <1>3, <1>4

\* A tail enters next to its head.
LEMMA SplitAtGood ==
  ASSUME NEW w, IsDocument(w.store), NEW at, NEW c \in InlineOf(w.store, at.node),
         ValidGap(c, at.offset, at.index), NEW id \in Nat, id \notin DOMAIN w.store,
         NEW tail, WellMade(tail), tail.content = TailOf(c, at.offset, at.index),
         NEW next, NEW mixed, NEW r \in SplitAt(w, at, id, tail, next, mixed)
  PROVE  Good(r)
<1> DEFINE n == at.node
           offset == at.offset
           index == at.index
           head == HeadOf(w.store[n].content, offset, index)
           Entered(p) == WithNode(Insert(Rewrite(w.store, n, head), p, IndexIn(w.store, p, n), id),
                                  id, tail)
<1>1. PICK p \in ParentsOf(w.store, n) :
        r.store = Entered(p) /\ r.inverse = <<JoinNodesStep(n, id)>>
  BY DEF SplitAt, Done
<1>2. n \in DOMAIN w.store /\ c = w.store[n].content /\ c.shape = "inline"
  BY InlineIs
<1>3. ValidGap(c, offset, index) /\ tail.content = TailOf(c, offset, index)
  OBVIOUS
<1> HIDE DEF n, offset, index
<1>4. IsDocument(Entered(p))
  BY <1>1, <1>2, <1>3, TailEnters
<1>5. Kept(JoinNodesStep(n, id))
  BY DEF Kept, ContentSteps, ContentOps, JoinNodesStep
<1> HIDE DEF Entered
<1>6. QED BY <1>1, <1>4, <1>5, KeptOne DEF Good

\* Splits, joins and the return of a joined node.
LEMMA SplitAndJoinGood ==
  ASSUME NEW w, NEW s, IsDocument(w.store), Allocated(w.store, w.next), Kept(s), NEW r,
         \/ r \in ApplySplitInlineNode(w, s)
         \/ r \in ApplySplitNode(w, s)
         \/ s.op = "RestoreJoinedNode" /\ r \in ApplyRestoreJoinedNode(w, s)
         \/ r \in ApplyJoinNodes(w, s)
  PROVE  Good(r)
<1>1. ASSUME NEW at, NEW mixed, r \in FreshTail(w, at, mixed)
      PROVE  Good(r)
  <2> DEFINE NewTail(c) == [w.store[at.node] EXCEPT !.content = TailOf(c, at.offset, at.index)]
  <2>1. PICK c \in InlineOf(w.store, at.node) :
          /\ ValidGap(c, at.offset, at.index)
          /\ r \in SplitAt(w, at, w.next, NewTail(c), w.next + 1, mixed)
    BY <1>1 DEF FreshTail
  <2>2. /\ at.node \in DOMAIN w.store /\ c = w.store[at.node].content
        /\ c.shape = "inline" /\ MixedContent(c)
    BY InlineIs
  <2> DEFINE old == w.store[at.node]
             content == TailOf(c, at.offset, at.index)
             tail == [old EXCEPT !.content = content]
             id == w.next
  <2>3. WellMade(old) /\ old.content.shape = "inline"
    BY <2>2 DEF IsDocument
  <2>4. MixedContent(content) /\ content.shape = "inline"
    <3>1. MixedContent(content)
      BY <2>1, <2>2, CutKeeps
    <3>2. QED BY <3>1 DEF TailOf, Inline
  <2>5. tail = NewTail(c)
    OBVIOUS
  <2> HIDE DEF old, content, NewTail
  <2>6. old = Node(old.kind, old.attrs, old.content) /\ NodeOK(old)
    BY <2>3 DEF WellMade
  <2>7. tail = Node(old.kind, old.attrs, content) /\ tail.content = content
        /\ tail.kind = old.kind /\ tail.attrs = old.attrs
    BY <2>6 DEF Node
  <2> HIDE DEF tail
  <2>8. NodeOK(tail)
    BY <2>3, <2>4, <2>6, <2>7 DEF NodeOK
  <2>9. WellMade(tail)
    BY <2>4, <2>7, <2>8 DEF WellMade
  <2>10. id \in Nat /\ id \notin DOMAIN w.store
    BY DEF Allocated
  <2>11. tail.content = TailOf(c, at.offset, at.index)
    BY <2>7 DEF content
  <2>12. r \in SplitAt(w, at, id, tail, w.next + 1, mixed)
    BY <2>1, <2>5
  <2> HIDE DEF id
  <2>13. QED BY <2>1, <2>9, <2>10, <2>11, <2>12, SplitAtGood
<1>2. CASE r \in ApplySplitInlineNode(w, s)
  BY <1>1, <1>2 DEF ApplySplitInlineNode
<1>3. CASE r \in ApplySplitNode(w, s)
  BY <1>1, <1>3 DEF ApplySplitNode
<1>4. CASE s.op = "RestoreJoinedNode" /\ r \in ApplyRestoreJoinedNode(w, s)
  <2>1. s.id \in Nat /\ WellMade(s.node)
    BY <1>4 DEF Kept
  <2>2. PICK c \in InlineOf(w.store, s.at.node) :
          /\ s.id \notin DOMAIN w.store
          /\ ValidGap(c, s.at.offset, s.at.index)
          /\ s.node.content = TailOf(c, s.at.offset, s.at.index)
          /\ r \in SplitAt(w, s.at, s.id, s.node, Ceiling(w.next, {s.id}), c.atoms # <<>>)
    BY <1>4 DEF ApplyRestoreJoinedNode
  <2> DEFINE at == s.at
             id == s.id
             node == s.node
  <2>3. /\ c \in InlineOf(w.store, at.node) /\ ValidGap(c, at.offset, at.index)
        /\ id \in Nat /\ id \notin DOMAIN w.store /\ WellMade(node)
        /\ node.content = TailOf(c, at.offset, at.index)
        /\ \E next, mixed : r \in SplitAt(w, at, id, node, next, mixed)
    BY <2>1, <2>2
  <2> HIDE DEF at, id, node
  <2>4. QED BY <2>3, SplitAtGood
<1>5. CASE r \in ApplyJoinNodes(w, s)
  <2> DEFINE n == s.first
             x == s.second
             a == w.store[n].content
             b == w.store[x].content
             at == InlinePoint(n, Len(a.text), AtomCountAt(a, Len(a.text)))
             Back == RestoreJoinedNodeStep(at, x, w.store[x])
             left(p) == Without(Detach(Rewrite(w.store, n, Joined(a, b)), p, x), {x})
  <2>1. PICK p \in ParentsOf(w.store, n) :
          /\ InlineOf(w.store, n) # {} /\ InlineOf(w.store, x) # {}
          /\ x \in Range(Kids(w.store[p]))
          /\ IndexIn(w.store, p, x) = IndexIn(w.store, p, n) + 1
          /\ r.store = left(p)
          /\ r.inverse = <<Back>>
    <3> DEFINE index(p) == IndexIn(w.store, p, s.first)
               maps(p) == <<IF a.atoms = <<>> /\ b.atoms = <<>>
                            THEN NodeJoined(p, index(p), s.first, s.second, Len(a.text))
                            ELSE InlineNodeJoined(p, index(p), s.first, s.second, Len(a.text),
                                                  at.index)>>
    <3>1. PICK p \in {p \in ParentsOf(w.store, n) :
                        /\ InlineOf(w.store, n) # {}
                        /\ InlineOf(w.store, x) # {}
                        /\ x \in Range(Kids(w.store[p]))
                        /\ IndexIn(w.store, p, x) = IndexIn(w.store, p, n) + 1} :
            r = Done(left(p), w.next, maps(p), <<Back>>)
      BY <1>5 DEF ApplyJoinNodes
    <3> HIDE DEF n, x, a, b, at, Back, left, maps
    <3>2. QED BY <3>1 DEF Done
  <2>2. /\ n \in DOMAIN w.store /\ x \in DOMAIN w.store
        /\ a.shape = "inline" /\ b.shape = "inline"
    BY <2>1, InlineIs
  <2>3. IndexIn(w.store, p, n) \in DOMAIN Kids(w.store[p])
    BY ParentIs, IndexIs
  <2>4. WellMade(w.store[p])
    BY ParentIs DEF IsDocument
  <2>5. Kids(w.store[p]) \in Seq(Nat)
    BY <2>4, ParentIs, NodeIs
  <2>6. n # x
    <3>1. IndexIn(w.store, p, n) \in Int
      BY <2>3, <2>5
    <3>2. QED BY <2>1, <3>1
  <2>7. WellMade(w.store[x]) /\ x \in Nat
    BY <2>2 DEF IsDocument
  <2>8. Kept(Back)
    BY <2>7 DEF Kept, ContentSteps, ContentOps, RestoreJoinedNodeStep
  <2> HIDE DEF n, x, Back
  <2>9. IsDocument(left(p))
    BY <2>1, <2>2, <2>6, TailLeaves
  <2> HIDE DEF left
  <2>10. QED BY <2>1, <2>8, <2>9, KeptOne DEF Good
<1>6. QED BY <1>2, <1>3, <1>4, <1>5

\* Every step on content keeps the document.
LEMMA StepIsGood ==
  ASSUME NEW w, NEW s, IsDocument(w.store), Allocated(w.store, w.next), Kept(s),
         NEW r \in Apply(w, s)
  PROVE  Good(r)
<1>1. s.op \in ContentSteps
  BY DEF Kept
<1>2. CASE s.op = "ReplaceText"
  BY <1>2, ReplaceTextGood DEF Apply
<1>3. CASE s.op = "ReplaceInlineText"
  BY <1>3, ReplaceInlineTextGood DEF Apply
<1>4. CASE s.op \in {"AddMark", "RemoveMark"}
  BY <1>4, MarkStepsGood DEF Apply
<1>5. CASE s.op \in {"InsertInlineAtom", "RestoreInlineAtom", "RemoveInlineAtom",
                     "SetInlineAtomMarks"}
  BY <1>5, AtomStepsGood DEF Apply
<1>6. CASE s.op \in {"SplitNode", "SplitInlineNode", "RestoreJoinedNode", "JoinNodes"}
  BY <1>6, SplitAndJoinGood DEF Apply
<1>7. QED BY <1>1, <1>2, <1>3, <1>4, <1>5, <1>6 DEF ContentSteps, ContentOps

\* So does a group of them that brings back ids of its own.
LEMMA RunIsGood ==
  ASSUME NEW w, IsDocument(w.store), Allocated(w.store, w.next), NEW steps,
         KeptAll(steps), Undo(steps, w.next), NEW r \in RunSteps(w, steps)
  PROVE  Good(r)
<1>1. /\ Len(steps) \in Nat
      /\ \A n \in 1..Len(steps) : Kept(steps[n]) /\ Known(steps[n], w.next)
  <2>1. Len(steps) \in Nat /\ \A n \in 1..Len(steps) : Known(steps[n], w.next)
    BY DEF Undo, Range
  <2>2. \A n \in 1..Len(steps) : Kept(steps[n])
    BY DEF KeptAll
  <2>3. QED BY <2>1, <2>2
<1>2. PICK run : Runs(run, w, steps)
  BY <1>1, RunUnfolds
<1> DEFINE Fine(x) == Good(x) /\ Allocated(x.store, x.next) /\ w.next <= x.next
           T == {n \in Nat : n <= Len(steps) => \A x \in run[n] : Fine(x)}
<1>3. 0 \in T
  <2>1. run[0] = {Done(w.store, w.next, <<>>, <<>>)}
    BY <1>2 DEF Runs
  <2>2. QED BY <2>1, KeptNone DEF Done, Good, Allocated
<1>4. ASSUME NEW n \in Nat, n \in T PROVE n + 1 \in T
  <2>1. SUFFICES ASSUME n + 1 <= Len(steps), NEW x \in run[n + 1] PROVE Fine(x)
    OBVIOUS
  <2>2. n + 1 \in 1..Len(steps) /\ (n + 1) - 1 = n
    BY <1>1, <2>1
  <2>3. PICK sofar \in run[n] : \E y \in Apply(sofar, steps[n + 1]) : x = AfterStep(sofar, y)
    BY <1>2, <2>1, <2>2 DEF Runs
  <2> PICK y \in Apply(sofar, steps[n + 1]) : x = AfterStep(sofar, y)
    BY <2>3
  <2>4. Fine(sofar)
    BY <1>1, <1>4, <2>1, <2>3
  <2>5. Kept(steps[n + 1]) /\ Known(steps[n + 1], sofar.next)
    <3>1. Kept(steps[n + 1]) /\ Known(steps[n + 1], w.next)
      BY <1>1, <2>2
    <3>2. QED BY <2>4, <3>1 DEF Allocated, Known
  <2>6. Sound(y, sofar.next) /\ Good(y)
    BY <2>4, <2>5, StepIsSound, StepIsGood DEF Good
  <2>7. x.store = y.store /\ x.next = y.next /\ x.inverse = y.inverse \o sofar.inverse
    BY <2>3 DEF AfterStep, Done
  <2>8. KeptAll(x.inverse)
    BY <2>4, <2>6, <2>7, KeptBoth DEF Good
  <2>9. Allocated(x.store, x.next) /\ w.next <= x.next
    BY <2>4, <2>6, <2>7 DEF Sound, Allocated
  <2>10. QED BY <2>6, <2>7, <2>8, <2>9 DEF Good
<1> HIDE DEF T, Fine
<1>5. Nat \subseteq T
  BY <1>3, <1>4, InductionOverNat
<1>6. Fine(r)
  BY <1>1, <1>2, <1>5 DEF T, Runs
<1>7. QED BY <1>6 DEF Fine

-----------------------------------------------------------------------------
(* Behaviours that edit content.                                           *)

\* The published and the working store are documents, the inverse would
\* rebuild one, and the counters stay within their bounds.
ShapeInv ==
  /\ IdsInv
  /\ IsDocument(doc.store)
  /\ IsDocument(work.store)
  /\ KeptAll(inverse)
  /\ taken \in 0..MaxSteps /\ edits \in 0..MaxEdits /\ doc.revision \in 0..MaxRevision
  /\ taken > 0 => doc.revision < MaxRevision

\* The first document is one.
LEMMA InitShape == Init => ShapeInv
<1> SUFFICES ASSUME Init PROVE ShapeInv
  OBVIOUS
<1>1. IdsInv
  BY InitIds
<1>2. /\ doc.store = FirstStore /\ work.store = FirstStore /\ inverse = <<>>
      /\ taken = 0 /\ edits = 0 /\ doc.revision = 0
  BY DEF Init
<1>3. QED BY <1>1, <1>2, FirstIsDocument, BoundsAreNumbers, KeptNone DEF ShapeInv

\* What callers offer is text, marks and atoms of the schema.
LEMMA OfferedAreKept ==
  ASSUME Ops \subseteq ContentOps, NEW store, NEW s \in Offered(store)
  PROVE  Kept(s)
<1>1. PICK op \in ContentOps : s \in StepsOf(op, store)
  BY DEF Offered
<1>2. CASE op \in {"ReplaceText", "ReplaceInlineText"}
  <2>1. s.op = op /\ s.text \in Texts
    BY <1>1, <1>2 DEF StepsOf, ReplaceTextStep, ReplaceInlineTextStep
  <2>2. QED BY <1>2, <2>1, TextsAreWords DEF Kept, ContentSteps, ContentOps
<1>3. CASE op = "AddMark"
  <2>1. s.op = op /\ s.mark \in Marks
    BY <1>1, <1>3 DEF StepsOf, AddMarkStep
  <2>2. QED BY <1>3, <2>1 DEF Kept, ContentSteps, ContentOps
<1>4. CASE op = "InsertInlineAtom"
  <2>1. s.op = op /\ s.kind \in AtomKinds /\ s.marks = {}
    BY <1>1, <1>4 DEF StepsOf, InsertInlineAtomStep
  <2>2. QED BY <1>4, <2>1 DEF Kept, ContentSteps, ContentOps
<1>5. CASE op = "SetInlineAtomMarks"
  <2>1. s.op = op /\ s.marks \subseteq Marks
    BY <1>1, <1>5 DEF StepsOf, SetInlineAtomMarksStep
  <2>2. QED BY <1>5, <2>1 DEF Kept, ContentSteps, ContentOps
<1>6. CASE op \in {"RemoveMark", "RemoveInlineAtom", "SplitNode", "SplitInlineNode", "JoinNodes"}
  <2>1. s.op = op
    BY <1>1, <1>6 DEF StepsOf, RemoveMarkStep, SplitNodeStep, SplitInlineNodeStep, JoinNodesStep,
       NodeStep
  <2>2. QED BY <1>6, <2>1 DEF Kept, ContentSteps, ContentOps
<1>7. QED BY <1>1, <1>2, <1>3, <1>4, <1>5, <1>6 DEF ContentOps

\* A step, a commit, a rejection and an undo keep the documents.
LEMMA NextShape ==
  ASSUME Ops \subseteq ContentOps, ShapeInv, [Next]_vars
  PROVE  ShapeInv'
<1>1. IdsInv'
  BY NextIds DEF ShapeInv
<1>2. ASSUME NEW s \in Offered(work.store), Step(s) PROVE ShapeInv'
  <2>1. PICK r \in Apply(work, s) :
          /\ work' = [store |-> r.store, next |-> r.next]
          /\ inverse' = AfterStep(SoFar, r).inverse
    BY <1>2 DEF Step
  <2>2. /\ taken < MaxSteps /\ edits < MaxEdits /\ doc.revision < MaxRevision
        /\ taken' = taken + 1 /\ edits' = edits + 1 /\ doc' = doc
    BY <1>2 DEF Step
  <2>3. Good(r)
    BY <1>2, <2>1, OfferedAreKept, StepIsGood DEF ShapeInv, IdsInv
  <2>4. KeptAll(SoFar.inverse)
    BY KeptNone DEF SoFar, Done, ShapeInv
  <2>5. inverse' = r.inverse \o SoFar.inverse
    BY <2>1 DEF AfterStep, Done
  <2>6. KeptAll(inverse')
    BY <2>3, <2>4, <2>5, KeptBoth DEF Good
  <2>7. work'.store = r.store
    BY <2>1
  <2>8. IsDocument(work'.store) /\ IsDocument(doc'.store)
    BY <2>2, <2>3, <2>7 DEF Good, ShapeInv
  <2>9. taken' \in 0..MaxSteps /\ edits' \in 0..MaxEdits /\ doc'.revision \in 0..MaxRevision
        /\ doc'.revision < MaxRevision
    BY <2>2, BoundsAreNumbers DEF ShapeInv
  <2>10. QED BY <1>1, <2>6, <2>8, <2>9 DEF ShapeInv
<1>3. CASE Commit
  <2>1. /\ doc' = [store |-> work.store, next |-> work.next, revision |-> doc.revision + 1]
        /\ taken > 0 /\ taken' = 0
        /\ work' = work /\ inverse' = inverse /\ edits' = edits
    BY <1>3 DEF Commit
  <2>2. doc'.store = work.store /\ doc'.revision = doc.revision + 1
    BY <2>1
  <2>3. doc'.revision \in 0..MaxRevision /\ taken' \in 0..MaxSteps /\ ~(taken' > 0)
    BY <2>1, <2>2, BoundsAreNumbers DEF ShapeInv
  <2>4. IsDocument(doc'.store) /\ IsDocument(work'.store) /\ KeptAll(inverse')
    BY <2>1, <2>2 DEF ShapeInv
  <2>5. QED BY <1>1, <2>1, <2>3, <2>4 DEF ShapeInv
<1>4. CASE Reject
  <2>1. /\ work' = [store |-> doc.store, next |-> doc.next]
        /\ taken' = 0 /\ inverse' = <<>> /\ doc' = doc /\ edits' = edits
    BY <1>4 DEF Reject
  <2>2. work'.store = doc.store
    BY <2>1
  <2>3. IsDocument(doc'.store) /\ IsDocument(work'.store) /\ KeptAll(inverse')
    BY <2>1, <2>2, KeptNone DEF ShapeInv
  <2>4. QED BY <1>1, <2>1, <2>3, BoundsAreNumbers DEF ShapeInv
<1>5. CASE ApplyInverse
  <2>1. PICK r \in RunSteps(work, inverse) :
          /\ doc' = [store |-> r.store, next |-> r.next, revision |-> doc.revision + 1]
          /\ work' = [store |-> r.store, next |-> r.next]
          /\ inverse' = r.inverse
    BY <1>5 DEF ApplyInverse
  <2>2. taken = 0 /\ doc.revision < MaxRevision /\ taken' = taken /\ edits' = edits
    BY <1>5 DEF ApplyInverse, Idle
  <2>3. Good(r)
    BY <2>1, RunIsGood DEF ShapeInv, IdsInv
  <2>4. /\ doc'.store = r.store /\ work'.store = r.store
        /\ doc'.revision = doc.revision + 1
    BY <2>1
  <2>5. IsDocument(doc'.store) /\ IsDocument(work'.store) /\ KeptAll(inverse')
    BY <2>1, <2>3, <2>4 DEF Good
  <2>6. doc'.revision \in 0..MaxRevision /\ taken' \in 0..MaxSteps /\ ~(taken' > 0)
    BY <2>2, <2>4, BoundsAreNumbers DEF ShapeInv
  <2>7. QED BY <1>1, <2>2, <2>5, <2>6 DEF ShapeInv
<1>6. CASE UNCHANGED vars
  <2>1. /\ doc' = doc /\ work' = work /\ inverse' = inverse
        /\ taken' = taken /\ edits' = edits
    BY <1>6 DEF vars
  <2>2. KeptAll(inverse') /\ IsDocument(doc'.store) /\ IsDocument(work'.store)
    BY <2>1 DEF ShapeInv
  <2>3. taken' \in 0..MaxSteps /\ edits' \in 0..MaxEdits /\ doc'.revision \in 0..MaxRevision
    BY <2>1 DEF ShapeInv
  <2>4. taken' > 0 => doc'.revision < MaxRevision
    BY <2>1 DEF ShapeInv
  <2>5. QED BY <1>1, <2>2, <2>3, <2>4 DEF ShapeInv
<1>7. QED BY <1>2, <1>3, <1>4, <1>5, <1>6 DEF Next

\* A document is a valid tree of normalized nodes.
LEMMA TreeFromShape == ShapeInv => EveryStepKeepsTheTree
<1> SUFFICES ASSUME ShapeInv PROVE EveryStepKeepsTheTree
  OBVIOUS
<1>1. ValidTree(work.store) /\ DOMAIN work.store \subseteq Nat
  BY DEF ShapeInv, IsDocument
<1>2. ASSUME NEW id \in DOMAIN work.store, NEW c \in InlineOf(work.store, id)
      PROVE  Normalized(c) /\ \A i \in DOMAIN c.text : c.text[i].marks \subseteq Marks
  <2>1. MixedContent(c)
    BY <1>2, InlineIs DEF ShapeInv
  <2>2. \A i \in DOMAIN c.text : c.text[i] \in MarkedLetters
    BY <2>1 DEF MixedContent
  <2>3. \A x \in MarkedLetters : x.marks \subseteq Marks
    BY DEF MarkedLetters
  <2>4. QED BY <2>1, <2>2, <2>3 DEF MixedContent
<1>3. \A id \in DOMAIN work.store : NodeOK(work.store[id])
  BY DEF ShapeInv, IsDocument, WellMade
<1>4. doc.next \in Nat /\ work.next \in Nat
  BY DEF ShapeInv, IdsInv, Allocated
<1>5. TypeOK
  BY <1>1, <1>2, <1>3, <1>4 DEF ShapeInv, TypeOK
<1>6. QED BY <1>1, <1>5 DEF EveryStepKeepsTheTree

\* Steps on text, marks and atoms, splits, joins, their inverses and the
\* inverses of those take a valid tree to a valid tree of normalized nodes,
\* whatever the document, the texts, the marks and the bounds: the validation
\* at the end of such a transaction never refuses it, and no atom is lost,
\* doubled or left behind by an edit around it (transaction/inline.rs,
\* transaction/inline_atom.rs, apply/structure.rs, document/snapshot.rs).
THEOREM EveryStepKeepsTheTreeAlways ==
  ASSUME Ops \subseteq ContentOps
  PROVE  Spec => []EveryStepKeepsTheTree
<1>1. ShapeInv /\ [Next]_vars => ShapeInv'
  BY NextShape
<1>2. Spec => []ShapeInv
  BY <1>1, InitShape, PTL DEF Spec
<1>3. QED BY <1>2, TreeFromShape, PTL
=============================================================================
