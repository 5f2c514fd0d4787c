-------------------------- MODULE TreeMappingProofs --------------------------
(***************************************************************************)
(* Positions carried through content steps, proved for any document,       *)
(* texts, marks and bounds: every place of the old document is mapped to a *)
(* place of the new one, and a node to itself or, if it left, to nothing.  *)
(*                                                                         *)
(* The layout lemmas say where an edit puts the atoms of a node; on them   *)
(* stand one lemma per step map, then the composition over a transaction   *)
(* (Carried) and over the ids that leave and come back (Trail).            *)
(***************************************************************************)
EXTENDS TreeShapeProofs

-----------------------------------------------------------------------------
(* Images of positions through a list of maps.                             *)

Sorts == {"inline", "text", "gap", "node"}
\* One step map, and the maps of a transaction, on a position of a sort.
MapAt(sort, m, p, bias) ==
  CASE sort = "inline" -> MapInlinePoint(m, p, bias)
    [] sort = "text"   -> MapTextPoint(m, p, bias)
    [] sort = "gap"    -> MapNodeGap(m, p, bias)
    [] sort = "node"   -> MapNodeSelection(m, p)
Changed(sort, maps, p, bias) ==
  CASE sort = "inline" -> ChangedInlinePoint(maps, p, bias)
    [] sort = "text"   -> ChangedTextPoint(maps, p, bias)
    [] sort = "gap"    -> ChangedNodeGap(maps, p, bias)
    [] sort = "node"   -> ChangedNodeSelection(maps, p)

\* A deleted position stays deleted.
OneMore(sort, m, q, bias) == IF q = Deleted THEN Deleted ELSE MapAt(sort, m, q, bias)
AreImages(f, sort, maps, p, bias, size) ==
  f = [n \in 0..size |-> IF n = 0 THEN p ELSE OneMore(sort, maps[n], f[n - 1], bias)]

\* The images after each map: the recursive function exists.
LEMMA ImagesExist ==
  ASSUME NEW sort, NEW maps, NEW p, NEW bias, NEW size \in Nat
  PROVE  \E f : AreImages(f, sort, maps, p, bias, size)
<1> DEFINE then(q, n) == OneMore(sort, maps[n], q, bias)
           To(n) == \E f : f = [i \in 0..n |-> IF i = 0 THEN p ELSE then(f[i - 1], i)]
           S == {n \in Nat : To(n)}
<1> HIDE DEF then
<1>1. 0 \in S
  <2> DEFINE g == [i \in 0..0 |-> p]
  <2>1. g = [i \in 0..0 |-> IF i = 0 THEN p ELSE then(g[i - 1], i)]
    OBVIOUS
  <2> HIDE DEF g
  <2>2. To(0)
    BY <2>1
  <2> HIDE DEF To
  <2>3. QED BY <2>2
<1>2. ASSUME NEW n \in Nat, n \in S PROVE n + 1 \in S
  <2>1. PICK f : f = [i \in 0..n |-> IF i = 0 THEN p ELSE then(f[i - 1], i)]
    BY <1>2
  <2>2. \A i \in 0..n : f[i] = IF i = 0 THEN p ELSE then(f[i - 1], i)
    BY <2>1
  <2> DEFINE g == [i \in 0..(n + 1) |-> IF i = n + 1 THEN then(f[n], n + 1) ELSE f[i]]
  <2>3. ASSUME NEW i \in 0..(n + 1)
        PROVE  g[i] = IF i = 0 THEN p ELSE then(g[i - 1], i)
    <3>1. CASE i = n + 1
      <4>1. g[n] = f[n] /\ g[i] = then(f[n], n + 1) /\ i # 0 /\ i - 1 = n
        BY <3>1
      <4> HIDE DEF g
      <4>2. QED BY <3>1, <4>1
    <3>2. CASE i = 0
      <4>1. g[i] = f[0] /\ 0 \in 0..n
        BY <3>2
      <4> HIDE DEF g
      <4>2. QED BY <2>2, <3>2, <4>1
    <3>3. CASE i \in 1..n
      <4>1. g[i] = f[i] /\ g[i - 1] = f[i - 1] /\ i \in 0..n /\ i # 0
        BY <3>3
      <4> HIDE DEF g
      <4>2. QED BY <2>2, <4>1
    <3>4. QED BY <3>1, <3>2, <3>3
  <2>4. g = [i \in 0..(n + 1) |-> IF i = 0 THEN p ELSE then(g[i - 1], i)]
    BY <2>3
  <2> HIDE DEF g
  <2>5. To(n + 1)
    BY <2>4
  <2> HIDE DEF To
  <2>6. QED BY <2>5
<1> HIDE DEF S
<1>3. Nat \subseteq S
  BY <1>1, <1>2, InductionOverNat
<1>4. To(size)
  BY <1>3 DEF S
<1>5. QED BY <1>4 DEF then, AreImages

\* The image of a position is the last of its images.
LEMMA ChangedIs ==
  ASSUME NEW sort \in Sorts, NEW maps, Len(maps) \in Nat, NEW p, NEW bias
  PROVE  \E f : /\ f[0] = p
                /\ \A n \in 1..Len(maps) : f[n] = OneMore(sort, maps[n], f[n - 1], bias)
                /\ Changed(sort, maps, p, bias) = f[Len(maps)]
<1> DEFINE size == Len(maps)
<1>1. ASSUME NEW f, AreImages(f, sort, maps, p, bias, size)
      PROVE  f[0] = p /\ \A n \in 1..size : f[n] = OneMore(sort, maps[n], f[n - 1], bias)
  <2>1. \A n \in 0..size : f[n] = IF n = 0 THEN p ELSE OneMore(sort, maps[n], f[n - 1], bias)
    BY <1>1 DEF AreImages
  <2>2. 0 \in 0..size /\ \A n \in 1..size : n \in 0..size /\ n # 0
    OBVIOUS
  <2>3. QED BY <2>1, <2>2
<1>2. \E f : AreImages(f, sort, maps, p, bias, size)
  BY ImagesExist
<1>3. CASE sort = "inline"
  <2> DEFINE f[n \in 0..size] ==
        IF n = 0 THEN p
        ELSE IF f[n - 1] = Deleted THEN Deleted ELSE MapInlinePoint(maps[n], f[n - 1], bias)
  <2>1. Changed(sort, maps, p, bias) = f[size]
    BY <1>3 DEF Changed, ChangedInlinePoint, Through
  <2>2. \A m, q : OneMore(sort, m, q, bias)
                    = IF q = Deleted THEN Deleted ELSE MapInlinePoint(m, q, bias)
    BY <1>3 DEF OneMore, MapAt
  <2> HIDE DEF size
  <2>3. \E g : g = [n \in 0..size |->
                      IF n = 0 THEN p
                      ELSE IF g[n - 1] = Deleted THEN Deleted
                           ELSE MapInlinePoint(maps[n], g[n - 1], bias)]
    <3>1. PICK g : AreImages(g, sort, maps, p, bias, size)
      BY <1>2
    <3>2. g = [n \in 0..size |-> IF n = 0 THEN p ELSE OneMore(sort, maps[n], g[n - 1], bias)]
      BY <3>1 DEF AreImages
    <3>3. \A n \in 0..size :
            (IF n = 0 THEN p ELSE OneMore(sort, maps[n], g[n - 1], bias))
            = (IF n = 0 THEN p
               ELSE IF g[n - 1] = Deleted THEN Deleted
                    ELSE MapInlinePoint(maps[n], g[n - 1], bias))
      BY <2>2
    <3>4. g = [n \in 0..size |->
                 IF n = 0 THEN p
                 ELSE IF g[n - 1] = Deleted THEN Deleted
                      ELSE MapInlinePoint(maps[n], g[n - 1], bias)]
      BY <3>2, <3>3
    <3>5. QED BY <3>4
  <2>4. f = [n \in 0..size |->
               IF n = 0 THEN p
               ELSE IF f[n - 1] = Deleted THEN Deleted
                    ELSE MapInlinePoint(maps[n], f[n - 1], bias)]
    BY <2>3
  <2> HIDE DEF f
  <2>5. AreImages(f, sort, maps, p, bias, size)
    BY <2>2, <2>4, Zenon DEF AreImages
  <2>6. QED BY <1>1, <2>1, <2>5 DEF size
<1>4. CASE sort = "text"
  <2> DEFINE f[n \in 0..size] ==
        IF n = 0 THEN p
        ELSE IF f[n - 1] = Deleted THEN Deleted ELSE MapTextPoint(maps[n], f[n - 1], bias)
  <2>1. Changed(sort, maps, p, bias) = f[size]
    BY <1>4 DEF Changed, ChangedTextPoint, Through
  <2>2. \A m, q : OneMore(sort, m, q, bias)
                    = IF q = Deleted THEN Deleted ELSE MapTextPoint(m, q, bias)
    BY <1>4 DEF OneMore, MapAt
  <2> HIDE DEF size
  <2>3. \E g : g = [n \in 0..size |->
                      IF n = 0 THEN p
                      ELSE IF g[n - 1] = Deleted THEN Deleted
                           ELSE MapTextPoint(maps[n], g[n - 1], bias)]
    <3>1. PICK g : AreImages(g, sort, maps, p, bias, size)
      BY <1>2
    <3>2. g = [n \in 0..size |-> IF n = 0 THEN p ELSE OneMore(sort, maps[n], g[n - 1], bias)]
      BY <3>1 DEF AreImages
    <3>3. \A n \in 0..size :
            (IF n = 0 THEN p ELSE OneMore(sort, maps[n], g[n - 1], bias))
            = (IF n = 0 THEN p
               ELSE IF g[n - 1] = Deleted THEN Deleted
                    ELSE MapTextPoint(maps[n], g[n - 1], bias))
      BY <2>2
    <3>4. g = [n \in 0..size |->
                 IF n = 0 THEN p
                 ELSE IF g[n - 1] = Deleted THEN Deleted
                      ELSE MapTextPoint(maps[n], g[n - 1], bias)]
      BY <3>2, <3>3
    <3>5. QED BY <3>4
  <2>4. f = [n \in 0..size |->
               IF n = 0 THEN p
               ELSE IF f[n - 1] = Deleted THEN Deleted
                    ELSE MapTextPoint(maps[n], f[n - 1], bias)]
    BY <2>3
  <2> HIDE DEF f
  <2>5. AreImages(f, sort, maps, p, bias, size)
    BY <2>2, <2>4, Zenon DEF AreImages
  <2>6. QED BY <1>1, <2>1, <2>5 DEF size
<1>5. CASE sort = "gap"
  <2> DEFINE f[n \in 0..size] ==
        IF n = 0 THEN p
        ELSE IF f[n - 1] = Deleted THEN Deleted ELSE MapNodeGap(maps[n], f[n - 1], bias)
  <2>1. Changed(sort, maps, p, bias) = f[size]
    BY <1>5 DEF Changed, ChangedNodeGap, Through
  <2>2. \A m, q : OneMore(sort, m, q, bias)
                    = IF q = Deleted THEN Deleted ELSE MapNodeGap(m, q, bias)
    BY <1>5 DEF OneMore, MapAt
  <2> HIDE DEF size
  <2>3. \E g : g = [n \in 0..size |->
                      IF n = 0 THEN p
                      ELSE IF g[n - 1] = Deleted THEN Deleted
                           ELSE MapNodeGap(maps[n], g[n - 1], bias)]
    <3>1. PICK g : AreImages(g, sort, maps, p, bias, size)
      BY <1>2
    <3>2. g = [n \in 0..size |-> IF n = 0 THEN p ELSE OneMore(sort, maps[n], g[n - 1], bias)]
      BY <3>1 DEF AreImages
    <3>3. \A n \in 0..size :
            (IF n = 0 THEN p ELSE OneMore(sort, maps[n], g[n - 1], bias))
            = (IF n = 0 THEN p
               ELSE IF g[n - 1] = Deleted THEN Deleted
                    ELSE MapNodeGap(maps[n], g[n - 1], bias))
      BY <2>2
    <3>4. g = [n \in 0..size |->
                 IF n = 0 THEN p
                 ELSE IF g[n - 1] = Deleted THEN Deleted
                      ELSE MapNodeGap(maps[n], g[n - 1], bias)]
      BY <3>2, <3>3
    <3>5. QED BY <3>4
  <2>4. f = [n \in 0..size |->
               IF n = 0 THEN p
               ELSE IF f[n - 1] = Deleted THEN Deleted
                    ELSE MapNodeGap(maps[n], f[n - 1], bias)]
    BY <2>3
  <2> HIDE DEF f
  <2>5. AreImages(f, sort, maps, p, bias, size)
    BY <2>2, <2>4, Zenon DEF AreImages
  <2>6. QED BY <1>1, <2>1, <2>5 DEF size
<1>6. CASE sort = "node"
  <2> DEFINE f[n \in 0..size] ==
        IF n = 0 THEN p
        ELSE IF f[n - 1] = Deleted THEN Deleted ELSE MapNodeSelection(maps[n], f[n - 1])
  <2>1. Changed(sort, maps, p, bias) = f[size]
    BY <1>6 DEF Changed, ChangedNodeSelection, Through
  <2>2. \A m, q : OneMore(sort, m, q, bias)
                    = IF q = Deleted THEN Deleted ELSE MapNodeSelection(m, q)
    BY <1>6 DEF OneMore, MapAt
  <2> HIDE DEF size
  <2>3. \E g : g = [n \in 0..size |->
                      IF n = 0 THEN p
                      ELSE IF g[n - 1] = Deleted THEN Deleted
                           ELSE MapNodeSelection(maps[n], g[n - 1])]
    <3>1. PICK g : AreImages(g, sort, maps, p, bias, size)
      BY <1>2
    <3>2. g = [n \in 0..size |-> IF n = 0 THEN p ELSE OneMore(sort, maps[n], g[n - 1], bias)]
      BY <3>1 DEF AreImages
    <3>3. \A n \in 0..size :
            (IF n = 0 THEN p ELSE OneMore(sort, maps[n], g[n - 1], bias))
            = (IF n = 0 THEN p
               ELSE IF g[n - 1] = Deleted THEN Deleted
                    ELSE MapNodeSelection(maps[n], g[n - 1]))
      BY <2>2
    <3>4. g = [n \in 0..size |->
                 IF n = 0 THEN p
                 ELSE IF g[n - 1] = Deleted THEN Deleted
                      ELSE MapNodeSelection(maps[n], g[n - 1])]
      BY <3>2, <3>3
    <3>5. QED BY <3>4
  <2>4. f = [n \in 0..size |->
               IF n = 0 THEN p
               ELSE IF f[n - 1] = Deleted THEN Deleted
                    ELSE MapNodeSelection(maps[n], f[n - 1])]
    BY <2>3
  <2> HIDE DEF f
  <2>5. AreImages(f, sort, maps, p, bias, size)
    BY <2>2, <2>4, Zenon DEF AreImages
  <2>6. QED BY <1>1, <2>1, <2>5 DEF size
<1>7. QED BY <1>3, <1>4, <1>5, <1>6 DEF Sorts

\* Without maps nothing moves.
LEMMA UnmovedIs ==
  ASSUME NEW sort \in Sorts, NEW p, NEW bias
  PROVE  Changed(sort, <<>>, p, bias) = p
<1> DEFINE none == <<>>
<1>1. Len(none) = 0
  OBVIOUS
<1> HIDE DEF none
<1>2. Len(none) \in Nat
  BY <1>1
<1>3. PICK f : f[0] = p /\ Changed(sort, none, p, bias) = f[Len(none)]
  BY <1>2, ChangedIs
<1>4. QED BY <1>1, <1>3 DEF none

\* One more map takes the image of a position along.
LEMMA OneMapMore ==
  ASSUME NEW sort \in Sorts, NEW T, NEW maps \in Seq(T), NEW m \in T, NEW p, NEW bias
  PROVE  Changed(sort, maps \o <<m>>, p, bias)
           = OneMore(sort, m, Changed(sort, maps, p, bias), bias)
<1> DEFINE size == Len(maps)
           more == maps \o <<m>>
<1>1. /\ size \in Nat /\ Len(more) = size + 1 /\ more[size + 1] = m
      /\ \A n \in 1..size : more[n] = maps[n]
  OBVIOUS
<1> HIDE DEF size, more
<1>2. PICK f : /\ f[0] = p
               /\ \A n \in 1..size : f[n] = OneMore(sort, maps[n], f[n - 1], bias)
               /\ Changed(sort, maps, p, bias) = f[size]
  BY <1>1, ChangedIs DEF size
<1>3. PICK g : /\ g[0] = p
               /\ \A n \in 1..(size + 1) : g[n] = OneMore(sort, more[n], g[n - 1], bias)
               /\ Changed(sort, more, p, bias) = g[size + 1]
  <2>1. Len(more) \in Nat
    BY <1>1
  <2>2. PICK g : /\ g[0] = p
                 /\ \A n \in 1..Len(more) : g[n] = OneMore(sort, more[n], g[n - 1], bias)
                 /\ Changed(sort, more, p, bias) = g[Len(more)]
    BY <2>1, ChangedIs
  <2>3. QED BY <1>1, <2>2
<1> DEFINE S == {n \in Nat : n <= size => g[n] = f[n]}
<1>4. 0 \in S
  BY <1>2, <1>3
<1>5. ASSUME NEW n \in Nat, n \in S PROVE n + 1 \in S
  <2>1. SUFFICES ASSUME n + 1 <= size PROVE g[n + 1] = f[n + 1]
    OBVIOUS
  <2>2. n + 1 \in 1..size /\ n + 1 \in 1..(size + 1) /\ (n + 1) - 1 = n /\ n <= size
    BY <1>1, <2>1
  <2>3. g[n] = f[n]
    BY <1>5, <2>2
  <2>4. QED BY <1>1, <1>2, <1>3, <2>2, <2>3
<1> HIDE DEF S
<1>6. Nat \subseteq S
  BY <1>4, <1>5, InductionOverNat
<1>7. g[size] = f[size]
  BY <1>1, <1>6 DEF S
<1>8. size + 1 \in 1..(size + 1) /\ (size + 1) - 1 = size
  BY <1>1
<1>9. g[size + 1] = OneMore(sort, m, f[size], bias)
  BY <1>1, <1>3, <1>7, <1>8
<1>10. QED BY <1>2, <1>3, <1>9 DEF more

-----------------------------------------------------------------------------
(* Gaps among the atoms of content.                                        *)

\* A gap, and the row of atoms of its offset.
LEMMA GapRow ==
  ASSUME NEW c, MixedContent(c), NEW o, NEW x, ValidGap(c, o, x),
         NEW a, a = AtomsBefore(c, o, 0), NEW e, e = AtomCountAt(c, o)
  PROVE  /\ o \in 0..Len(c.text) /\ x \in 0..e /\ a \in Nat /\ e \in Nat
         /\ a + e \in 0..Len(c.atoms)
         /\ AtomsBefore(c, o, x) = a + x
         /\ \A i \in 1..Len(c.atoms) : /\ i <= a <=> c.atoms[i].offset < o
                                       /\ i <= a + e <=> c.atoms[i].offset <= o
         /\ \A i \in 1..e : a + i \in 1..Len(c.atoms) /\ c.atoms[a + i].offset = o
<1>1. o \in 0..Len(c.text) /\ x \in 0..e /\ Len(c.text) \in Nat /\ Len(c.atoms) \in Nat
  BY Laid DEF ValidGap, ValidOffset
<1>2. o \in Int
  BY <1>1
<1>3. /\ a \in Nat /\ e \in Nat /\ a + e \in 0..Len(c.atoms)
      /\ \A i \in Int : AtomsBefore(c, o, i) = a + i
      /\ \A i \in 1..Len(c.atoms) : /\ i <= a <=> c.atoms[i].offset < o
                                    /\ i <= a + e <=> c.atoms[i].offset <= o
  BY <1>2, RowIs, Zenon
<1>4. AtomsBefore(c, o, x) = a + x
  BY <1>1, <1>3
<1>5. ASSUME NEW i \in 1..e PROVE a + i \in 1..Len(c.atoms) /\ c.atoms[a + i].offset = o
  <2> DEFINE n == Len(c.atoms)
  <2>1. a + i \in 1..n /\ ~(a + i <= a) /\ a + i <= a + e
    <3>1. a \in Nat /\ e \in Nat /\ a + e \in 0..n /\ n \in Nat
      BY <1>1, <1>3
    <3> HIDE DEF n
    <3>2. QED BY <3>1
  <2>2. c.atoms[a + i].offset \in Int
    BY <1>1, <2>1, Laid
  <2>3. ~(c.atoms[a + i].offset < o) /\ c.atoms[a + i].offset <= o
    BY <1>3, <2>1
  <2>4. QED BY <1>2, <2>1, <2>2, <2>3
<1>6. QED BY <1>1, <1>3, <1>4, <1>5

\* An offset of the text is a gap before its atoms.
LEMMA FirstGap ==
  ASSUME NEW c, MixedContent(c), NEW o \in 0..Len(c.text)
  PROVE  ValidGap(c, o, 0)
<1>1. Len(c.text) \in Nat
  BY Laid
<1>2. o \in Int
  BY <1>1
<1>3. AtomCountAt(c, o) \in Nat
  BY <1>2, RowIs, Zenon
<1>4. QED BY <1>3 DEF ValidGap, ValidOffset

\* So many atoms in a row at an offset of the text make a gap behind them.
LEMMA GapBehind ==
  ASSUME NEW c, MixedContent(c), NEW o \in 0..Len(c.text), NEW a \in Nat, NEW x \in Nat,
         \A i \in 1..x : a + i \in 1..Len(c.atoms) /\ c.atoms[a + i].offset = o
  PROVE  ValidGap(c, o, x)
<1> DEFINE before == AtomsBefore(c, o, 0)
           e == AtomCountAt(c, o)
<1>1. ValidGap(c, o, 0) /\ Len(c.text) \in Nat
  BY FirstGap, Laid
<1>2. /\ o \in Int /\ before \in Nat /\ e \in Nat /\ before + e \in 0..Len(c.atoms)
      /\ \A i \in 1..Len(c.atoms) : /\ i <= before <=> c.atoms[i].offset < o
                                    /\ i <= before + e <=> c.atoms[i].offset <= o
  BY <1>1, GapRow
<1> HIDE DEF before
<1>3. x <= e
  <2>1. CASE x = 0
    BY <1>2, <2>1
  <2>2. CASE x # 0
    <3>1. 1 \in 1..x /\ x \in 1..x
      BY <2>2
    <3>2. /\ a + 1 \in 1..Len(c.atoms) /\ c.atoms[a + 1].offset = o
          /\ a + x \in 1..Len(c.atoms) /\ c.atoms[a + x].offset = o
      BY <3>1
    <3>3. ~(a + 1 <= before)
      BY <1>2, <3>2
    <3>4. a + x <= before + e
      BY <1>2, <3>2
    <3> HIDE DEF e
    <3>5. QED BY <1>2, <3>3, <3>4
  <2>3. QED BY <2>1, <2>2
<1>4. x \in 0..AtomCountAt(c, o)
  BY <1>2, <1>3
<1>5. QED BY <1>4 DEF ValidGap, ValidOffset

-----------------------------------------------------------------------------
(* Where edits put the atoms.                                              *)

\* The ordinal of an atom counts from the first of its row.
LEMMA OrdinalIs ==
  ASSUME NEW c, MixedContent(c), NEW k \in 1..Len(c.atoms)
  PROVE  Ordinal(c, k) = k - 1 - AtomsBefore(c, c.atoms[k].offset, 0)
<1> DEFINE o == c.atoms[k].offset
           a == AtomsBefore(c, o, 0)
           e == AtomCountAt(c, o)
           n == Len(c.atoms)
           same == {j \in 1..(k - 1) : c.atoms[j].offset = o}
<1>1. /\ n \in Nat /\ k \in 1..n /\ o \in Nat
      /\ \A j \in 1..n : c.atoms[j].offset \in Nat
      /\ \A i, j \in 1..n : i < j => c.atoms[i].offset <= c.atoms[j].offset
  BY Laid
<1> HIDE DEF o
<1>2. a \in Nat /\ \A i \in 1..n : i <= a <=> c.atoms[i].offset < o
  <2>1. o \in Int
    BY <1>1
  <2>2. /\ a \in Nat /\ e \in Nat /\ a + e \in 0..n
        /\ \A i \in Int : AtomsBefore(c, o, i) = a + i
        /\ \A i \in 1..n : /\ i <= a <=> c.atoms[i].offset < o
                           /\ i <= a + e <=> c.atoms[i].offset <= o
    BY <2>1, RowIs, Zenon
  <2>3. QED BY <2>2
<1> HIDE DEF a, e, n
<1>3. same = (a + 1)..(k - 1)
  <2>1. ASSUME NEW j \in 1..(k - 1) PROVE j \in same <=> j \in (a + 1)..(k - 1)
    <3>1. j \in 1..n /\ j < k
      BY <1>1
    <3>2. c.atoms[j].offset <= o /\ c.atoms[j].offset \in Nat
      BY <1>1, <3>1 DEF o
    <3>3. j <= a <=> c.atoms[j].offset < o
      BY <1>2, <3>1
    <3>4. c.atoms[j].offset = o <=> ~(j <= a)
      BY <1>1, <3>2, <3>3
    <3>5. ~(j <= a) <=> j \in (a + 1)..(k - 1)
      BY <1>1, <1>2, <3>1
    <3>6. QED BY <3>4, <3>5
  <2>2. same \subseteq 1..(k - 1) /\ (a + 1)..(k - 1) \subseteq 1..(k - 1)
    BY <1>1, <1>2
  <2> HIDE DEF same
  <2>3. QED BY <2>1, <2>2
<1>4. a <= k - 1
  <2>1. ~(k <= a)
    BY <1>1, <1>2 DEF o
  <2>2. QED BY <1>1, <1>2, <2>1
<1>5. Cardinality((a + 1)..(k - 1)) = k - 1 - a
  <2>1. a + 1 \in Int /\ k - 1 \in Int
    BY <1>1, <1>2
  <2>2. Cardinality((a + 1)..(k - 1)) = IF a + 1 > k - 1 THEN 0 ELSE (k - 1) - (a + 1) + 1
    BY <2>1, FS_Interval
  <2>3. QED BY <1>1, <1>2, <1>4, <2>2
<1>6. Ordinal(c, k) = Cardinality(same)
  BY DEF Ordinal, o
<1> HIDE DEF same
<1>7. Ordinal(c, k) = k - 1 - a
  BY <1>3, <1>5, <1>6
<1>8. QED BY <1>7 DEF o, a

\* The atoms before a seam are those before its place among the atoms.
LEMMA SeamIs ==
  ASSUME NEW c, MixedContent(c), NEW offset, NEW index, ValidGap(c, offset, index),
         NEW i \in 1..Len(c.atoms)
  PROVE  BeforeSeam(c, i, offset, index) <=> i <= AtomsBefore(c, offset, index)
<1> DEFINE a == AtomsBefore(c, offset, 0)
           e == AtomCountAt(c, offset)
           o == c.atoms[i].offset
           n == Len(c.atoms)
<1>1. /\ offset \in 0..Len(c.text) /\ index \in 0..e /\ a \in Nat /\ e \in Nat
      /\ AtomsBefore(c, offset, index) = a + index
      /\ \A j \in 1..n : /\ j <= a <=> c.atoms[j].offset < offset
                         /\ j <= a + e <=> c.atoms[j].offset <= offset
  BY GapRow
<1>2. o \in Nat /\ n \in Nat /\ Len(c.text) \in Nat
  BY Laid
<1>3. o = offset => Ordinal(c, i) = i - 1 - a
  BY OrdinalIs
<1>4. (i <= a <=> o < offset) /\ (i <= a + e <=> o <= offset)
  BY <1>1
<1> HIDE DEF a, e, n
<1>5. BeforeSeam(c, i, offset, index) <=> o < offset \/ (o = offset /\ Ordinal(c, i) < index)
  BY DEF BeforeSeam
<1> HIDE DEF o
<1>6. i \in Nat /\ offset \in Nat /\ index \in Nat /\ index <= e
  BY <1>1, <1>2 DEF n
<1>7. CASE o < offset
  BY <1>1, <1>4, <1>5, <1>6, <1>7
<1>8. CASE o = offset
  BY <1>1, <1>3, <1>5, <1>6, <1>4, <1>8
<1>9. CASE o > offset
  <2>1. ~(i <= a + e)
    BY <1>2, <1>4, <1>6, <1>9
  <2>2. ~(i <= a + index)
    BY <1>1, <1>6, <2>1
  <2>3. ~(o < offset) /\ o # offset
    BY <1>2, <1>6, <1>9
  <2>4. QED BY <1>1, <1>5, <2>2, <2>3
<1>10. QED BY <1>2, <1>6, <1>7, <1>8, <1>9

\* What a text-only replacement leaves of the atoms' offsets.
SplicedLaid(c, d, start, end, len) ==
  /\ start \in 0..Len(c.text) /\ end \in start..Len(c.text) /\ len \in Nat
  /\ Len(d.text) = Len(c.text) - (end - start) + len
  /\ Len(d.atoms) = Len(c.atoms)
  /\ \A i \in 1..Len(c.atoms) :
       /\ c.atoms[i].offset < start \/ c.atoms[i].offset > end
       /\ d.atoms[i].offset = Behind(c.atoms[i].offset, start, end, len)

\* Text replaced by text alone.
LEMMA ReplaceTextLaid ==
  ASSUME NEW c, MixedContent(c), NEW start, NEW end, ReplacesText(c, start, end),
         NEW letters \in Seq(TextLetters), NEW d, d = ReplaceText(c, start, end, letters)
  PROVE  SplicedLaid(c, d, start, end, Len(letters))
<1> DEFINE text == Spliced(c.text, start, end, letters, RunMarksAt(c, start))
           atoms == [i \in DOMAIN c.atoms |->
                       IF c.atoms[i].offset > end
                       THEN [c.atoms[i] EXCEPT !.offset = @ - (end - start) + Len(letters)]
                       ELSE c.atoms[i]]
<1>1. /\ start \in 0..Len(c.text) /\ end \in 0..Len(c.text) /\ start <= end
      /\ \A i \in 1..Len(c.atoms) : c.atoms[i].offset \notin start..end
  BY Laid DEF ReplacesText, ValidOffset
<1>2. /\ Len(c.text) \in Nat /\ Len(c.atoms) \in Nat /\ DOMAIN c.atoms = 1..Len(c.atoms)
      /\ \A i \in 1..Len(c.atoms) : c.atoms[i] \in Placements /\ c.atoms[i].offset \in Nat
  BY Laid
<1>3. end \in start..Len(c.text) /\ start \in Int /\ end \in Int /\ Len(letters) \in Nat
  BY <1>1, <1>2
<1>4. text \in Seq(MarkedLetters) /\ Len(text) = Len(c.text) - (end - start) + Len(letters)
  BY <1>1, <1>3, RunMarksAre, SplicedIsText DEF MixedContent
<1>5. d.text = text /\ d.atoms = atoms
  BY DEF ReplaceText, Inline
<1> HIDE DEF text
<1>6. DOMAIN atoms = 1..Len(c.atoms)
  BY <1>2
<1>7. Len(d.atoms) = Len(c.atoms)
  <2> HIDE DEF atoms
  <2>1. QED BY <1>2, <1>5, <1>6
<1>8. ASSUME NEW i \in 1..Len(c.atoms)
      PROVE  /\ c.atoms[i].offset < start \/ c.atoms[i].offset > end
             /\ atoms[i].offset = Behind(c.atoms[i].offset, start, end, Len(letters))
  <2> DEFINE p == c.atoms[i]
             to == p.offset - (end - start) + Len(letters)
  <2>1. p.offset < start \/ p.offset > end
    <3>1. p.offset \notin start..end /\ p.offset \in Nat
      BY <1>1, <1>2
    <3> HIDE DEF p
    <3>2. QED BY <1>3, <3>1
  <2>2. atoms[i] = IF p.offset > end THEN [p EXCEPT !.offset = to] ELSE p
    BY <1>2
  <2>3. p \in Placements
    BY <1>2
  <2> HIDE DEF p, atoms
  <2>4. [p EXCEPT !.offset = to].offset = to
    BY <2>3 DEF Placements
  <2>5. atoms[i].offset = Behind(p.offset, start, end, Len(letters))
    BY <2>2, <2>4 DEF Behind
  <2>6. QED BY <2>1, <2>5 DEF p
<1>9. QED BY <1>1, <1>3, <1>4, <1>5, <1>7, <1>8 DEF SplicedLaid

\* A replacement at a seam, with k atoms before the seam.
SeamLaid(c, d, offset, k, end, len) ==
  /\ offset \in 0..Len(c.text) /\ end \in offset..Len(c.text) /\ len \in Nat
  /\ Len(d.text) = Len(c.text) - (end - offset) + len
  /\ Len(d.atoms) = Len(c.atoms)
  /\ \A i \in 1..Len(c.atoms) :
       IF i <= k
       THEN d.atoms[i].offset = c.atoms[i].offset
       ELSE /\ c.atoms[i].offset >= end
            /\ d.atoms[i].offset = c.atoms[i].offset - (end - offset) + len

\* Text replaced at a seam.
LEMMA ReplaceInlineTextLaid ==
  ASSUME NEW c, MixedContent(c), NEW offset, NEW index, NEW end,
         ReplacesInlineText(c, offset, index, end),
         NEW letters \in Seq(TextLetters), NEW marks, marks \subseteq Marks,
         NEW d, d = ReplaceInlineText(c, offset, index, end, letters, marks)
  PROVE  SeamLaid(c, d, offset, AtomsBefore(c, offset, index), end, Len(letters))
<1> DEFINE text == Spliced(c.text, offset, end, letters, marks)
           atoms == [i \in DOMAIN c.atoms |->
                       IF BeforeSeam(c, i, offset, index) THEN c.atoms[i]
                       ELSE [c.atoms[i] EXCEPT !.offset = @ - (end - offset) + Len(letters)]]
<1>1. /\ ValidGap(c, offset, index) /\ offset \in 0..Len(c.text) /\ end \in 0..Len(c.text)
      /\ offset <= end
      /\ end > offset =>
           \A i \in 1..Len(c.atoms) : BeforeSeam(c, i, offset, index) \/ c.atoms[i].offset >= end
  BY Laid DEF ReplacesInlineText, ValidGap, ValidOffset
<1>2. /\ Len(c.text) \in Nat /\ Len(c.atoms) \in Nat /\ DOMAIN c.atoms = 1..Len(c.atoms)
      /\ \A i \in 1..Len(c.atoms) : c.atoms[i] \in Placements /\ c.atoms[i].offset \in Nat
  BY Laid
<1>3. end \in offset..Len(c.text) /\ offset \in Int /\ end \in Int /\ Len(letters) \in Nat
  BY <1>1, <1>2
<1>4. text \in Seq(MarkedLetters) /\ Len(text) = Len(c.text) - (end - offset) + Len(letters)
  BY <1>1, <1>3, SplicedIsText DEF MixedContent
<1>5. d.text = text /\ d.atoms = atoms
  BY DEF ReplaceInlineText, Inline
<1> HIDE DEF text
<1>6. DOMAIN atoms = 1..Len(c.atoms)
  BY <1>2
<1>7. Len(d.atoms) = Len(c.atoms)
  <2> HIDE DEF atoms
  <2>1. QED BY <1>2, <1>5, <1>6
<1>8. ASSUME NEW i \in 1..Len(c.atoms)
      PROVE  IF i <= AtomsBefore(c, offset, index)
             THEN atoms[i].offset = c.atoms[i].offset
             ELSE /\ c.atoms[i].offset >= end
                  /\ atoms[i].offset = c.atoms[i].offset - (end - offset) + Len(letters)
  <2> DEFINE p == c.atoms[i]
             to == p.offset - (end - offset) + Len(letters)
             first == BeforeSeam(c, i, offset, index)
  <2>1. first <=> i <= AtomsBefore(c, offset, index)
    BY <1>1, SeamIs
  <2>2. atoms[i] = IF first THEN p ELSE [p EXCEPT !.offset = to]
    BY <1>2
  <2>3. p \in Placements /\ p.offset \in Nat
    BY <1>2
  <2>4. ~first => p.offset >= end
    <3>1. CASE end > offset
      BY <1>1, <3>1
    <3>2. CASE end = offset
      <4>1. ~first => ~(p.offset < offset)
        BY DEF BeforeSeam
      <4> HIDE DEF p, first
      <4>2. QED BY <1>3, <2>3, <3>2, <4>1
    <3>3. QED BY <1>1, <1>3, <3>1, <3>2
  <2> HIDE DEF p, atoms, first
  <2>5. [p EXCEPT !.offset = to].offset = to
    BY <2>3 DEF Placements
  <2>6. IF first THEN atoms[i].offset = p.offset ELSE p.offset >= end /\ atoms[i].offset = to
    BY <2>2, <2>4, <2>5
  <2>7. QED BY <2>1, <2>6 DEF p
<1>9. QED BY <1>1, <1>3, <1>4, <1>5, <1>7, <1>8 DEF SeamLaid

\* An atom entered as number k.
AttachedLaid(c, d, offset, k) ==
  /\ d.text = c.text
  /\ k \in 1..(Len(c.atoms) + 1) /\ Len(d.atoms) = Len(c.atoms) + 1
  /\ \A i \in 1..(Len(c.atoms) + 1) :
       d.atoms[i].offset = IF i < k THEN c.atoms[i].offset
                           ELSE IF i = k THEN offset ELSE c.atoms[i - 1].offset

\* An atom enters at a gap.
LEMMA AttachLaid ==
  ASSUME NEW c, MixedContent(c), NEW offset, NEW index, ValidGap(c, offset, index),
         NEW atom \in Nat, NEW d, d = AttachAtom(c, offset, index, atom),
         NEW k, k = AtomsBefore(c, offset, index) + 1
  PROVE  AttachedLaid(c, d, offset, k)
<1> DEFINE p == Placement(atom, offset)
           s == c.atoms
<1>1. /\ offset \in 0..Len(c.text)
      /\ AtomsBefore(c, offset, index) \in 0..Len(c.atoms)
  BY CutPoint
<1>2. p \in Placements /\ p.offset = offset
  BY <1>1 DEF Placement, Placements
<1>3. s \in Seq(Placements) /\ k \in 1..(Len(s) + 1)
  BY <1>1, Laid DEF MixedContent
<1>4. d.text = c.text /\ d.atoms = InsertAt(s, k, p)
  <2>1. c = Inline(c.text, c.atoms)
    BY DEF MixedContent
  <2>2. d = [c EXCEPT !.atoms = InsertAt(s, k, p)]
    BY DEF AttachAtom
  <2> HIDE DEF p, s
  <2>3. QED BY <2>1, <2>2 DEF Inline
<1> HIDE DEF p
<1>5. /\ Len(d.atoms) = Len(s) + 1
      /\ \A i \in 1..(Len(s) + 1) :
           d.atoms[i] = IF i < k THEN s[i] ELSE IF i = k THEN p ELSE s[i - 1]
  <2> HIDE DEF s
  <2>1. QED BY <1>2, <1>3, <1>4, Inserted
<1>6. QED BY <1>2, <1>3, <1>4, <1>5 DEF AttachedLaid

\* Atom number k left.
DetachedLaid(c, d, k) ==
  /\ d.text = c.text /\ Len(d.atoms) = Len(c.atoms) - 1
  /\ \A i \in 1..(Len(c.atoms) - 1) :
       d.atoms[i].offset = IF i < k THEN c.atoms[i].offset ELSE c.atoms[i + 1].offset

\* An atom leaves.
LEMMA DetachLaid ==
  ASSUME NEW c, MixedContent(c), NEW k \in 1..Len(c.atoms), NEW d, d = DetachAtom(c, k)
  PROVE  DetachedLaid(c, d, k)
<1> DEFINE s == c.atoms
<1>1. s \in Seq(Placements) /\ k \in 1..Len(s)
  BY Laid DEF MixedContent
<1>2. d.text = c.text /\ d.atoms = RemoveAt(s, k)
  <2>1. c = Inline(c.text, c.atoms)
    BY DEF MixedContent
  <2>2. d = [c EXCEPT !.atoms = RemoveAt(s, k)]
    BY DEF DetachAtom
  <2> HIDE DEF s
  <2>3. QED BY <2>1, <2>2 DEF Inline
<1>3. /\ Len(d.atoms) = Len(s) - 1
      /\ \A i \in 1..(Len(s) - 1) : d.atoms[i] = IF i < k THEN s[i] ELSE s[i + 1]
  <2> HIDE DEF s
  <2>1. QED BY <1>1, <1>2, Removed
<1>4. QED BY <1>2, <1>3 DEF DetachedLaid

\* Content was cut with k atoms before the cut.
CutApart(c, head, tail, offset, k) ==
  /\ Len(head.text) = offset /\ Len(tail.text) = Len(c.text) - offset
  /\ Len(head.atoms) = k /\ Len(tail.atoms) = Len(c.atoms) - k
  /\ \A i \in 1..k : head.atoms[i].offset = c.atoms[i].offset
  /\ \A i \in 1..(Len(c.atoms) - k) :
       tail.atoms[i].offset = c.atoms[k + i].offset - offset

\* Content is cut at a gap.
LEMMA CutLaid ==
  ASSUME NEW c, MixedContent(c), NEW offset, NEW index, ValidGap(c, offset, index),
         NEW k, k = AtomsBefore(c, offset, index),
         NEW head, head = HeadOf(c, offset, index), NEW tail, tail = TailOf(c, offset, index)
  PROVE  CutApart(c, head, tail, offset, k)
<1> DEFINE n == Len(c.atoms)
           size == Len(c.text)
           left == SubSeq(c.atoms, 1, k)
           right == SubSeq(c.atoms, k + 1, n)
           moved == Shifted(right, -offset)
           first == SubSeq(c.text, 1, offset)
           second == SubSeq(c.text, offset + 1, size)
<1>1. head.text = first /\ head.atoms = left /\ tail.text = second /\ tail.atoms = moved
  BY DEF HeadOf, TailOf, Inline
<1>2. /\ offset \in 0..size /\ k \in 0..n /\ n \in Nat /\ size \in Nat
      /\ c.atoms \in Seq(Placements) /\ c.text \in Seq(MarkedLetters)
  BY CutPoint, Laid DEF MixedContent
<1>3. \A i \in 1..n : /\ i > k => c.atoms[i].offset >= offset
                      /\ c.atoms[i].offset \in 0..size
  BY CutPoint, Laid
<1>4. Len(first) = offset
  <2> DEFINE s == c.text
  <2>1. s \in Seq(MarkedLetters) /\ 1 \in 1..(Len(s) + 1) /\ offset \in (1 - 1)..Len(s)
    BY <1>2
  <2> HIDE DEF s
  <2>2. Len(SubSeq(s, 1, offset)) = offset - 1 + 1
    BY <2>1, Slice
  <2>3. offset - 1 + 1 = offset
    BY <1>2
  <2>4. QED BY <2>2, <2>3 DEF s
<1>5. Len(second) = size - offset
  <2> DEFINE s == c.text
             from == offset + 1
  <2>1. s \in Seq(MarkedLetters) /\ from \in 1..(Len(s) + 1) /\ Len(s) \in (from - 1)..Len(s)
    BY <1>2
  <2>2. Len(s) - from + 1 = size - offset
    BY <1>2
  <2> HIDE DEF s, from
  <2>3. Len(SubSeq(s, from, Len(s))) = Len(s) - from + 1
    BY <2>1, Slice
  <2>4. QED BY <2>2, <2>3 DEF s, from
<1>6. Len(left) = k /\ \A i \in 1..k : left[i] = c.atoms[i]
  <2> DEFINE s == c.atoms
  <2>1. s \in Seq(Placements) /\ 1 \in 1..(Len(s) + 1) /\ k \in (1 - 1)..Len(s)
    BY <1>2
  <2>2. k - 1 + 1 = k /\ \A i \in 1..k : 1 + i - 1 = i
    BY <1>2
  <2> HIDE DEF s
  <2>3. /\ Len(SubSeq(s, 1, k)) = k - 1 + 1
        /\ \A i \in 1..(k - 1 + 1) : SubSeq(s, 1, k)[i] = s[1 + i - 1]
    BY <2>1, Slice
  <2>4. Len(SubSeq(s, 1, k)) = k /\ \A i \in 1..k : SubSeq(s, 1, k)[i] = s[i]
    BY <2>2, <2>3
  <2>5. QED BY <2>4 DEF s
<1>7. /\ right \in Seq(Placements) /\ Len(right) = n - k
      /\ \A i \in 1..(n - k) : right[i] = c.atoms[k + i]
  <2> DEFINE s == c.atoms
             from == k + 1
  <2>1. s \in Seq(Placements) /\ from \in 1..(Len(s) + 1) /\ Len(s) \in (from - 1)..Len(s)
    BY <1>2
  <2>2. Len(s) - from + 1 = n - k /\ \A i \in 1..(n - k) : from + i - 1 = k + i
    BY <1>2
  <2> HIDE DEF s, from
  <2>3. /\ SubSeq(s, from, Len(s)) \in Seq(Placements)
        /\ Len(SubSeq(s, from, Len(s))) = Len(s) - from + 1
        /\ \A i \in 1..(Len(s) - from + 1) : SubSeq(s, from, Len(s))[i] = s[from + i - 1]
    BY <2>1, Slice
  <2>4. /\ SubSeq(s, from, Len(s)) \in Seq(Placements)
        /\ Len(SubSeq(s, from, Len(s))) = n - k
        /\ \A i \in 1..(n - k) : SubSeq(s, from, Len(s))[i] = s[k + i]
    BY <2>2, <2>3
  <2>5. QED BY <2>4 DEF s, from
<1> HIDE DEF left, right, first, second
<1>8. \A i \in 1..(n - k) : c.atoms[k + i].offset \in offset..size
  <2>1. TAKE i \in 1..(n - k)
  <2>2. k + i \in 1..n /\ k + i > k
    BY <1>2
  <2>3. c.atoms[k + i].offset >= offset /\ c.atoms[k + i].offset \in 0..size
    BY <1>3, <2>2
  <2>4. QED BY <1>2, <2>3
<1>9. /\ Len(moved) = n - k
      /\ \A i \in 1..(n - k) : moved[i].offset = c.atoms[k + i].offset - offset
  <2>1. -offset \in Int
    BY <1>2
  <2>2. \A i \in 1..Len(right) : right[i].offset + (-offset) \in Nat
    <3>1. ASSUME NEW i \in 1..(n - k) PROVE c.atoms[k + i].offset + (-offset) \in Nat
      BY <1>2, <1>8, FromCut
    <3> HIDE DEF n
    <3>2. QED BY <1>7, <3>1
  <2>3. /\ Len(moved) = Len(right)
        /\ \A i \in 1..Len(right) : moved[i].offset = right[i].offset + (-offset)
    BY <1>7, <2>1, <2>2, ShiftedAre
  <2>4. \A i \in 1..(n - k) : c.atoms[k + i].offset + (-offset) = c.atoms[k + i].offset - offset
    BY <1>2, <1>8
  <2> HIDE DEF moved
  <2>5. QED BY <1>7, <2>3, <2>4
<1> HIDE DEF moved
<1>10. QED BY <1>1, <1>4, <1>5, <1>6, <1>9 DEF CutApart

\* Content was put together.
PutTogether(a, b, d) ==
  /\ Len(d.text) = Len(a.text) + Len(b.text)
  /\ Len(d.atoms) = Len(a.atoms) + Len(b.atoms)
  /\ \A i \in 1..Len(a.atoms) : d.atoms[i].offset = a.atoms[i].offset
  /\ \A i \in 1..Len(b.atoms) :
       d.atoms[Len(a.atoms) + i].offset = Len(a.text) + b.atoms[i].offset

\* Two contents are joined.
LEMMA JoinLaid ==
  ASSUME NEW a, MixedContent(a), NEW b, MixedContent(b), NEW d, d = Joined(a, b)
  PROVE  PutTogether(a, b, d)
<1> DEFINE n == Len(a.atoms)
           m == Len(b.atoms)
           size == Len(a.text)
           more == Len(b.text)
           moved == Shifted(b.atoms, size)
           x == a.atoms
<1>1. d.text = a.text \o b.text /\ d.atoms = x \o moved
  BY DEF Joined, Inline
<1>2. /\ n \in Nat /\ m \in Nat /\ size \in Nat
      /\ x \in Seq(Placements) /\ b.atoms \in Seq(Placements)
      /\ a.text \in Seq(MarkedLetters) /\ b.text \in Seq(MarkedLetters)
      /\ \A i \in 1..m : b.atoms[i].offset \in Nat
  BY Laid DEF MixedContent
<1>3. Len(d.text) = size + more
  BY <1>1, <1>2, ConcatProperties
<1>4. /\ moved \in Seq(Placements) /\ Len(moved) = m
      /\ \A i \in 1..m : moved[i].offset = b.atoms[i].offset + size
  <2>1. size \in Int /\ \A i \in 1..m : b.atoms[i].offset + size \in Nat
    BY <1>2
  <2>2. QED BY <1>2, <2>1, ShiftedAre
<1> HIDE DEF moved
<1>5. /\ Len(x \o moved) = n + m
      /\ \A i \in 1..(n + m) : (x \o moved)[i] = IF i <= n THEN x[i] ELSE moved[i - n]
  <2>1. x \in Seq(Placements) /\ moved \in Seq(Placements) /\ Len(x) = n /\ Len(moved) = m
    BY <1>2, <1>4
  <2> HIDE DEF x, n, m
  <2>2. /\ Len(x \o moved) = Len(x) + Len(moved)
        /\ \A i \in 1..(Len(x) + Len(moved)) :
             (x \o moved)[i] = IF i <= Len(x) THEN x[i] ELSE moved[i - Len(x)]
    BY <2>1, ConcatProperties
  <2>3. QED BY <2>1, <2>2
<1> HIDE DEF n, m, size, more
<1>6. ASSUME NEW i \in 1..n PROVE d.atoms[i].offset = a.atoms[i].offset
  <2>1. i \in 1..(n + m) /\ i <= n
    BY <1>2
  <2>2. QED BY <1>1, <1>5, <2>1
<1>7. ASSUME NEW i \in 1..m PROVE d.atoms[n + i].offset = size + b.atoms[i].offset
  <2>1. n + i \in 1..(n + m) /\ ~(n + i <= n) /\ (n + i) - n = i
    BY <1>2
  <2>2. d.atoms[n + i] = moved[i]
    BY <1>1, <1>5, <2>1
  <2>3. b.atoms[i].offset + size = size + b.atoms[i].offset
    BY <1>2
  <2>4. QED BY <1>4, <2>2, <2>3
<1>8. QED BY <1>1, <1>3, <1>5, <1>6, <1>7 DEF n, m, size, more, PutTogether

-----------------------------------------------------------------------------
(* Gaps carried through the edits of a node.                               *)

TextPoints(ids) == [node : ids, offset : Nat]
Gap(c, p) == ValidGap(c, p.offset, p.index)
\* A gap, and a text point, of node n with content c.
At(p, n, c) == p \in InlinePoints(Nat) /\ p.node = n /\ Gap(c, p)
TextAt(p, n, c) == p \in TextPoints(Nat) /\ p.node = n /\ p.offset \in 0..Len(c.text)

\* The atoms of a gap's offset before it.
LEMMA RowBefore ==
  ASSUME NEW c, MixedContent(c), NEW o, NEW x, ValidGap(c, o, x),
         NEW a, a = AtomsBefore(c, o, 0)
  PROVE  /\ o \in 0..Len(c.text) /\ x \in Nat /\ a \in Nat /\ a + x \in 0..Len(c.atoms)
         /\ AtomsBefore(c, o, x) = a + x
         /\ \A i \in 1..x : a + i \in 1..Len(c.atoms) /\ c.atoms[a + i].offset = o
<1> DEFINE e == AtomCountAt(c, o)
<1>1. /\ o \in 0..Len(c.text) /\ x \in 0..e /\ a \in Nat /\ e \in Nat
      /\ a + e \in 0..Len(c.atoms)
      /\ AtomsBefore(c, o, x) = a + x
      /\ \A i \in 1..e : a + i \in 1..Len(c.atoms) /\ c.atoms[a + i].offset = o
  BY GapRow
<1>2. Len(c.atoms) \in Nat
  BY Laid
<1> HIDE DEF e
<1>3. x \in Nat /\ (\A i \in 1..x : i \in 1..e) /\ a + x \in 0..Len(c.atoms)
  BY <1>1, <1>2
<1>4. QED BY <1>1, <1>3

\* A text whose range from start to end became as long as len.
Resized(size, start, end, len, more) ==
  /\ size \in Nat /\ start \in 0..size /\ end \in start..size /\ len \in Nat
  /\ more = size - (end - start) + len

\* An offset over a replaced range stays in the text the replacement leaves.
LEMMA OffsetIs ==
  ASSUME NEW size, NEW start, NEW end, NEW len, NEW more, Resized(size, start, end, len, more),
         NEW m, m.start = start, m.end = end, m.len = len,
         NEW o \in 0..size, NEW bias \in Biases
  PROVE  /\ OffsetOver(m, o, bias) \in 0..more /\ OffsetOver(m, o, bias) \in Nat
         /\ o < start \/ o > end => OffsetOver(m, o, bias) = Behind(o, start, end, len)
BY DEF OffsetOver, Behind, Biases, Resized

\* Text replaced between atoms: what lies outside the range keeps its row.
LEMMA TextReplacedCarries ==
  ASSUME NEW c, MixedContent(c), NEW d, MixedContent(d),
         NEW start, NEW end, NEW len, SplicedLaid(c, d, start, end, len),
         NEW n \in Nat, NEW m, m = TextReplaced(n, start, end, len), NEW bias \in Biases
  PROVE  /\ \A p : At(p, n, c) => At(MapInlinePoint(m, p, bias), n, d)
         /\ \A p : TextAt(p, n, c) => TextAt(MapTextPoint(m, p, bias), n, d)
<1>1. /\ start \in 0..Len(c.text) /\ end \in start..Len(c.text) /\ len \in Nat
      /\ Len(d.text) = Len(c.text) - (end - start) + len
      /\ Len(d.atoms) = Len(c.atoms)
      /\ \A i \in 1..Len(c.atoms) :
           /\ c.atoms[i].offset < start \/ c.atoms[i].offset > end
           /\ d.atoms[i].offset = Behind(c.atoms[i].offset, start, end, len)
  BY DEF SplicedLaid
<1>2. Len(c.text) \in Nat
  BY Laid
<1>3. m.map = "TextReplaced" /\ m.node = n /\ m.start = start /\ m.end = end /\ m.len = len
  BY DEF TextReplaced
<1>4. ASSUME NEW o \in 0..Len(c.text)
      PROVE  /\ OffsetOver(m, o, bias) \in 0..Len(d.text) /\ OffsetOver(m, o, bias) \in Nat
             /\ o < start \/ o > end => OffsetOver(m, o, bias) = Behind(o, start, end, len)
  <2> DEFINE to == OffsetOver(m, o, bias)
             size == Len(c.text)
             more == Len(d.text)
  <2>1. Resized(size, start, end, len, more) /\ o \in 0..size
    BY <1>1, <1>2 DEF Resized
  <2> HIDE DEF size, more
  <2>2. /\ to \in 0..more /\ to \in Nat
        /\ o < start \/ o > end => to = Behind(o, start, end, len)
    BY <1>3, <2>1, OffsetIs
  <2>3. QED BY <2>2 DEF more
<1>5. ASSUME NEW p \in InlinePoints(Nat), p.node = n, Gap(c, p)
      PROVE  /\ MapInlinePoint(m, p, bias) \in InlinePoints(Nat)
             /\ MapInlinePoint(m, p, bias).node = n
             /\ Gap(d, MapInlinePoint(m, p, bias))
  <2> DEFINE o == p.offset
             x == p.index
             a == AtomsBefore(c, o, 0)
             to == OffsetOver(m, o, bias)
             q == MapInlinePoint(m, p, bias)
  <2>1. q = [p EXCEPT !.offset = to]
    <3>1. q = MapTextPoint(m, p, bias)
      BY <1>3 DEF MapInlinePoint
    <3>2. MapTextPoint(m, p, bias) = [p EXCEPT !.offset = to]
      BY <1>3, <1>5 DEF MapTextPoint
    <3>3. QED BY <3>1, <3>2
  <2>2. /\ o \in 0..Len(c.text) /\ x \in Nat /\ a \in Nat
        /\ \A i \in 1..x : a + i \in 1..Len(c.atoms) /\ c.atoms[a + i].offset = o
    BY <1>5, RowBefore DEF Gap
  <2> HIDE DEF a
  <2>3. /\ to \in 0..Len(d.text) /\ to \in Nat
        /\ o < start \/ o > end => to = Behind(o, start, end, len)
    BY <1>4, <2>2
  <2> HIDE DEF to
  <2>4. q \in InlinePoints(Nat) /\ q.node = n /\ q.offset = to /\ q.index = x
    BY <1>5, <2>1, <2>3 DEF InlinePoints
  <2> HIDE DEF q, o, x
  <2>5. ValidGap(d, to, x)
    <3>1. CASE x = 0
      BY <2>3, <3>1, FirstGap
    <3>2. CASE x # 0
      <4>1. 1 \in 1..x
        BY <2>2, <3>2
      <4>2. o < start \/ o > end
        BY <1>1, <2>2, <4>1
      <4>3. \A i \in 1..x : a + i \in 1..Len(d.atoms) /\ d.atoms[a + i].offset = to
        BY <1>1, <2>2, <2>3, <4>2
      <4>4. QED BY <2>2, <2>3, <4>3, GapBehind
    <3>3. QED BY <3>1, <3>2
  <2>6. QED BY <2>4, <2>5 DEF q, Gap
<1>6. ASSUME NEW p \in TextPoints(Nat), p.node = n, p.offset \in 0..Len(c.text)
      PROVE  /\ MapTextPoint(m, p, bias) \in TextPoints(Nat)
             /\ MapTextPoint(m, p, bias).node = n
             /\ MapTextPoint(m, p, bias).offset \in 0..Len(d.text)
  <2>1. MapTextPoint(m, p, bias) = [p EXCEPT !.offset = OffsetOver(m, p.offset, bias)]
    BY <1>3, <1>6 DEF MapTextPoint
  <2>2. OffsetOver(m, p.offset, bias) \in 0..Len(d.text) /\ OffsetOver(m, p.offset, bias) \in Nat
    BY <1>4, <1>6
  <2>3. QED BY <1>6, <2>1, <2>2 DEF TextPoints
<1>7. QED BY <1>5, <1>6 DEF At, TextAt

\* Where a gap goes over a replacement at a seam.
Landing(start, end, len, seam, p, q) ==
  \/ p.offset < start /\ q.offset = p.offset /\ q.index = p.index
  \/ p.offset = start /\ p.index <= seam /\ q.offset = start /\ q.index = p.index
  \/ q.offset = start + len /\ q.index = 0
  \/ q.offset = start /\ q.index = seam
  \/ p.offset = start /\ p.index > seam /\ len > 0 /\ q.offset = start + len /\ q.index = p.index - seam
  \/ p.offset = start /\ p.index > seam /\ len = 0 /\ q.offset = start /\ q.index = p.index
  \/ p.offset = end /\ start < end /\ len > 0 /\ q.offset = start + len /\ q.index = p.index
  \/ p.offset = end /\ start < end /\ len = 0 /\ q.offset = start /\ q.index = seam + p.index
  \/ p.offset > end /\ q.offset = p.offset - (end - start) + len /\ q.index = p.index

LandsAt(q, p, n, start, end, len, seam) ==
  q \in InlinePoints(Nat) /\ q.node = n /\ Landing(start, end, len, seam, p, q)

\* A replacement at a seam tells where the gaps of its node go.
LEMMA OverSeamLands ==
  ASSUME NEW n \in Nat, NEW start \in Nat, NEW end \in Nat, start <= end, NEW len \in Nat,
         NEW seam \in Nat, NEW m, m = InlineTextReplaced(n, start, end, len, seam),
         NEW p \in InlinePoints(Nat), p.node = n, NEW bias \in Biases
  PROVE  LandsAt(MapInlinePoint(m, p, bias), p, n, start, end, len, seam)
<1> DEFINE q == OverSeam(m, p, bias)
<1>1. MapInlinePoint(m, p, bias) = q
  BY DEF MapInlinePoint, InlineTextReplaced
<1> SUFFICES LandsAt(q, p, n, start, end, len, seam)
  BY <1>1
<1>2. /\ m.start = start /\ m.end = end /\ m.len = len /\ m.seam = seam
      /\ p.offset \in Nat /\ p.index \in Nat
  BY DEF InlineTextReplaced, InlinePoints
<1>3. q.node = n
  BY DEF OverSeam, BehindReplacement, InlineTextReplaced, InlinePoints
<1>4. Landing(start, end, len, seam, p, q)
  <2> HIDE DEF q
  <2>1. CASE p.offset < start
    <3>1. q.offset = p.offset /\ q.index = p.index
      BY <2>1 DEF q, OverSeam, BehindReplacement, InlineTextReplaced, InlinePoints
    <3>2. QED BY <1>2, <2>1, <3>1 DEF Landing
  <2>2. CASE p.offset = start /\ p.index < seam
    <3>1. q.offset = start /\ q.index = p.index
      BY <2>2 DEF q, OverSeam, BehindReplacement, InlineTextReplaced, InlinePoints
    <3>2. QED BY <1>2, <2>2, <3>1 DEF Landing
  <2>3. CASE p.offset = start /\ p.index = seam
    <3>1. \/ q.offset = start /\ q.index = p.index
          \/ q.offset = start + len /\ q.index = 0
      BY <2>3 DEF q, OverSeam, BehindReplacement, InlineTextReplaced, InlinePoints
    <3>2. QED BY <1>2, <2>3, <3>1 DEF Landing
  <2>4. CASE p.offset = start /\ p.index > seam
    <3>1. IF len > 0 THEN q.offset = start + len /\ q.index = p.index - seam
                     ELSE q.offset = start /\ q.index = p.index
      BY <2>4 DEF q, OverSeam, BehindReplacement, InlineTextReplaced, InlinePoints
    <3>2. QED BY <1>2, <2>4, <3>1 DEF Landing
  <2>5. CASE p.offset > start /\ p.offset < end
    <3>1. \/ q.offset = start + len /\ q.index = 0
          \/ q.offset = start /\ q.index = seam
      BY <2>5 DEF q, OverSeam, BehindReplacement, InlineTextReplaced, InlinePoints
    <3>2. QED BY <1>2, <2>5, <3>1 DEF Landing
  <2>6. CASE p.offset > start /\ p.offset = end
    <3>1. q = IF m.len > 0 THEN [p EXCEPT !.offset = m.start + m.len]
              ELSE [p EXCEPT !.offset = m.start, !.index = m.seam + @]
      BY <1>2, <2>6 DEF q, OverSeam
    <3>2. CASE len > 0
      <4>1. q = [p EXCEPT !.offset = m.start + m.len]
        BY <1>2, <3>1, <3>2
      <4>2. q.offset = start + len /\ q.index = p.index
        BY <1>2, <4>1 DEF InlinePoints
      <4>3. QED BY <1>2, <2>6, <3>2, <4>2 DEF Landing
    <3>3. CASE len = 0
      <4>1. q = [p EXCEPT !.offset = m.start, !.index = m.seam + @]
        BY <1>2, <3>1, <3>3
      <4>2. q.offset = start /\ q.index = seam + p.index
        BY <1>2, <4>1 DEF InlinePoints
      <4>3. QED BY <1>2, <2>6, <3>3, <4>2 DEF Landing
    <3>4. QED BY <3>2, <3>3
  <2>7. CASE p.offset > end
    <3>1. q.offset = p.offset - (end - start) + len /\ q.index = p.index
      BY <2>7 DEF q, OverSeam, BehindReplacement, InlineTextReplaced, InlinePoints
    <3>2. QED BY <1>2, <2>7, <3>1 DEF Landing
  <2>8. QED BY <1>2, <2>1, <2>2, <2>3, <2>4, <2>5, <2>6, <2>7
<1>5. q.offset \in Nat /\ q.index \in Nat
  BY DEF OverSeam, BehindReplacement, InlineTextReplaced, InlinePoints
<1>6. q = [node |-> q.node, offset |-> q.offset, index |-> q.index]
  BY DEF OverSeam, BehindReplacement, InlineTextReplaced, InlinePoints
<1>7. q \in InlinePoints(Nat)
  BY <1>3, <1>5, <1>6 DEF InlinePoints
<1>8. QED BY <1>3, <1>4, <1>7 DEF LandsAt

-----------------------------------------------------------------------------
(* Rows of atoms.                                                          *)

\* The x atoms behind number a lie at offset o.
Row(c, a, x, o) == \A i \in 1..x : a + i \in 1..Len(c.atoms) /\ c.atoms[a + i].offset = o
\* A gap of the content, x atoms of its offset and a atoms of earlier ones
\* before it.
Located(c, o, x, a) ==
  /\ o \in 0..Len(c.text) /\ x \in Nat /\ a \in Nat /\ a + x \in 0..Len(c.atoms)
  /\ Row(c, a, x, o)

LEMMA GapLocated ==
  ASSUME NEW c, MixedContent(c), NEW o, NEW x, ValidGap(c, o, x)
  PROVE  Located(c, o, x, AtomsBefore(c, o, 0))
<1> DEFINE a == AtomsBefore(c, o, 0)
<1>1. /\ o \in 0..Len(c.text) /\ x \in Nat /\ a \in Nat /\ a + x \in 0..Len(c.atoms)
      /\ \A i \in 1..x : a + i \in 1..Len(c.atoms) /\ c.atoms[a + i].offset = o
  BY RowBefore
<1> HIDE DEF a
<1>2. Located(c, o, x, a)
  BY <1>1 DEF Located, Row
<1>3. QED BY <1>2 DEF a

LEMMA RowGap ==
  ASSUME NEW c, MixedContent(c), NEW o \in 0..Len(c.text), NEW a \in Nat, NEW x \in Nat,
         Row(c, a, x, o)
  PROVE  ValidGap(c, o, x)
BY GapBehind DEF Row

LEMMA RowsTogether ==
  ASSUME NEW c, NEW o, NEW a \in Nat, NEW x \in Nat, NEW y \in Nat,
         Row(c, a, x, o), Row(c, a + x, y, o)
  PROVE  Row(c, a, x + y, o)
<1> SUFFICES ASSUME NEW i \in 1..(x + y)
             PROVE  a + i \in 1..Len(c.atoms) /\ c.atoms[a + i].offset = o
  BY DEF Row
<1>1. CASE i <= x
  <2>1. i \in 1..x
    BY <1>1
  <2>2. QED BY <2>1 DEF Row
<1>2. CASE i > x
  <2>1. i - x \in 1..y /\ (a + x) + (i - x) = a + i
    BY <1>2
  <2>2. \A j \in 1..y : (a + x) + j \in 1..Len(c.atoms) /\ c.atoms[(a + x) + j].offset = o
    BY DEF Row
  <2>3. (a + x) + (i - x) \in 1..Len(c.atoms) /\ c.atoms[(a + x) + (i - x)].offset = o
    BY <2>1, <2>2
  <2>4. QED BY <2>1, <2>3
<1>3. QED BY <1>1, <1>2

LEMMA RowsApart ==
  ASSUME NEW c, NEW o, NEW a \in Nat, NEW x \in Nat, NEW y \in Nat, Row(c, a, x + y, o)
  PROVE  Row(c, a, x, o) /\ Row(c, a + x, y, o)
<1>1. \A i \in 1..(x + y) : a + i \in 1..Len(c.atoms) /\ c.atoms[a + i].offset = o
  BY DEF Row
<1>2. ASSUME NEW i \in 1..x PROVE a + i \in 1..Len(c.atoms) /\ c.atoms[a + i].offset = o
  <2>1. i \in 1..(x + y)
    OBVIOUS
  <2>2. QED BY <1>1, <2>1
<1>3. ASSUME NEW i \in 1..y
      PROVE  (a + x) + i \in 1..Len(c.atoms) /\ c.atoms[(a + x) + i].offset = o
  <2>1. x + i \in 1..(x + y) /\ (a + x) + i = a + (x + i)
    OBVIOUS
  <2>2. a + (x + i) \in 1..Len(c.atoms) /\ c.atoms[a + (x + i)].offset = o
    BY <1>1, <2>1
  <2>3. QED BY <2>1, <2>2
<1>4. QED BY <1>2, <1>3 DEF Row

\* How the atoms before a gap stand to the k atoms before an edited one.
Sides(o, x, a, offset, index, k) ==
  /\ o < offset => a + x <= k
  /\ o = offset => k = a + index
  /\ o > offset => k <= a

LEMMA GapSides ==
  ASSUME NEW c, MixedContent(c), NEW o, NEW x, ValidGap(c, o, x),
         NEW offset, NEW index, ValidGap(c, offset, index)
  PROVE  Sides(o, x, AtomsBefore(c, o, 0), offset, index, AtomsBefore(c, offset, index))
<1> DEFINE a == AtomsBefore(c, o, 0)
           e == AtomCountAt(c, o)
           b == AtomsBefore(c, offset, 0)
           f == AtomCountAt(c, offset)
           n == Len(c.atoms)
           k == AtomsBefore(c, offset, index)
<1>1. /\ o \in 0..Len(c.text) /\ x \in 0..e /\ a \in Nat /\ e \in Nat /\ a + e \in 0..n
      /\ \A i \in 1..n : /\ i <= a <=> c.atoms[i].offset < o
                         /\ i <= a + e <=> c.atoms[i].offset <= o
  BY GapRow
<1>2. /\ offset \in 0..Len(c.text) /\ index \in 0..f /\ b \in Nat /\ f \in Nat /\ b + f \in 0..n
      /\ k = b + index
      /\ \A i \in 1..n : /\ i <= b <=> c.atoms[i].offset < offset
                         /\ i <= b + f <=> c.atoms[i].offset <= offset
  BY GapRow
<1>3. n \in Nat /\ Len(c.text) \in Nat /\ \A i \in 1..n : c.atoms[i].offset \in Nat
  BY Laid
<1>4. ASSUME o = offset PROVE k = a + index
  BY <1>2, <1>4
<1> HIDE DEF a, e, b, f, n, k
<1>5. ASSUME o < offset PROVE a + x <= k
  <2>1. CASE a + x = 0
    BY <1>1, <1>2, <2>1
  <2>2. CASE a + x # 0
    <3>1. a + x \in 1..n /\ a + x <= a + e
      BY <1>1, <1>3, <2>2
    <3>2. c.atoms[a + x].offset <= o /\ c.atoms[a + x].offset \in Nat
      BY <1>1, <1>3, <3>1
    <3>3. c.atoms[a + x].offset < offset
      BY <1>1, <1>2, <1>3, <1>5, <3>2
    <3>4. a + x <= b
      BY <1>2, <3>1, <3>3
    <3>5. QED BY <1>1, <1>2, <3>1, <3>4
  <2>3. QED BY <2>1, <2>2
<1>6. ASSUME o > offset PROVE k <= a
  <2>1. CASE b + f = 0
    BY <1>1, <1>2, <2>1
  <2>2. CASE b + f # 0
    <3>1. b + f \in 1..n /\ b + f <= b + f
      BY <1>2, <1>3, <2>2
    <3>2. c.atoms[b + f].offset <= offset /\ c.atoms[b + f].offset \in Nat
      BY <1>2, <1>3, <3>1
    <3>3. c.atoms[b + f].offset < o
      BY <1>1, <1>2, <1>3, <1>6, <3>2
    <3>4. b + f <= a
      BY <1>1, <3>1, <3>3
    <3>5. QED BY <1>1, <1>2, <3>1, <3>4
  <2>3. QED BY <2>1, <2>2
<1>7. Sides(o, x, a, offset, index, k)
  BY <1>4, <1>5, <1>6 DEF Sides
<1>8. QED BY <1>7 DEF a, k

\* Where an offset behind a replaced range goes.
AfterEdit(o, start, end, len) == o - (end - start) + len

\* Across a replacement at a seam, the rows before it stay and those behind it
\* are moved.
LEMMA SeamRows ==
  ASSUME NEW c, NEW d, NEW start, NEW k \in Nat, NEW end \in Nat, NEW len,
         SeamLaid(c, d, start, k, end, len), Len(c.atoms) \in Nat,
         NEW a \in Nat, NEW x \in Nat, NEW o \in Nat, Row(c, a, x, o)
  PROVE  /\ a + x <= k => Row(d, a, x, o)
         /\ k <= a => Row(d, a, x, AfterEdit(o, start, end, len))
<1>1. /\ Len(d.atoms) = Len(c.atoms)
      /\ \A i \in 1..Len(c.atoms) :
           IF i <= k
           THEN d.atoms[i].offset = c.atoms[i].offset
           ELSE /\ c.atoms[i].offset >= end
                /\ d.atoms[i].offset = c.atoms[i].offset - (end - start) + len
  BY DEF SeamLaid
<1>2. \A i \in 1..x : a + i \in 1..Len(c.atoms) /\ c.atoms[a + i].offset = o
  BY DEF Row
<1>3. ASSUME a + x <= k PROVE Row(d, a, x, o)
  <2>1. \A i \in 1..x : a + i <= k
    BY <1>3
  <2>2. QED BY <1>1, <1>2, <2>1 DEF Row
<1>4. ASSUME k <= a PROVE Row(d, a, x, AfterEdit(o, start, end, len))
  <2>1. \A i \in 1..x : ~(a + i <= k)
    BY <1>4
  <2>2. QED BY <1>1, <1>2, <2>1 DEF Row, AfterEdit
<1>5. QED BY <1>3, <1>4

\* What lands over a replacement at a seam is a gap.
LEMMA LandingIsGap ==
  ASSUME NEW c, MixedContent(c), NEW d, MixedContent(d),
         NEW start, NEW seam, ValidGap(c, start, seam), NEW end, NEW len,
         SeamLaid(c, d, start, AtomsBefore(c, start, seam), end, len),
         NEW p \in InlinePoints(Nat), Gap(c, p), NEW q, Landing(start, end, len, seam, p, q)
  PROVE  Gap(d, q)
<1> DEFINE o == p.offset
           x == p.index
           a == AtomsBefore(c, o, 0)
           b == AtomsBefore(c, start, 0)
           k == AtomsBefore(c, start, seam)
           size == Len(c.text)
           more == Len(d.text)
           shift == AfterEdit(o, start, end, len)
<1>1. Located(c, o, x, a) /\ Sides(o, x, a, start, seam, k)
  BY GapLocated, GapSides DEF Gap
<1>2. Located(c, start, seam, b) /\ k = b + seam
  BY GapLocated, RowBefore
<1>3. /\ start \in 0..size /\ end \in start..size /\ len \in Nat
      /\ more = size - (end - start) + len /\ size \in Nat
  BY Laid DEF SeamLaid
<1>4. /\ o \in 0..size /\ x \in Nat /\ a \in Nat /\ a + x \in 0..Len(c.atoms) /\ Row(c, a, x, o)
      /\ seam \in Nat /\ b \in Nat /\ k \in Nat /\ Row(c, b, seam, start)
  BY <1>1, <1>2 DEF Located
<1>5. /\ start \in 0..more /\ start + len \in 0..more /\ start \in Nat
      /\ start + len \in Nat /\ end \in Nat /\ o \in Nat
      /\ o > end => shift \in 0..more
      /\ Len(c.atoms) \in Nat
  <2>1. Len(c.atoms) \in Nat
    BY Laid
  <2> HIDE DEF o, size, more
  <2>2. QED BY <1>3, <1>4, <2>1 DEF AfterEdit
<1>6. SeamLaid(c, d, start, k, end, len)
  OBVIOUS
<1>7. o = start => a = b
  OBVIOUS
<1>8. ASSUME NEW to \in 0..more, NEW row \in Nat, NEW y \in Nat, Row(d, row, y, to)
      PROVE  ValidGap(d, to, y)
  BY <1>8, RowGap
<1>9. Row(d, b, seam, start)
  <2> HIDE DEF b, k
  <2>1. b + seam <= k
    BY <1>2, <1>4
  <2>2. QED BY <1>4, <1>5, <1>6, <2>1, SeamRows
<1>10. \A i \in 1..Len(c.atoms) : ~(i <= k) => c.atoms[i].offset >= end
  BY DEF SeamLaid
<1> HIDE DEF o, x, a, b, k, size, more
<1>11. CASE o < start /\ q.offset = o /\ q.index = x
  <2>1. a + x <= k
    BY <1>1, <1>11 DEF Sides
  <2>2. Row(d, a, x, o)
    BY <1>4, <1>5, <1>6, <2>1, SeamRows
  <2>3. o \in 0..more
    BY <1>3, <1>5, <1>11
  <2>4. QED BY <1>4, <1>8, <1>11, <2>2, <2>3 DEF Gap
<1>12. CASE o = start /\ x <= seam /\ q.offset = start /\ q.index = x
  <2>1. a + x <= k /\ Row(d, a, x, start)
    <3>1. a + x <= k
      BY <1>1, <1>4, <1>12 DEF Sides
    <3>2. Row(d, a, x, o)
      BY <1>4, <1>5, <1>6, <3>1, SeamRows
    <3>3. QED BY <1>12, <3>1, <3>2
  <2>2. QED BY <1>4, <1>5, <1>8, <1>12, <2>1 DEF Gap
<1>13. CASE q.offset = start + len /\ q.index = 0
  <2>1. ValidGap(d, start + len, 0)
    BY <1>5, FirstGap DEF more
  <2>2. QED BY <1>13, <2>1 DEF Gap
<1>14. CASE q.offset = start /\ q.index = seam
  BY <1>4, <1>5, <1>8, <1>9, <1>14 DEF Gap
<1>15. ASSUME o = start, x > seam
       PROVE  /\ Row(d, k, x - seam, start + len) /\ x - seam \in Nat
              /\ end = start
  <2> DEFINE y == x - seam
  <2>1. y \in Nat /\ y > 0 /\ x = seam + y
    BY <1>4, <1>15
  <2> HIDE DEF y
  <2>2. Row(c, b, seam + y, start)
    BY <1>4, <1>7, <1>15, <2>1
  <2>3. Row(c, b + seam, y, start)
    BY <1>4, <2>1, <2>2, RowsApart
  <2>4. Row(c, k, y, start)
    BY <1>2, <2>3
  <2>5. start >= end
    <3>1. 1 \in 1..y /\ ~(k + 1 <= k)
      BY <1>4, <2>1
    <3>2. k + 1 \in 1..Len(c.atoms) /\ c.atoms[k + 1].offset = start
      BY <2>4, <3>1 DEF Row
    <3>3. QED BY <1>10, <3>1, <3>2
  <2>6. Row(d, k, y, AfterEdit(start, start, end, len))
    <3>1. ASSUME NEW r \in Nat, k <= r, Row(c, r, y, start)
          PROVE  Row(d, r, y, AfterEdit(start, start, end, len))
      BY <1>4, <1>5, <1>6, <2>1, <3>1, SeamRows
    <3>2. k <= k
      BY <1>4
    <3>3. QED BY <1>4, <2>4, <3>1, <3>2
  <2>7. end = start /\ AfterEdit(start, start, end, len) = start + len
    BY <1>3, <1>5, <2>5 DEF AfterEdit
  <2>8. QED BY <2>1, <2>6, <2>7 DEF y
<1>16. CASE o = start /\ x > seam /\ len > 0 /\ q.offset = start + len /\ q.index = x - seam
  BY <1>4, <1>5, <1>8, <1>15, <1>16 DEF Gap
<1>17. CASE o = start /\ x > seam /\ len = 0 /\ q.offset = start /\ q.index = x
  <2> DEFINE y == x - seam
  <2>1. y \in Nat /\ x = seam + y /\ start + len = start
    BY <1>4, <1>5, <1>17
  <2>2. Row(d, k, y, start)
    BY <1>15, <1>17, <2>1
  <2> HIDE DEF y
  <2>3. Row(d, b + seam, y, start)
    BY <1>2, <2>2
  <2>4. Row(d, b, seam + y, start)
    BY <1>4, <1>9, <2>1, <2>3, RowsTogether
  <2>5. QED BY <1>4, <1>5, <1>8, <1>17, <2>1, <2>4 DEF Gap
<1>18. ASSUME o = end, start < end
       PROVE  k <= a /\ Row(d, a, x, start + len)
  <2>1. k <= a
    BY <1>1, <1>18 DEF Sides
  <2>2. Row(d, a, x, AfterEdit(o, start, end, len))
    BY <1>4, <1>5, <1>6, <2>1, SeamRows
  <2>3. AfterEdit(o, start, end, len) = start + len
    BY <1>3, <1>5, <1>18 DEF AfterEdit
  <2>4. QED BY <2>1, <2>2, <2>3
<1>19. CASE o = end /\ start < end /\ len > 0 /\ q.offset = start + len /\ q.index = x
  BY <1>4, <1>5, <1>8, <1>18, <1>19 DEF Gap
<1>20. CASE o = end /\ start < end /\ len = 0 /\ q.offset = start /\ q.index = seam + x
  <2>1. a <= k
    <3>1. SUFFICES ASSUME ~(a <= k) PROVE FALSE
      BY <1>4
    <3>2. a \in 1..Len(c.atoms)
      BY <1>4, <1>5, <3>1
    <3>3. c.atoms[a].offset < o
      <4>1. o \in Int
        BY <1>5
      <4>2. \A i \in 1..Len(c.atoms) : i <= AtomsBefore(c, o, 0) <=> c.atoms[i].offset < o
        BY <4>1, RowIs
      <4>3. QED BY <3>2, <4>2 DEF a
    <3>4. c.atoms[a].offset >= end
      BY <1>10, <3>1, <3>2
    <3>5. c.atoms[a].offset \in Nat
      BY <3>2, Laid
    <3>6. QED BY <1>5, <1>20, <3>3, <3>4, <3>5
  <2>2. a = k /\ start + len = start
    BY <1>4, <1>5, <1>18, <1>20, <2>1
  <2>3. Row(d, b + seam, x, start)
    BY <1>2, <1>18, <1>20, <2>2
  <2>4. Row(d, b, seam + x, start)
    BY <1>4, <1>9, <2>3, RowsTogether
  <2>5. seam + x \in Nat
    BY <1>4
  <2>6. QED BY <1>4, <1>5, <1>8, <1>20, <2>4, <2>5 DEF Gap
<1>21. CASE o > end /\ q.offset = o - (end - start) + len /\ q.index = x
  <2>1. o > start
    BY <1>3, <1>5, <1>21
  <2>2. k <= a
    BY <1>1, <2>1 DEF Sides
  <2>3. Row(d, a, x, shift) /\ shift \in 0..more
    BY <1>4, <1>5, <1>6, <1>21, <2>2, SeamRows
  <2> HIDE DEF shift
  <2>4. ValidGap(d, shift, x)
    BY <1>4, <1>8, <2>3
  <2>5. QED BY <1>21, <2>4 DEF Gap, shift, AfterEdit
<1>22. QED
  BY <1>11, <1>12, <1>13, <1>14, <1>16, <1>17, <1>19, <1>20, <1>21 DEF Landing, o, x

\* Text replaced at a seam: every gap and every offset keeps a place.
LEMMA InlineTextReplacedCarries ==
  ASSUME NEW c, MixedContent(c), NEW d, MixedContent(d),
         NEW start, NEW seam, ValidGap(c, start, seam), NEW end, NEW len,
         SeamLaid(c, d, start, AtomsBefore(c, start, seam), end, len),
         NEW n \in Nat, NEW m, m = InlineTextReplaced(n, start, end, len, seam),
         NEW bias \in Biases
  PROVE  /\ \A p : At(p, n, c) => At(MapInlinePoint(m, p, bias), n, d)
         /\ \A p : TextAt(p, n, c) => TextAt(MapTextPoint(m, p, bias), n, d)
<1>1. /\ start \in 0..Len(c.text) /\ end \in start..Len(c.text) /\ len \in Nat
      /\ Len(d.text) = Len(c.text) - (end - start) + len /\ Len(c.text) \in Nat
  BY Laid DEF SeamLaid
<1>2. /\ m.map = "InlineTextReplaced" /\ m.node = n
      /\ m.start = start /\ m.end = end /\ m.len = len
  BY DEF InlineTextReplaced
<1>3. start \in Nat /\ end \in Nat /\ start <= end /\ len \in Nat
  BY <1>1
<1>4. seam \in Nat
  BY RowBefore
<1>5. ASSUME NEW p, At(p, n, c) PROVE At(MapInlinePoint(m, p, bias), n, d)
  <2> DEFINE q == MapInlinePoint(m, p, bias)
  <2>1. p \in InlinePoints(Nat) /\ p.node = n /\ Gap(c, p)
    BY <1>5 DEF At
  <2>2. LandsAt(q, p, n, start, end, len, seam)
    BY <1>3, <1>4, <2>1, OverSeamLands
  <2>3. q \in InlinePoints(Nat) /\ q.node = n /\ Landing(start, end, len, seam, p, q)
    BY <2>2 DEF LandsAt
  <2> HIDE DEF q
  <2>4. Gap(d, q)
    BY <2>1, <2>3, LandingIsGap
  <2>5. QED BY <2>3, <2>4 DEF At, q
<1>6. ASSUME NEW p, TextAt(p, n, c) PROVE TextAt(MapTextPoint(m, p, bias), n, d)
  <2> DEFINE to == OffsetOver(m, p.offset, bias)
             size == Len(c.text)
             more == Len(d.text)
  <2>1. p \in TextPoints(Nat) /\ p.node = n /\ p.offset \in 0..size
    BY <1>6 DEF TextAt
  <2>2. MapTextPoint(m, p, bias) = [p EXCEPT !.offset = to]
    BY <1>2, <2>1 DEF MapTextPoint
  <2>3. Resized(size, start, end, len, more)
    BY <1>1 DEF Resized
  <2> HIDE DEF size, more
  <2>4. to \in 0..more /\ to \in Nat
    BY <1>2, <2>1, <2>3, OffsetIs
  <2> HIDE DEF to
  <2>5. QED BY <2>1, <2>2, <2>4 DEF TextAt, TextPoints, more
<1>7. QED BY <1>5, <1>6

\* An atom that enters: rows before it stay, rows behind it count one more.
LEMMA AttachedRows ==
  ASSUME NEW c, NEW d, NEW offset, NEW k \in Nat, AttachedLaid(c, d, offset, k + 1),
         Len(c.atoms) \in Nat, NEW a \in Nat, NEW x \in Nat, NEW o, Row(c, a, x, o)
  PROVE  /\ a + x <= k => Row(d, a, x, o)
         /\ k <= a => Row(d, a + 1, x, o)
<1>1. /\ Len(d.atoms) = Len(c.atoms) + 1
      /\ \A i \in 1..(Len(c.atoms) + 1) :
           d.atoms[i].offset = IF i < k + 1 THEN c.atoms[i].offset
                               ELSE IF i = k + 1 THEN offset ELSE c.atoms[i - 1].offset
  BY DEF AttachedLaid
<1>2. \A i \in 1..x : a + i \in 1..Len(c.atoms) /\ c.atoms[a + i].offset = o
  BY DEF Row
<1>3. ASSUME a + x <= k PROVE Row(d, a, x, o)
  <2>1. ASSUME NEW i \in 1..x PROVE a + i \in 1..Len(d.atoms) /\ d.atoms[a + i].offset = o
    <3>1. a + i \in 1..(Len(c.atoms) + 1) /\ a + i < k + 1
      BY <1>2, <1>3
    <3>2. QED BY <1>1, <1>2, <3>1
  <2>2. QED BY <2>1 DEF Row
<1>4. ASSUME k <= a PROVE Row(d, a + 1, x, o)
  <2>1. ASSUME NEW i \in 1..x
        PROVE  (a + 1) + i \in 1..Len(d.atoms) /\ d.atoms[(a + 1) + i].offset = o
    <3>1. a + i \in 1..Len(c.atoms) /\ c.atoms[a + i].offset = o
      BY <1>2
    <3>2. /\ (a + 1) + i \in 1..(Len(c.atoms) + 1) /\ ~((a + 1) + i < k + 1)
          /\ (a + 1) + i # k + 1 /\ ((a + 1) + i) - 1 = a + i
      BY <1>4, <3>1
    <3>3. d.atoms[(a + 1) + i].offset = c.atoms[((a + 1) + i) - 1].offset
      BY <1>1, <3>2
    <3>4. QED BY <1>1, <3>1, <3>2, <3>3
  <2>2. QED BY <2>1 DEF Row
<1>5. QED BY <1>3, <1>4

\* An atom entered: a gap of its offset behind it counts one more atom.
LEMMA AtomInsertedCarries ==
  ASSUME NEW c, MixedContent(c), NEW d, MixedContent(d),
         NEW offset, NEW index, ValidGap(c, offset, index),
         AttachedLaid(c, d, offset, AtomsBefore(c, offset, index) + 1),
         NEW n \in Nat, NEW m, m = InlineAtomInserted(n, offset, index), NEW bias \in Biases
  PROVE  /\ \A p : At(p, n, c) => At(MapInlinePoint(m, p, bias), n, d)
         /\ \A p : TextAt(p, n, c) => TextAt(MapTextPoint(m, p, bias), n, d)
<1> DEFINE k == AtomsBefore(c, offset, index)
           b == AtomsBefore(c, offset, 0)
<1>1. m.map = "InlineAtomInserted" /\ m.parent = n /\ m.offset = offset /\ m.index = index
  BY DEF InlineAtomInserted
<1>2. d.text = c.text
  BY DEF AttachedLaid
<1>3. Located(c, offset, index, b) /\ k = b + index
  BY GapLocated, RowBefore
<1>4. /\ offset \in 0..Len(c.text) /\ index \in Nat /\ b \in Nat /\ k \in Nat
      /\ Row(c, b, index, offset)
  BY <1>3 DEF Located
<1>5. Len(c.atoms) \in Nat /\ AttachedLaid(c, d, offset, k + 1)
  BY Laid
<1>6. Row(d, k, 1, offset)
  <2>1. /\ k + 1 \in 1..(Len(c.atoms) + 1) /\ Len(d.atoms) = Len(c.atoms) + 1
        /\ d.atoms[k + 1].offset = IF k + 1 < k + 1 THEN c.atoms[k + 1].offset
                                   ELSE IF k + 1 = k + 1 THEN offset
                                   ELSE c.atoms[(k + 1) - 1].offset
    BY DEF AttachedLaid
  <2> HIDE DEF k
  <2>2. ~(k + 1 < k + 1)
    BY <1>4
  <2>3. d.atoms[k + 1].offset = offset
    BY <2>1, <2>2
  <2>4. \A i \in 1..1 : i = 1
    OBVIOUS
  <2>5. QED BY <2>1, <2>3, <2>4 DEF Row
<1>7. ASSUME NEW p, At(p, n, c) PROVE At(MapInlinePoint(m, p, bias), n, d)
  <2> DEFINE q == MapInlinePoint(m, p, bias)
             o == p.offset
             x == p.index
             a == AtomsBefore(c, o, 0)
             more == o = offset /\ (x > index \/ (x = index /\ bias = "End"))
  <2>1. p \in InlinePoints(Nat) /\ p.node = n /\ ValidGap(c, o, x)
    BY <1>7 DEF At, Gap
  <2>2. Located(c, o, x, a) /\ Sides(o, x, a, offset, index, k)
    BY <2>1, GapLocated, GapSides
  <2>3. /\ o \in 0..Len(c.text) /\ x \in Nat /\ a \in Nat /\ Row(c, a, x, o)
    BY <2>2 DEF Located
  <2>4. q = IF more THEN [p EXCEPT !.index = @ + 1] ELSE p
    BY <1>1, <2>1 DEF MapInlinePoint, MapTextPoint
  <2>5. /\ q \in InlinePoints(Nat) /\ q.node = n /\ q.offset = o
        /\ q.index = IF more THEN x + 1 ELSE x
    BY <2>1, <2>4 DEF InlinePoints
  <2>6. o = offset => a = b
    OBVIOUS
  <2> HIDE DEF q, o, x, a, k, b
  <2>7. ASSUME ~more PROVE ValidGap(d, o, x)
    <3>1. CASE a + x <= k
      BY <1>2, <1>4, <1>5, <2>3, <3>1, AttachedRows, RowGap
    <3>2. CASE k <= a
      <4>1. Row(d, a + 1, x, o) /\ a + 1 \in Nat
        BY <1>4, <1>5, <2>3, <3>2, AttachedRows
      <4>2. QED BY <1>2, <2>3, <4>1, RowGap
    <3>3. a + x <= k \/ k <= a
      <4>1. o \in Nat /\ offset \in Nat
        BY <1>4, <2>3
      <4>2. CASE o < offset
        BY <2>2, <4>2 DEF Sides
      <4>3. CASE o > offset
        BY <2>2, <4>3 DEF Sides
      <4>4. CASE o = offset
        BY <1>4, <2>2, <2>3, <2>7, <4>4 DEF Sides
      <4>5. QED BY <4>1, <4>2, <4>3, <4>4
    <3>4. QED BY <3>1, <3>2, <3>3
  <2>8. ASSUME more PROVE ValidGap(d, o, x + 1)
    <3> DEFINE y == x - index
    <3>1. y \in Nat /\ x = index + y
      BY <1>4, <2>3, <2>8
    <3> HIDE DEF y
    <3>2. Row(c, b, index + y, offset)
      BY <2>3, <2>6, <2>8, <3>1
    <3>3. Row(c, k, y, offset)
      BY <1>3, <1>4, <3>1, <3>2, RowsApart
    <3>4. Row(d, b, index, offset)
      <4>1. b + index <= k
        BY <1>3, <1>4
      <4>2. QED BY <1>4, <1>5, <4>1, AttachedRows
    <3>5. Row(d, k + 1, y, offset)
      <4>1. ASSUME NEW r \in Nat, k <= r, Row(c, r, y, offset) PROVE Row(d, r + 1, y, offset)
        BY <1>4, <1>5, <3>1, <4>1, AttachedRows
      <4>2. k <= k
        BY <1>4
      <4>3. QED BY <1>4, <3>3, <4>1, <4>2
    <3>6. Row(d, k, 1 + y, offset)
      BY <1>4, <1>6, <3>1, <3>5, RowsTogether
    <3>7. PICK z \in Nat : z = 1 + y
      BY <3>1
    <3>8. Row(d, b, index + z, offset)
      <4>1. Row(d, b + index, z, offset)
        BY <1>3, <3>6, <3>7
      <4>2. QED BY <1>4, <3>4, <4>1, RowsTogether
    <3>9. index + z = x + 1 /\ x + 1 \in Nat
      BY <1>4, <3>1, <3>7
    <3>10. Row(d, b, x + 1, offset)
      BY <3>8, <3>9
    <3>11. QED BY <1>2, <1>4, <2>8, <3>9, <3>10, RowGap
  <2>9. ValidGap(d, q.offset, q.index)
    <3> HIDE DEF more
    <3>1. QED BY <2>5, <2>7, <2>8
  <2>10. QED BY <2>5, <2>9 DEF At, Gap, q
<1>8. ASSUME NEW p, TextAt(p, n, c) PROVE TextAt(MapTextPoint(m, p, bias), n, d)
  <2>1. MapTextPoint(m, p, bias) = p
    BY <1>1 DEF MapTextPoint
  <2>2. QED BY <1>2, <1>8, <2>1 DEF TextAt
<1>9. QED BY <1>7, <1>8

\* The place of an atom: the gap before it and the gap behind it.
LEMMA PlaceOfAtom ==
  ASSUME NEW c, MixedContent(c), NEW k \in 1..Len(c.atoms),
         NEW offset, offset = c.atoms[k].offset, NEW index, index = Ordinal(c, k)
  PROVE  /\ index \in Nat /\ ValidGap(c, offset, index) /\ ValidGap(c, offset, index + 1)
         /\ AtomsBefore(c, offset, index) = k - 1 /\ AtomsBefore(c, offset, index + 1) = k
<1> DEFINE a == AtomsBefore(c, offset, 0)
           e == AtomCountAt(c, offset)
           n == Len(c.atoms)
<1>1. /\ n \in Nat /\ k \in 1..n /\ offset \in 0..Len(c.text) /\ offset \in Int
      /\ Len(c.text) \in Nat
  BY Laid
<1>2. /\ a \in Nat /\ e \in Nat /\ a + e \in 0..n
      /\ \A i \in Int : AtomsBefore(c, offset, i) = a + i
      /\ \A i \in 1..n : /\ i <= a <=> c.atoms[i].offset < offset
                         /\ i <= a + e <=> c.atoms[i].offset <= offset
  BY <1>1, RowIs, Zenon
<1>3. index = k - 1 - a
  BY OrdinalIs
<1> HIDE DEF a, e, n
<1>4. ~(k <= a) /\ k <= a + e
  <2> DEFINE o == c.atoms[k].offset
  <2>1. (k <= a <=> o < offset) /\ (k <= a + e <=> o <= offset)
    BY <1>1, <1>2
  <2>2. o = offset
    OBVIOUS
  <2> HIDE DEF o
  <2>3. QED BY <1>1, <2>1, <2>2
<1>5. index \in 0..e /\ index + 1 \in 0..e /\ index \in Nat /\ a + index = k - 1
      /\ a + (index + 1) = k /\ index \in Int /\ index + 1 \in Int
  <2>1. a \in Nat /\ e \in Nat /\ k \in Nat
    BY <1>1, <1>2
  <2>2. ~(k <= a) /\ k <= a + e
    BY <1>4
  <2>3. k - 1 - a \in 0..e /\ (k - 1 - a) + 1 \in 0..e /\ k - 1 - a \in Nat
        /\ a + (k - 1 - a) = k - 1 /\ a + ((k - 1 - a) + 1) = k
        /\ k - 1 - a \in Int /\ (k - 1 - a) + 1 \in Int
    BY <2>1, <2>2, SMT
  <2>4. QED BY <2>3, <1>3, Zenon
<1>6. ValidGap(c, offset, index) /\ ValidGap(c, offset, index + 1)
  BY <1>1, <1>5 DEF e, ValidGap, ValidOffset
<1>7. AtomsBefore(c, offset, index) = a + index /\ AtomsBefore(c, offset, index + 1) = a + (index + 1)
  BY <1>2, <1>5
<1>8. QED BY <1>5, <1>6, <1>7

\* An atom that leaves: rows before it stay, rows behind it count one less.
LEMMA DetachedRows ==
  ASSUME NEW c, NEW d, NEW k \in Nat, DetachedLaid(c, d, k + 1), k + 1 \in 1..Len(c.atoms),
         Len(c.atoms) \in Nat, NEW a \in Nat, NEW x \in Nat, NEW o
  PROVE  /\ Row(c, a, x, o) /\ a + x <= k => Row(d, a, x, o)
         /\ Row(c, a + 1, x, o) /\ k <= a => Row(d, a, x, o)
<1>1. /\ Len(d.atoms) = Len(c.atoms) - 1
      /\ \A i \in 1..(Len(c.atoms) - 1) :
           d.atoms[i].offset = IF i < k + 1 THEN c.atoms[i].offset ELSE c.atoms[i + 1].offset
  BY DEF DetachedLaid
<1>2. ASSUME Row(c, a, x, o), a + x <= k PROVE Row(d, a, x, o)
  <2>1. ASSUME NEW i \in 1..x PROVE a + i \in 1..Len(d.atoms) /\ d.atoms[a + i].offset = o
    <3>1. a + i \in 1..Len(c.atoms) /\ c.atoms[a + i].offset = o
      BY <1>2 DEF Row
    <3>2. a + i \in 1..(Len(c.atoms) - 1) /\ a + i < k + 1
      BY <1>2, <3>1
    <3>3. QED BY <1>1, <3>1, <3>2
  <2>2. QED BY <2>1 DEF Row
<1>3. ASSUME Row(c, a + 1, x, o), k <= a PROVE Row(d, a, x, o)
  <2>1. ASSUME NEW i \in 1..x PROVE a + i \in 1..Len(d.atoms) /\ d.atoms[a + i].offset = o
    <3>1. (a + 1) + i \in 1..Len(c.atoms) /\ c.atoms[(a + 1) + i].offset = o
      BY <1>3 DEF Row
    <3>2. (a + 1) + i = (a + i) + 1 /\ a + i \in 1..(Len(c.atoms) - 1) /\ ~(a + i < k + 1)
      BY <1>3, <3>1
    <3>3. d.atoms[a + i].offset = c.atoms[(a + i) + 1].offset
      BY <1>1, <3>2
    <3>4. QED BY <1>1, <3>1, <3>2, <3>3
  <2>2. QED BY <2>1 DEF Row
<1>4. QED BY <1>2, <1>3

\* An atom left: a gap of its offset behind it counts one atom less.
LEMMA AtomRemovedCarries ==
  ASSUME NEW c, MixedContent(c), NEW d, MixedContent(d), NEW k \in 1..Len(c.atoms),
         DetachedLaid(c, d, k), NEW n \in Nat, NEW atom,
         NEW m, m = InlineAtomRemoved(n, c.atoms[k].offset, Ordinal(c, k), atom),
         NEW bias \in Biases
  PROVE  /\ \A p : At(p, n, c) => At(MapInlinePoint(m, p, bias), n, d)
         /\ \A p : TextAt(p, n, c) => TextAt(MapTextPoint(m, p, bias), n, d)
<1> DEFINE offset == c.atoms[k].offset
           index == Ordinal(c, k)
           b == AtomsBefore(c, offset, 0)
           j == k - 1
<1>1. m.map = "InlineAtomRemoved" /\ m.parent = n /\ m.offset = offset /\ m.index = index
  BY DEF InlineAtomRemoved
<1>2. d.text = c.text
  BY DEF DetachedLaid
<1>3. /\ index \in Nat /\ ValidGap(c, offset, index) /\ ValidGap(c, offset, index + 1)
      /\ AtomsBefore(c, offset, index) = j /\ AtomsBefore(c, offset, index + 1) = k
  BY PlaceOfAtom
<1>4. Located(c, offset, index, b) /\ j = b + index
  <2>1. Located(c, offset, index, b)
    BY <1>3, GapLocated
  <2>2. AtomsBefore(c, offset, index) = b + index
    BY <1>3, RowBefore
  <2>3. QED BY <1>3, <2>1, <2>2
<1>5. /\ offset \in 0..Len(c.text) /\ b \in Nat /\ j \in Nat /\ Len(c.atoms) \in Nat
      /\ j + 1 = k /\ Row(c, b, index, offset) /\ offset \in Nat /\ Len(c.text) \in Nat
  <2>1. Len(c.atoms) \in Nat /\ Len(c.text) \in Nat
    BY Laid
  <2>2. offset \in 0..Len(c.text) /\ b \in Nat /\ Row(c, b, index, offset)
    BY <1>4 DEF Located
  <2> HIDE DEF offset, b
  <2>3. QED BY <2>1, <2>2
<1>6. DetachedLaid(c, d, j + 1) /\ j + 1 \in 1..Len(c.atoms)
  BY <1>5
<1>7. ASSUME NEW p, At(p, n, c) PROVE At(MapInlinePoint(m, p, bias), n, d)
  <2> DEFINE q == MapInlinePoint(m, p, bias)
             o == p.offset
             x == p.index
             a == AtomsBefore(c, o, 0)
             less == o = offset /\ x > index
  <2>1. p \in InlinePoints(Nat) /\ p.node = n /\ ValidGap(c, o, x)
    BY <1>7 DEF At, Gap
  <2>2. Located(c, o, x, a) /\ Sides(o, x, a, offset, index, j)
    BY <1>3, <2>1, GapLocated, GapSides
  <2>3. Sides(o, x, a, offset, index + 1, k)
    BY <1>3, <2>1, GapSides
  <2>4. o \in 0..Len(c.text) /\ x \in Nat /\ a \in Nat /\ Row(c, a, x, o)
    BY <2>2 DEF Located
  <2>5. q = IF less THEN [p EXCEPT !.index = @ - 1] ELSE p
    BY <1>1, <2>1 DEF MapInlinePoint, MapTextPoint
  <2>6. o = offset => a = b
    OBVIOUS
  <2> HIDE DEF q, o, x, a, j, b, offset, index
  <2>7. ASSUME ~less PROVE ValidGap(d, o, x)
    <3>1. CASE a + x <= j
      <4>1. Row(d, a, x, o)
        BY <1>5, <1>6, <2>4, <3>1, DetachedRows
      <4>2. QED BY <1>2, <2>4, <4>1, RowGap
    <3>2. CASE k <= a
      <4>1. PICK r \in Nat : a = r + 1 /\ j <= r
        <5>1. a - 1 \in Nat /\ a = (a - 1) + 1 /\ j <= a - 1
          BY <1>5, <2>4, <3>2
        <5>2. QED BY <5>1
      <4>2. Row(c, r + 1, x, o)
        BY <2>4, <4>1
      <4>3. Row(d, r, x, o)
        BY <1>5, <1>6, <2>4, <4>1, <4>2, DetachedRows
      <4>4. QED BY <1>2, <2>4, <4>3, RowGap
    <3>3. a + x <= j \/ k <= a
      <4>1. o \in Nat
        BY <1>5, <2>4
      <4>2. CASE o < offset
        BY <2>2, <4>2 DEF Sides
      <4>3. CASE o > offset
        BY <2>3, <4>3 DEF Sides
      <4>4. CASE o = offset
        <5>1. j = a + index /\ x <= index
          BY <1>3, <2>2, <2>4, <2>7, <4>4 DEF Sides
        <5>2. QED BY <1>3, <1>5, <2>4, <5>1
      <4>5. QED BY <1>5, <4>1, <4>2, <4>3, <4>4
    <3>4. QED BY <3>1, <3>2, <3>3
  <2>8. ASSUME less PROVE ValidGap(d, o, x - 1) /\ x - 1 \in Nat
    <3>1. PICK z \in Nat, y \in Nat : z = 1 + y /\ x = index + z /\ x - 1 = index + y
      <4>1. /\ x - index \in Nat /\ x - index - 1 \in Nat
            /\ x - index = 1 + (x - index - 1) /\ x = index + (x - index)
            /\ x - 1 = index + (x - index - 1)
        BY <1>3, <2>4, <2>8
      <4>2. QED BY <4>1
    <3>2. Row(c, b, index + z, offset)
      BY <2>4, <2>6, <2>8, <3>1
    <3>3. Row(c, b + index, z, offset)
      BY <1>3, <1>5, <3>1, <3>2, RowsApart
    <3>4. Row(c, j, 1 + y, offset)
      BY <1>4, <3>1, <3>3
    <3>5. Row(c, j + 1, y, offset)
      <4>1. 1 \in Nat
        OBVIOUS
      <4>2. QED BY <1>5, <3>1, <3>4, <4>1, RowsApart
    <3>6. Row(d, j, y, offset)
      <4>1. ASSUME NEW r \in Nat, Row(c, r + 1, y, offset), j <= r PROVE Row(d, r, y, offset)
        BY <1>5, <1>6, <3>1, <4>1, DetachedRows
      <4>2. j <= j
        BY <1>5
      <4>3. QED BY <1>5, <3>5, <4>1, <4>2
    <3>7. Row(d, b, index, offset)
      <4>1. b + index <= j
        BY <1>3, <1>4, <1>5
      <4>2. QED BY <1>3, <1>5, <1>6, <4>1, DetachedRows
    <3>8. Row(d, b, index + y, offset)
      <4>1. Row(d, b + index, y, offset)
        BY <1>4, <3>6
      <4>2. QED BY <1>3, <1>5, <3>1, <3>7, <4>1, RowsTogether
    <3>9. index + y \in Nat
      BY <1>3, <3>1
    <3>10. ValidGap(d, offset, index + y)
      BY <1>2, <1>5, <3>8, <3>9, RowGap
    <3>11. QED BY <2>8, <3>1, <3>9, <3>10
  <2>9. /\ q \in InlinePoints(Nat) /\ q.node = n /\ q.offset = o
        /\ q.index = IF less THEN x - 1 ELSE x
    <3> HIDE DEF less
    <3>1. CASE less
      BY <2>1, <2>5, <2>8, <3>1 DEF InlinePoints, o, x
    <3>2. CASE ~less
      BY <2>1, <2>5, <3>2 DEF InlinePoints, o, x
    <3>3. QED BY <3>1, <3>2
  <2>10. ValidGap(d, q.offset, q.index)
    <3> HIDE DEF less
    <3>1. QED BY <2>7, <2>8, <2>9
  <2>11. QED BY <2>9, <2>10 DEF At, Gap, q
<1>8. ASSUME NEW p, TextAt(p, n, c) PROVE TextAt(MapTextPoint(m, p, bias), n, d)
  <2>1. MapTextPoint(m, p, bias) = p
    BY <1>1 DEF MapTextPoint
  <2>2. QED BY <1>2, <1>8, <2>1 DEF TextAt
<1>9. QED BY <1>7, <1>8

\* A cut: rows before it stay in the head, rows behind it are in the tail.
LEMMA CutRows ==
  ASSUME NEW c, NEW head, NEW tail, NEW offset \in Nat, NEW k \in Nat,
         CutApart(c, head, tail, offset, k), Len(c.atoms) \in Nat, k <= Len(c.atoms),
         NEW a \in Nat, NEW x \in Nat, NEW o \in Nat
  PROVE  /\ Row(c, a, x, o) /\ a + x <= k => Row(head, a, x, o)
         /\ Row(c, k + a, x, o) => Row(tail, a, x, o - offset)
<1>1. /\ Len(head.atoms) = k /\ Len(tail.atoms) = Len(c.atoms) - k
      /\ \A i \in 1..k : head.atoms[i].offset = c.atoms[i].offset
      /\ \A i \in 1..(Len(c.atoms) - k) :
           tail.atoms[i].offset = c.atoms[k + i].offset - offset
  BY DEF CutApart
<1>2. ASSUME Row(c, a, x, o), a + x <= k PROVE Row(head, a, x, o)
  <2>1. ASSUME NEW i \in 1..x
        PROVE  a + i \in 1..Len(head.atoms) /\ head.atoms[a + i].offset = o
    <3>1. a + i \in 1..Len(c.atoms) /\ c.atoms[a + i].offset = o
      BY <1>2 DEF Row
    <3>2. a + i \in 1..k
      BY <1>2, <3>1
    <3>3. QED BY <1>1, <3>1, <3>2
  <2>2. QED BY <2>1 DEF Row
<1>3. ASSUME Row(c, k + a, x, o) PROVE Row(tail, a, x, o - offset)
  <2>1. ASSUME NEW i \in 1..x
        PROVE  a + i \in 1..Len(tail.atoms) /\ tail.atoms[a + i].offset = o - offset
    <3>1. (k + a) + i \in 1..Len(c.atoms) /\ c.atoms[(k + a) + i].offset = o
      BY <1>3 DEF Row
    <3>2. (k + a) + i = k + (a + i) /\ a + i \in 1..(Len(c.atoms) - k)
      BY <3>1
    <3>3. tail.atoms[a + i].offset = c.atoms[k + (a + i)].offset - offset
      BY <1>1, <3>2
    <3>4. QED BY <1>1, <3>1, <3>2, <3>3
  <2>2. QED BY <2>1 DEF Row
<1>4. QED BY <1>2, <1>3

\* A node was cut at a gap: what is behind the cut goes to the tail, the rest
\* stays, and the bias chooses for the gap of the cut.
LEMMA InlineSplitCarries ==
  ASSUME NEW c, MixedContent(c), NEW head, MixedContent(head), NEW tail, MixedContent(tail),
         NEW offset, NEW index, ValidGap(c, offset, index),
         CutApart(c, head, tail, offset, AtomsBefore(c, offset, index)),
         NEW n \in Nat, NEW new \in Nat, NEW parent, NEW place,
         NEW at, at.node = n, at.offset = offset, at.index = index,
         NEW m, m = InlineNodeSplit(parent, place, at, new),
         NEW bias \in Biases
  PROVE  /\ \A p : At(p, n, c) => \/ At(MapInlinePoint(m, p, bias), n, head)
                                  \/ At(MapInlinePoint(m, p, bias), new, tail)
         /\ \A p : TextAt(p, n, c) => \/ TextAt(MapTextPoint(m, p, bias), n, head)
                                      \/ TextAt(MapTextPoint(m, p, bias), new, tail)
<1> DEFINE k == AtomsBefore(c, offset, index)
           b == AtomsBefore(c, offset, 0)
           size == Len(c.text)
           behind == Len(tail.text)
<1>1. /\ m.map = "InlineNodeSplit" /\ m.inserted = new
      /\ m.at.node = n /\ m.at.offset = offset /\ m.at.index = index
  BY DEF InlineNodeSplit
<1>2. Located(c, offset, index, b) /\ k = b + index
  BY GapLocated, RowBefore
<1>3. /\ offset \in 0..size /\ index \in Nat /\ b \in Nat /\ b + index \in 0..Len(c.atoms)
      /\ Row(c, b, index, offset)
  BY <1>2 DEF Located
<1>4. /\ Len(head.text) = offset /\ behind = size - offset /\ size \in Nat
      /\ Len(c.atoms) \in Nat /\ CutApart(c, head, tail, offset, k)
  BY Laid DEF CutApart
<1>5. /\ k \in Nat /\ k <= Len(c.atoms) /\ offset \in Nat /\ offset \in 0..offset
      /\ 0 \in 0..behind /\ behind \in Nat
  <2> HIDE DEF k, b, size, behind
  <2>1. QED BY <1>2, <1>3, <1>4
<1> HIDE DEF k, b, size, behind
<1>6. ASSUME NEW p, At(p, n, c)
      PROVE  \/ At(MapInlinePoint(m, p, bias), n, head)
             \/ At(MapInlinePoint(m, p, bias), new, tail)
  <2> DEFINE q == MapInlinePoint(m, p, bias)
             o == p.offset
             x == p.index
             a == AtomsBefore(c, o, 0)
             crosses == \/ o > offset \/ (o = offset /\ x > index)
                        \/ o = offset /\ x = index /\ bias = "End"
             to == o - offset
             rest == IF o = offset THEN x - index ELSE x
  <2>1. p \in InlinePoints(Nat) /\ p.node = n /\ ValidGap(c, o, x)
    BY <1>6 DEF At, Gap
  <2>2. Located(c, o, x, a) /\ Sides(o, x, a, offset, index, k)
    BY <2>1, GapLocated, GapSides DEF k
  <2>3. o \in 0..size /\ x \in Nat /\ a \in Nat /\ Row(c, a, x, o)
    BY <2>2 DEF Located, size
  <2>4. q = IF crosses THEN [node |-> new, offset |-> to, index |-> rest] ELSE p
    BY <1>1, <2>1 DEF MapInlinePoint, AfterGap
  <2>5. o = offset => a = b
    BY DEF b
  <2> HIDE DEF q, o, x, a
  <2>6. o \in Nat
    BY <1>4, <2>3
  <2>7. CASE ~crosses
    <3>1. a + x <= k
      <4>1. CASE o < offset
        BY <2>2, <4>1 DEF Sides
      <4>2. CASE o = offset
        <5>1. k = a + index /\ x <= index
          BY <1>3, <2>2, <2>3, <2>7, <4>2 DEF Sides
        <5>2. QED BY <1>3, <2>3, <5>1
      <4>3. QED BY <1>5, <2>6, <2>7, <4>1, <4>2
    <3>2. Row(head, a, x, o)
      BY <1>4, <1>5, <2>3, <2>6, <3>1, CutRows
    <3>3. o \in 0..offset
      BY <1>5, <2>6, <2>7
    <3>4. ValidGap(head, o, x)
      BY <1>4, <2>3, <3>2, <3>3, RowGap
    <3> HIDE DEF crosses
    <3>5. q = p
      BY <2>4, <2>7
    <3>6. QED BY <2>1, <3>4, <3>5 DEF At, Gap, q, o, x
  <2>8. CASE crosses
    <3>1. ValidGap(tail, to, rest) /\ to \in Nat /\ rest \in Nat
      <4>1. CASE o = offset
        <5>1. PICK y \in Nat : x = index + y /\ rest = y
          <6>1. x - index \in Nat /\ x = index + (x - index)
            BY <1>3, <2>3, <2>6, <2>8, <4>1
          <6>2. QED BY <4>1, <6>1
        <5>2. Row(c, b, index + y, offset)
          BY <2>3, <2>5, <4>1, <5>1
        <5>3. Row(c, b + index, y, offset)
          BY <1>3, <5>1, <5>2, RowsApart
        <5>4. k + 0 = b + index /\ offset - offset = 0 /\ to = 0
          BY <1>2, <1>5, <4>1
        <5>5. Row(c, k + 0, y, offset)
          BY <5>3, <5>4
        <5>6. Row(tail, 0, y, offset - offset)
          <6>1. ASSUME NEW r \in Nat, NEW o2 \in Nat, Row(c, k + r, y, o2)
                PROVE  Row(tail, r, y, o2 - offset)
            BY <1>4, <1>5, <5>1, <6>1, CutRows
          <6>2. QED BY <1>5, <5>5, <6>1
        <5>7. Row(tail, 0, y, 0)
          BY <5>4, <5>6
        <5>8. ValidGap(tail, 0, y)
          BY <1>5, <5>1, <5>7, RowGap DEF behind
        <5>9. QED BY <5>1, <5>4, <5>8
      <4>2. CASE o # offset
        <5>1. o > offset
          BY <2>6, <1>5, <2>8, <4>2
        <5>2. k <= a
          BY <2>2, <5>1 DEF Sides
        <5>3. PICK r \in Nat : a = k + r
          <6>1. a - k \in Nat /\ a = k + (a - k)
            BY <1>5, <2>3, <5>2
          <6>2. QED BY <6>1
        <5>4. Row(c, k + r, x, o)
          BY <2>3, <5>3
        <5>5. Row(tail, r, x, to)
          BY <1>4, <1>5, <2>3, <2>6, <5>4, CutRows
        <5>6. to \in 0..behind /\ to \in Nat
          BY <1>4, <1>5, <2>3, <2>6, <5>1
        <5> HIDE DEF to
        <5>7. ValidGap(tail, to, x)
          BY <2>3, <5>5, <5>6, RowGap DEF behind
        <5>8. QED BY <2>3, <4>2, <5>6, <5>7
      <4>3. QED BY <4>1, <4>2
    <3> HIDE DEF crosses, to, rest
    <3>2. q = [node |-> new, offset |-> to, index |-> rest]
      BY <2>4, <2>8
    <3>3. q \in InlinePoints(Nat) /\ q.node = new /\ q.offset = to /\ q.index = rest
      BY <3>1, <3>2 DEF InlinePoints
    <3>4. QED BY <3>1, <3>3 DEF At, Gap, q
  <2>9. QED BY <2>7, <2>8
<1>7. ASSUME NEW p, TextAt(p, n, c)
      PROVE  \/ TextAt(MapTextPoint(m, p, bias), n, head)
             \/ TextAt(MapTextPoint(m, p, bias), new, tail)
  <2> DEFINE crosses == TextToTail(m, p.offset, bias)
             to == p.offset - offset
  <2>1. p \in TextPoints(Nat) /\ p.node = n /\ p.offset \in 0..size
    BY <1>7 DEF TextAt, size
  <2>2. MapTextPoint(m, p, bias)
          = IF crosses THEN [p EXCEPT !.node = new, !.offset = to] ELSE p
    BY <1>1, <2>1 DEF MapTextPoint
  <2>3. CASE crosses
    <3>1. p.offset >= offset
      <4>1. p.offset > m.at.offset \/ p.offset = m.at.offset
        BY <2>3 DEF TextToTail
      <4>2. QED BY <1>1, <1>4, <1>5, <2>1, <4>1
    <3>2. to \in 0..behind /\ to \in Nat
      BY <1>4, <1>5, <2>1, <3>1
    <3> HIDE DEF to
    <3>3. TextAt([p EXCEPT !.node = new, !.offset = to], new, tail)
      BY <2>1, <3>2 DEF TextAt, TextPoints, behind
    <3>4. QED BY <2>2, <2>3, <3>3
  <2>4. CASE ~crosses
    <3>1. p.offset \in 0..offset
      BY <1>1, <1>4, <1>5, <2>1, <2>4 DEF TextToTail
    <3>2. QED BY <1>4, <2>1, <2>2, <2>4, <3>1 DEF TextAt
  <2>5. QED BY <2>3, <2>4
<1>8. QED BY <1>6, <1>7

\* Content without atoms has one gap at each offset.
LEMMA AtomlessGap ==
  ASSUME NEW c, MixedContent(c), c.atoms = <<>>, NEW o, NEW x
  PROVE  ValidGap(c, o, x) <=> o \in 0..Len(c.text) /\ x = 0
<1>1. {i \in DOMAIN c.atoms : c.atoms[i].offset = o} = {}
  OBVIOUS
<1>2. AtomCountAt(c, o) = 0
  BY <1>1, FS_EmptySet DEF AtomCountAt
<1>3. x \in 0..0 <=> x = 0
  OBVIOUS
<1>4. QED BY <1>2, <1>3 DEF ValidGap, ValidOffset

\* A node of text alone was cut at an offset.
LEMMA SplitCarries ==
  ASSUME NEW c, MixedContent(c), c.atoms = <<>>,
         NEW head, MixedContent(head), NEW tail, MixedContent(tail),
         NEW offset \in 0..Len(c.text), NEW k, CutApart(c, head, tail, offset, k),
         NEW n \in Nat, NEW new \in Nat, NEW parent, NEW place,
         NEW m, m = NodeSplit(parent, place, n, offset, new), NEW bias \in Biases
  PROVE  /\ \A p : At(p, n, c) => \/ At(MapInlinePoint(m, p, bias), n, head)
                                  \/ At(MapInlinePoint(m, p, bias), new, tail)
         /\ \A p : TextAt(p, n, c) => \/ TextAt(MapTextPoint(m, p, bias), n, head)
                                      \/ TextAt(MapTextPoint(m, p, bias), new, tail)
<1>1. /\ m.map = "NodeSplit" /\ m.inserted = new /\ m.at.node = n /\ m.at.offset = offset
      /\ \A p, x : MapInlinePoint(m, p, x) = MapTextPoint(m, p, x)
  BY DEF NodeSplit, InlinePoint, MapInlinePoint
<1>2. /\ Len(head.text) = offset /\ Len(tail.text) = Len(c.text) - offset
      /\ Len(c.text) \in Nat /\ offset \in Nat
  BY Laid DEF CutApart
<1>3. ASSUME NEW p, p.node = n, p.offset \in 0..Len(c.text)
      PROVE  \/ MapTextPoint(m, p, bias) = p /\ p.offset \in 0..Len(head.text)
             \/ /\ MapTextPoint(m, p, bias)
                     = [p EXCEPT !.node = new, !.offset = p.offset - offset]
                /\ p.offset - offset \in 0..Len(tail.text)
  <2>1. MapTextPoint(m, p, bias)
          = IF TextToTail(m, p.offset, bias)
            THEN [p EXCEPT !.node = new, !.offset = p.offset - offset] ELSE p
    BY <1>1, <1>3 DEF MapTextPoint
  <2>2. CASE TextToTail(m, p.offset, bias)
    <3>1. p.offset > m.at.offset \/ p.offset = m.at.offset
      BY <2>2 DEF TextToTail
    <3>2. p.offset - offset \in 0..Len(tail.text)
      BY <1>1, <1>2, <1>3, <3>1
    <3>3. QED BY <2>1, <2>2, <3>2
  <2>3. CASE ~TextToTail(m, p.offset, bias)
    <3>1. ~(p.offset > m.at.offset)
      BY <2>3 DEF TextToTail
    <3>2. p.offset \in 0..Len(head.text)
      BY <1>1, <1>2, <1>3, <3>1
    <3>3. QED BY <2>1, <2>3, <3>2
  <2>4. QED BY <2>2, <2>3
<1>4. ASSUME NEW p, At(p, n, c)
      PROVE  \/ At(MapInlinePoint(m, p, bias), n, head)
             \/ At(MapInlinePoint(m, p, bias), new, tail)
  <2> DEFINE to == p.offset - offset
  <2>1. /\ p \in InlinePoints(Nat) /\ p.node = n
        /\ p.offset \in 0..Len(c.text) /\ p.index = 0
    BY <1>4, AtomlessGap DEF At, Gap
  <2>2. CASE MapTextPoint(m, p, bias) = p /\ p.offset \in 0..Len(head.text)
    BY <1>1, <2>1, <2>2, FirstGap DEF At, Gap
  <2>3. CASE /\ MapTextPoint(m, p, bias) = [p EXCEPT !.node = new, !.offset = to]
             /\ to \in 0..Len(tail.text)
    <3>1. ValidGap(tail, to, 0) /\ to \in Nat
      BY <1>2, <2>3, FirstGap
    <3> HIDE DEF to
    <3>2. At([p EXCEPT !.node = new, !.offset = to], new, tail)
      BY <2>1, <3>1 DEF At, Gap, InlinePoints
    <3>3. QED BY <1>1, <2>3, <3>2
  <2>4. QED BY <1>3, <2>1, <2>2, <2>3
<1>5. ASSUME NEW p, TextAt(p, n, c)
      PROVE  \/ TextAt(MapTextPoint(m, p, bias), n, head)
             \/ TextAt(MapTextPoint(m, p, bias), new, tail)
  <2> DEFINE to == p.offset - offset
  <2>1. p \in TextPoints(Nat) /\ p.node = n /\ p.offset \in 0..Len(c.text)
    BY <1>5 DEF TextAt
  <2>2. CASE MapTextPoint(m, p, bias) = p /\ p.offset \in 0..Len(head.text)
    BY <2>1, <2>2 DEF TextAt
  <2>3. CASE /\ MapTextPoint(m, p, bias) = [p EXCEPT !.node = new, !.offset = to]
             /\ to \in 0..Len(tail.text)
    <3>1. to \in Nat
      BY <1>2, <2>3
    <3> HIDE DEF to
    <3>2. TextAt([p EXCEPT !.node = new, !.offset = to], new, tail)
      BY <2>1, <2>3, <3>1 DEF TextAt, TextPoints
    <3>3. QED BY <2>3, <3>2
  <2>4. QED BY <1>3, <2>1, <2>2, <2>3
<1>6. QED BY <1>4, <1>5

\* Places of two lists in the list of both.
LEMMA PlacesOfBoth ==
  ASSUME NEW n \in Nat, NEW l \in Nat, NEW total, total = n + l
  PROVE  /\ \A j \in 1..n : j \in 1..total
         /\ \A j \in 1..l : n + j \in 1..total
         /\ \A j \in 0..n : j \in 0..total /\ j \in Nat
         /\ \A j \in 0..l : n + j \in 0..total /\ n + j \in Nat
OBVIOUS

\* Content put together: the rows of the first stay, those of the second come
\* behind them.
LEMMA JoinedRows ==
  ASSUME NEW f, MixedContent(f), NEW g, MixedContent(g), NEW d, PutTogether(f, g, d),
         NEW a \in Nat, NEW x \in Nat, NEW o \in Nat
  PROVE  /\ Row(f, a, x, o) => Row(d, a, x, o)
         /\ Row(g, a, x, o) => Row(d, Len(f.atoms) + a, x, Len(f.text) + o)
<1> DEFINE total == Len(d.atoms)
           n == Len(f.atoms)
           l == Len(g.atoms)
           size == Len(f.text)
<1>1. /\ total = n + l
      /\ \A i \in 1..n : d.atoms[i].offset = f.atoms[i].offset
      /\ \A i \in 1..l : d.atoms[n + i].offset = size + g.atoms[i].offset
  BY DEF PutTogether
<1>0. /\ total = Len(d.atoms) /\ n = Len(f.atoms) /\ l = Len(g.atoms) /\ size = Len(f.text)
      /\ n \in Nat /\ l \in Nat /\ size \in Nat
  BY Laid
<1> HIDE DEF total, n, l, size
<1>5. /\ \A j \in 1..n : j \in 1..total
      /\ \A j \in 1..l : n + j \in 1..total
  <2>1. total = n + l /\ n \in Nat /\ l \in Nat
    BY <1>0, <1>1
  <2>2. QED BY <2>1, PlacesOfBoth
<1>2. ASSUME Row(f, a, x, o) PROVE Row(d, a, x, o)
  <2>1. ASSUME NEW i \in 1..x PROVE a + i \in 1..Len(d.atoms) /\ d.atoms[a + i].offset = o
    <3>1. a + i \in 1..n /\ f.atoms[a + i].offset = o
      BY <1>0, <1>2 DEF Row
    <3>2. a + i \in 1..total
      BY <1>5, <3>1
    <3>3. QED BY <1>0, <1>1, <3>1, <3>2
  <2>2. QED BY <2>1 DEF Row
<1>3. ASSUME Row(g, a, x, o) PROVE Row(d, n + a, x, size + o)
  <2>1. ASSUME NEW i \in 1..x
        PROVE  (n + a) + i \in 1..Len(d.atoms) /\ d.atoms[(n + a) + i].offset = size + o
    <3>1. a + i \in 1..l /\ g.atoms[a + i].offset = o
      BY <1>0, <1>3 DEF Row
    <3>2. PICK j \in 1..l : j = a + i /\ g.atoms[j].offset = o
      BY <3>1
    <3>3. n + j \in 1..total /\ d.atoms[n + j].offset = size + o
      BY <1>1, <1>5, <3>2
    <3>4. (n + a) + i = n + j
      <4>1. n \in Nat /\ j = a + i
        BY <1>0, <3>2
      <4>2. QED BY <4>1
    <3>5. QED BY <1>0, <3>3, <3>4
  <2>2. QED BY <2>1 DEF Row
<1>4. QED BY <1>0, <1>2, <1>3

\* The gaps of the first of two joined nodes keep their places.
LEMMA FirstKept ==
  ASSUME NEW f, MixedContent(f), NEW g, MixedContent(g), NEW d, MixedContent(d),
         PutTogether(f, g, d), NEW n
  PROVE  (\A p : At(p, n, f) => At(p, n, d)) /\ (\A p : TextAt(p, n, f) => TextAt(p, n, d))
<1>1. Len(d.text) = Len(f.text) + Len(g.text)
  BY DEF PutTogether
<1>2. /\ Len(f.text) \in Nat /\ Len(g.text) \in Nat
      /\ Len(f.atoms) \in Nat /\ Len(g.atoms) \in Nat
  BY Laid
<1>3. \A o \in 0..Len(f.text) : o \in 0..Len(d.text) /\ o \in Nat
  <2> DEFINE b == Len(f.text)
             l == Len(g.text)
             t == Len(d.text)
  <2>1. t = b + l /\ b \in Nat /\ l \in Nat
    BY <1>1, <1>2
  <2> HIDE DEF b, l, t
  <2>2. \A o \in 0..b : o \in 0..t /\ o \in Nat
    BY <2>1
  <2>3. QED BY <2>2 DEF b, t
<1>4. ASSUME NEW p, At(p, n, f) PROVE At(p, n, d)
  <2> DEFINE o == p.offset
             x == p.index
             a == AtomsBefore(f, o, 0)
  <2>1. Located(f, o, x, a)
    BY <1>4, GapLocated DEF At, Gap
  <2>2. o \in 0..Len(f.text) /\ x \in Nat /\ a \in Nat /\ Row(f, a, x, o)
    BY <2>1 DEF Located
  <2> HIDE DEF o, x, a
  <2>3. o \in 0..Len(d.text) /\ o \in Nat
    BY <1>3, <2>2
  <2>4. Row(d, a, x, o)
    BY <2>2, <2>3, JoinedRows
  <2>5. ValidGap(d, o, x)
    BY <2>2, <2>3, <2>4, RowGap
  <2>6. QED BY <1>4, <2>5 DEF At, Gap, o, x
<1>5. QED BY <1>3, <1>4 DEF TextAt

\* The atoms at the end of the text are the last of all.
LEMMA EndSeam ==
  ASSUME NEW c, MixedContent(c), NEW size, size = Len(c.text),
         NEW n, n = Len(c.atoms), NEW seam, seam = AtomCountAt(c, size)
  PROVE  \E a \in Nat : a + seam = n /\ seam \in Nat /\ Row(c, a, seam, size)
<1> DEFINE a == AtomsBefore(c, size, 0)
<1>1. /\ size \in Nat /\ n \in Nat
      /\ \A i \in 1..n : c.atoms[i].offset <= size
  <2>1. /\ Len(c.text) \in Nat /\ Len(c.atoms) \in Nat
        /\ \A i \in 1..Len(c.atoms) : c.atoms[i].offset \in 0..Len(c.text)
    BY Laid
  <2>2. \A i \in 1..n : c.atoms[i].offset \in 0..size
    BY <2>1
  <2>3. QED BY <2>1, <2>2
<1>2. ValidGap(c, size, 0)
  BY <1>1, FirstGap
<1>3. /\ a \in Nat /\ seam \in Nat /\ a + seam \in 0..n
      /\ \A i \in 1..n : i <= a + seam <=> c.atoms[i].offset <= size
      /\ \A i \in 1..seam : a + i \in 1..Len(c.atoms) /\ c.atoms[a + i].offset = size
  BY <1>2, GapRow
<1>4. Row(c, a, seam, size)
  BY <1>3 DEF Row
<1> HIDE DEF a
<1>5. \A i \in 1..n : i <= a + seam
  BY <1>1, <1>3
<1>6. a + seam = n
  <2>1. \E b : b = a + seam /\ b \in 0..n /\ n \in Nat /\ \A i \in 1..n : i <= b
    BY <1>1, <1>3, <1>5
  <2>2. PICK b : b = a + seam /\ b \in 0..n /\ n \in Nat /\ \A i \in 1..n : i <= b
    BY <2>1
  <2>3. b = n
    <3>1. n = 0 \/ n \in 1..n
      BY <2>2
    <3>2. QED BY <2>2, <3>1
  <2>4. QED BY <2>2, <2>3
<1>7. QED BY <1>3, <1>4, <1>6

\* The gaps of the second of two joined nodes: those at its start come behind
\* the atoms at the end of the first.
LEMMA SecondJoined ==
  ASSUME NEW f, MixedContent(f), NEW g, MixedContent(g), NEW d, MixedContent(d),
         PutTogether(f, g, d),
         NEW size, size = Len(f.text), NEW seam, seam = AtomCountAt(f, size),
         NEW o, NEW x, ValidGap(g, o, x)
  PROVE  /\ ValidGap(d, size + o, IF o = 0 THEN seam + x ELSE x)
         /\ size + o \in 0..Len(d.text) /\ size + o \in Nat
         /\ (IF o = 0 THEN seam + x ELSE x) \in Nat
<1> DEFINE a == AtomsBefore(g, o, 0)
           n == Len(f.atoms)
           l == Len(g.text)
           more == Len(d.text)
<1>1. Located(g, o, x, a)
  BY GapLocated
<1>2. o \in 0..l /\ x \in Nat /\ a \in Nat /\ Row(g, a, x, o)
  BY <1>1 DEF Located
<1>3. size \in Nat /\ n \in Nat /\ l \in Nat /\ more = size + l
  BY Laid DEF PutTogether
<1>4. o = 0 => a = 0
  <2> DEFINE below == {i \in DOMAIN g.atoms : g.atoms[i].offset < o}
  <2>1. ASSUME o = 0 PROVE below = {}
    <3>1. \A i \in DOMAIN g.atoms : g.atoms[i].offset \in Nat
      BY Laid
    <3>2. QED BY <2>1, <3>1
  <2>2. a = Cardinality(below) + 0
    BY DEF AtomsBefore
  <2> HIDE DEF below
  <2>3. ASSUME o = 0 PROVE Cardinality(below) = 0
    BY <2>1, <2>3, FS_EmptySet
  <2>4. QED BY <2>2, <2>3
<1>5. o \in Nat /\ size + o \in 0..more /\ size + o \in Nat
  <2> HIDE DEF l, more
  <2>1. QED BY <1>2, <1>3
<1>6. Row(d, n + a, x, size + o)
  BY <1>2, <1>5, JoinedRows
<1>7. n + a \in Nat /\ seam \in Nat
  BY <1>2, <1>3, EndSeam
<1>8. CASE o # 0
  BY <1>2, <1>5, <1>6, <1>7, <1>8, RowGap
<1>9. CASE o = 0
  <2>1. PICK b \in Nat : b + seam = n /\ seam \in Nat /\ Row(f, b, seam, size)
    BY EndSeam
  <2>2. Row(d, b, seam, size)
    BY <1>3, <2>1, JoinedRows
  <2>3. n + a = b + seam /\ size + o = size
    <3> HIDE DEF a, n
    <3>1. n + a = n /\ size + o = size
      BY <1>3, <1>4, <1>9
    <3>2. QED BY <2>1, <3>1
  <2>4. Row(d, b + seam, x, size)
    BY <1>6, <2>3
  <2> HIDE DEF a, n, l, more
  <2>5. Row(d, b, seam + x, size)
    BY <1>2, <2>1, <2>2, <2>4, RowsTogether
  <2>6. seam + x \in Nat
    BY <1>2, <1>7
  <2>7. size \in 0..Len(d.text)
    BY <1>5, <2>3 DEF more
  <2>8. ValidGap(d, size, seam + x)
    BY <2>1, <2>5, <2>6, <2>7, RowGap
  <2>9. QED BY <1>5, <1>9, <2>3, <2>6, <2>8 DEF more
<1>10. QED BY <1>8, <1>9

\* The map a join records: plain when neither node holds an atom.
JoinMap(f, g, parent, index, first, second, size, seam) ==
  IF f.atoms = <<>> /\ g.atoms = <<>>
  THEN NodeJoined(parent, index, first, second, size)
  ELSE InlineNodeJoined(parent, index, first, second, size, seam)

\* Two nodes became the first of them.
LEMMA JoinCarries ==
  ASSUME NEW f, MixedContent(f), NEW g, MixedContent(g), NEW d, MixedContent(d),
         PutTogether(f, g, d),
         NEW first \in Nat, NEW second \in Nat, first # second, NEW parent, NEW index,
         NEW size, size = Len(f.text), NEW seam, seam = AtomCountAt(f, size), NEW m,
         m = JoinMap(f, g, parent, index, first, second, size, seam),
         NEW bias \in Biases
  PROVE  /\ \A p : At(p, first, f) => At(MapInlinePoint(m, p, bias), first, d)
         /\ \A p : TextAt(p, first, f) => TextAt(MapTextPoint(m, p, bias), first, d)
         /\ \A p : At(p, second, g) => At(MapInlinePoint(m, p, bias), first, d)
         /\ \A p : TextAt(p, second, g) => TextAt(MapTextPoint(m, p, bias), first, d)
<1>1. /\ m.map \in {"NodeJoined", "InlineNodeJoined"}
      /\ m.first = first /\ m.second = second /\ m.firstLen = size
      /\ m.map = "NodeJoined" => g.atoms = <<>>
      /\ m.map = "InlineNodeJoined" => m.seam = seam
  BY DEF JoinMap, NodeJoined, InlineNodeJoined
<1>2. ASSUME NEW p, p.node = first
      PROVE  MapInlinePoint(m, p, bias) = p /\ MapTextPoint(m, p, bias) = p
  <2>1. MapTextPoint(m, p, bias) = p
    BY <1>1, <1>2 DEF MapTextPoint
  <2>2. MapInlinePoint(m, p, bias) = MapTextPoint(m, p, bias)
    BY <1>1, <1>2 DEF MapInlinePoint
  <2>3. QED BY <2>1, <2>2
<1>3. ASSUME NEW p, p.node = second
      PROVE  MapTextPoint(m, p, bias) = [p EXCEPT !.node = first, !.offset = p.offset + size]
  BY <1>1, <1>3 DEF MapTextPoint
<1>4. size \in Nat
  BY Laid
<1>5. ASSUME NEW p, TextAt(p, second, g) PROVE TextAt(MapTextPoint(m, p, bias), first, d)
  <2> DEFINE o == p.offset
             to == o + size
  <2>1. p \in TextPoints(Nat) /\ p.node = second /\ o \in 0..Len(g.text) /\ o \in Nat
    BY <1>5 DEF TextAt, TextPoints
  <2>2. ValidGap(g, o, 0)
    BY <2>1, FirstGap
  <2>3. size + o \in 0..Len(d.text) /\ size + o \in Nat
    BY <2>2, SecondJoined
  <2>4. size + o = to
    BY <1>4, <2>1
  <2>5. to \in 0..Len(d.text) /\ to \in Nat
    BY <2>3, <2>4
  <2>6. MapTextPoint(m, p, bias) = [p EXCEPT !.node = first, !.offset = to]
    BY <1>3, <2>1
  <2> HIDE DEF to
  <2>7. QED BY <2>1, <2>5, <2>6 DEF TextAt, TextPoints
<1>6. ASSUME NEW p, At(p, second, g) PROVE At(MapInlinePoint(m, p, bias), first, d)
  <2> DEFINE o == p.offset
             x == p.index
             to == size + o
             at == IF o = 0 THEN seam + x ELSE x
             q == MapInlinePoint(m, p, bias)
  <2>1. p \in InlinePoints(Nat) /\ p.node = second /\ ValidGap(g, o, x)
    BY <1>6 DEF At, Gap
  <2>2. /\ ValidGap(d, to, at) /\ to \in 0..Len(d.text) /\ to \in Nat /\ at \in Nat
    BY <2>1, SecondJoined
  <2>3. o \in Nat /\ x \in Nat
    BY <2>1 DEF InlinePoints
  <2>4. CASE m.map = "InlineNodeJoined"
    <3>1. q = [node |-> first, offset |-> to, index |-> at]
      BY <1>1, <2>1, <2>4 DEF MapInlinePoint
    <3> HIDE DEF to, at, q
    <3>2. q \in InlinePoints(Nat) /\ q.node = first /\ q.offset = to /\ q.index = at
      BY <2>2, <3>1 DEF InlinePoints
    <3>3. At(q, first, d)
      BY <2>2, <3>2 DEF At, Gap
    <3>4. QED BY <3>3 DEF q
  <2>5. CASE m.map = "NodeJoined"
    <3>1. q = MapTextPoint(m, p, bias)
      BY <2>5 DEF MapInlinePoint
    <3>2. x = 0
      BY <1>1, <2>1, <2>5, AtomlessGap
    <3>3. o + size = to
      BY <1>4, <2>3
    <3>4. q = [p EXCEPT !.node = first, !.offset = to]
      BY <1>3, <2>1, <3>1, <3>3
    <3>5. ValidGap(d, to, 0)
      BY <2>2, FirstGap
    <3> HIDE DEF to, at, q
    <3>6. q \in InlinePoints(Nat) /\ q.node = first /\ q.offset = to /\ q.index = 0
      BY <2>1, <2>2, <3>2, <3>4 DEF InlinePoints
    <3>7. At(q, first, d)
      BY <3>5, <3>6 DEF At, Gap
    <3>8. QED BY <3>7 DEF q
  <2>6. QED BY <1>1, <2>4, <2>5
<1>7. ASSUME NEW p, At(p, first, f) PROVE At(MapInlinePoint(m, p, bias), first, d)
  BY <1>2, <1>7, FirstKept DEF At
<1>8. ASSUME NEW p, TextAt(p, first, f) PROVE TextAt(MapTextPoint(m, p, bias), first, d)
  <2>1. MapTextPoint(m, p, bias) = p
    BY <1>2, <1>8 DEF TextAt
  <2>2. TextAt(p, first, d)
    BY <1>8, FirstKept
  <2>3. QED BY <2>1, <2>2
<1>9. QED BY <1>5, <1>6, <1>7, <1>8

-----------------------------------------------------------------------------
(* Places of a document carried through a step.                            *)

TextGaps(store) == {TextPoint(p.node, p.offset) : p \in InlineGaps(store)}
\* A gap among the kids of a node.
Between(g, n, store) ==
  g \in [parent : Nat, index : Nat] /\ g.parent = n /\ g.index \in 0..Len(Kids(store[n]))
Parents(store) == {n \in DOMAIN store : store[n].content.shape = "children"}

\* The places of a document, node by node.
LEMMA PlacesAre ==
  ASSUME NEW store, IsDocument(store), NEW p
  PROVE  /\ p \in InlineGaps(store) <=> \E n \in InlineNodes(store) : At(p, n, store[n].content)
         /\ p \in TextGaps(store) <=> \E n \in InlineNodes(store) : TextAt(p, n, store[n].content)
         /\ p \in NodeGaps(store) <=> \E n \in Parents(store) : Between(p, n, store)
<1>1. \A n \in DOMAIN store : n \in Nat /\ WellMade(store[n])
  BY DEF IsDocument
<1>2. \A n \in InlineNodes(store) : n \in Nat /\ MixedContent(store[n].content)
  BY <1>1 DEF InlineNodes, WellMade
<1>3. ASSUME NEW n \in InlineNodes(store), NEW q
      PROVE  q \in GapsOf(store, n) <=> At(q, n, store[n].content)
  <2> DEFINE c == store[n].content
  <2>1. Len(c.text) \in Nat /\ MixedContent(c) /\ n \in Nat
    BY <1>2, Laid
  <2>2. \A o \in 0..Len(c.text) : AtomCountAt(c, o) \in Nat
    <3>1. TAKE o \in 0..Len(c.text)
    <3>2. ValidGap(c, o, 0)
      BY <2>1, FirstGap
    <3>3. AtomCountAt(c, o) \in Nat
      BY <2>1, <3>2, GapRow
    <3>4. QED BY <3>3
  <2>3. q \in GapsOf(store, n)
          <=> \E o \in 0..Len(c.text) : \E i \in 0..AtomCountAt(c, o) : q = InlinePoint(n, o, i)
    BY DEF GapsOf, Offsets
  <2> HIDE DEF c
  <2>4. ASSUME NEW o \in 0..Len(c.text), NEW i \in 0..AtomCountAt(c, o), q = InlinePoint(n, o, i)
        PROVE  At(q, n, c)
    BY <2>1, <2>2, <2>4 DEF At, Gap, ValidGap, ValidOffset, InlinePoint, InlinePoints
  <2>5. ASSUME At(q, n, c)
        PROVE  \E o \in 0..Len(c.text) : \E i \in 0..AtomCountAt(c, o) : q = InlinePoint(n, o, i)
    <3>1. /\ q \in InlinePoints(Nat) /\ q.node = n
          /\ q.offset \in 0..Len(c.text) /\ q.index \in 0..AtomCountAt(c, q.offset)
      BY <2>5 DEF At, Gap, ValidGap, ValidOffset
    <3>2. q = InlinePoint(n, q.offset, q.index)
      BY <3>1 DEF InlinePoints, InlinePoint
    <3>3. QED BY <3>1, <3>2
  <2>6. QED BY <2>3, <2>4, <2>5 DEF c
<1>4. \A q : q \in InlineGaps(store) <=> \E n \in InlineNodes(store) : At(q, n, store[n].content)
  BY <1>3 DEF InlineGaps
<1>5. p \in TextGaps(store) <=> \E n \in InlineNodes(store) : TextAt(p, n, store[n].content)
  <2>1. ASSUME NEW q \in InlineGaps(store), p = TextPoint(q.node, q.offset)
        PROVE  \E n \in InlineNodes(store) : TextAt(p, n, store[n].content)
    <3>1. PICK n \in InlineNodes(store) : At(q, n, store[n].content)
      BY <1>4
    <3>2. TextAt(p, n, store[n].content)
      BY <2>1, <3>1 DEF At, TextAt, Gap, ValidGap, ValidOffset, TextPoint, TextPoints, InlinePoints
    <3>3. QED BY <3>2
  <2>2. ASSUME NEW n \in InlineNodes(store), TextAt(p, n, store[n].content)
        PROVE  \E q \in InlineGaps(store) : p = TextPoint(q.node, q.offset)
    <3> DEFINE q == InlinePoint(n, p.offset, 0)
    <3>1. p \in TextPoints(Nat) /\ p.node = n /\ p.offset \in 0..Len(store[n].content.text)
      BY <2>2 DEF TextAt
    <3>2. ValidGap(store[n].content, p.offset, 0)
      BY <1>2, <3>1, FirstGap
    <3>3. At(q, n, store[n].content)
      BY <3>1, <3>2 DEF At, Gap, InlinePoint, InlinePoints, TextPoints
    <3>4. p = TextPoint(q.node, q.offset)
      BY <3>1 DEF TextPoint, TextPoints, InlinePoint
    <3> HIDE DEF q
    <3>5. QED BY <1>4, <3>3, <3>4
  <2>3. QED BY <2>1, <2>2 DEF TextGaps
<1>6. p \in NodeGaps(store) <=> \E n \in Parents(store) : Between(p, n, store)
  <2>1. \A n \in Parents(store) : n \in Nat
    BY <1>1 DEF Parents
  <2>2. p \in NodeGaps(store)
          <=> \E n \in Parents(store) : \E i \in 0..Len(Kids(store[n])) : p = NodeGap(n, i)
    BY DEF NodeGaps, Parents
  <2>3. ASSUME NEW n \in Parents(store)
        PROVE  (\E i \in 0..Len(Kids(store[n])) : p = NodeGap(n, i)) <=> Between(p, n, store)
    <3>1. ASSUME NEW i \in 0..Len(Kids(store[n])), p = NodeGap(n, i) PROVE Between(p, n, store)
      BY <2>1, <3>1 DEF Between, NodeGap
    <3>2. ASSUME Between(p, n, store)
          PROVE  p.index \in 0..Len(Kids(store[n])) /\ p = NodeGap(n, p.index)
      BY <3>2 DEF Between, NodeGap
    <3>3. QED BY <3>1, <3>2
  <2>4. QED BY <2>2, <2>3
<1>7. QED BY <1>4, <1>5, <1>6

\* A step map takes every place of a document to a place of the next one, and
\* a node that left to Deleted.
OverMap(before, m, after) ==
  /\ \A bias \in Biases :
       /\ \A p \in InlineGaps(before) : MapInlinePoint(m, p, bias) \in InlineGaps(after)
       /\ \A p \in TextGaps(before) : MapTextPoint(m, p, bias) \in TextGaps(after)
       /\ \A g \in NodeGaps(before) : MapNodeGap(m, g, bias) \in NodeGaps(after)
  /\ \A n \in DOMAIN before :
       MapNodeSelection(m, n) = IF n \in DOMAIN after THEN n ELSE Deleted
\* A step without a map leaves every place where it was.
InPlace(before, after) ==
  /\ InlineGaps(before) \subseteq InlineGaps(after)
  /\ TextGaps(before) \subseteq TextGaps(after)
  /\ NodeGaps(before) \subseteq NodeGaps(after)
  /\ DOMAIN before \subseteq DOMAIN after
StepCarries(before, maps, after) ==
  \/ maps = <<>> /\ InPlace(before, after)
  \/ \E m : maps = <<m>> /\ OverMap(before, m, after)

\* The nodes outside S keep their content.
Same(before, after, S) ==
  \A n \in DOMAIN before \ S : n \in DOMAIN after /\ after[n].content = before[n].content

\* Points outside the nodes of S stay, those inside go where the map sends
\* them.
LEMMA PointsCarried ==
  ASSUME NEW before, IsDocument(before), NEW after, IsDocument(after), NEW m, NEW bias,
         NEW S, Same(before, after, S),
         \A p : p.node \notin S => MapInlinePoint(m, p, bias) = p /\ MapTextPoint(m, p, bias) = p,
         \A n \in S \cap InlineNodes(before) : \A p : At(p, n, before[n].content) =>
           \E k \in InlineNodes(after) : At(MapInlinePoint(m, p, bias), k, after[k].content),
         \A n \in S \cap InlineNodes(before) : \A p : TextAt(p, n, before[n].content) =>
           \E k \in InlineNodes(after) : TextAt(MapTextPoint(m, p, bias), k, after[k].content)
  PROVE  /\ \A p \in InlineGaps(before) : MapInlinePoint(m, p, bias) \in InlineGaps(after)
         /\ \A p \in TextGaps(before) : MapTextPoint(m, p, bias) \in TextGaps(after)
<1>1. ASSUME NEW n \in InlineNodes(before), n \notin S
      PROVE  n \in InlineNodes(after) /\ after[n].content = before[n].content
  BY <1>1 DEF Same, InlineNodes
<1>2. ASSUME NEW p \in InlineGaps(before) PROVE MapInlinePoint(m, p, bias) \in InlineGaps(after)
  <2>1. PICK n \in InlineNodes(before) : At(p, n, before[n].content)
    BY PlacesAre
  <2>2. \E k \in InlineNodes(after) : At(MapInlinePoint(m, p, bias), k, after[k].content)
    <3>1. CASE n \in S
      BY <2>1, <3>1
    <3>2. CASE n \notin S
      <4>1. MapInlinePoint(m, p, bias) = p
        BY <2>1, <3>2 DEF At
      <4>2. At(p, n, after[n].content) /\ n \in InlineNodes(after)
        BY <1>1, <2>1, <3>2
      <4>3. QED BY <4>1, <4>2
    <3>3. QED BY <3>1, <3>2
  <2>3. QED BY <2>2, PlacesAre
<1>3. ASSUME NEW p \in TextGaps(before) PROVE MapTextPoint(m, p, bias) \in TextGaps(after)
  <2>1. PICK n \in InlineNodes(before) : TextAt(p, n, before[n].content)
    BY PlacesAre
  <2>2. \E k \in InlineNodes(after) : TextAt(MapTextPoint(m, p, bias), k, after[k].content)
    <3>1. CASE n \in S
      BY <2>1, <3>1
    <3>2. CASE n \notin S
      <4>1. MapTextPoint(m, p, bias) = p
        BY <2>1, <3>2 DEF TextAt
      <4>2. TextAt(p, n, after[n].content) /\ n \in InlineNodes(after)
        BY <1>1, <2>1, <3>2
      <4>3. QED BY <4>1, <4>2
    <3>3. QED BY <3>1, <3>2
  <2>3. QED BY <2>2, PlacesAre
<1>4. QED BY <1>2, <1>3

\* The map moves points of the nodes of S only.
Touches(m, S) ==
  \/ m.map \in {"TextReplaced", "InlineTextReplaced"} /\ m.node \in S
  \/ m.map \in {"InlineAtomInserted", "InlineAtomRemoved"} /\ m.parent \in S
  \/ m.map \in {"NodeSplit", "InlineNodeSplit"} /\ m.at.node \in S
  \/ m.map \in {"NodeJoined", "InlineNodeJoined"} /\ m.second \in S

LEMMA ElsewhereStays ==
  ASSUME NEW m, NEW S, Touches(m, S), NEW p, p.node \notin S, NEW bias
  PROVE  MapInlinePoint(m, p, bias) = p /\ MapTextPoint(m, p, bias) = p
<1>1. MapTextPoint(m, p, bias) = p
  BY DEF Touches, MapTextPoint
<1>2. MapInlinePoint(m, p, bias) = MapTextPoint(m, p, bias)
  BY DEF Touches, MapInlinePoint
<1>3. QED BY <1>1, <1>2

\* Gaps among kids, parent by parent.
LEMMA GapsCarried ==
  ASSUME NEW before, IsDocument(before), NEW after, IsDocument(after), NEW m, NEW bias,
         \A n \in Parents(before) :
           /\ n \in Parents(after)
           /\ \A g : Between(g, n, before) => Between(MapNodeGap(m, g, bias), n, after)
  PROVE  \A g \in NodeGaps(before) : MapNodeGap(m, g, bias) \in NodeGaps(after)
<1> TAKE g \in NodeGaps(before)
<1>1. PICK n \in Parents(before) : Between(g, n, before)
  BY PlacesAre
<1>2. n \in Parents(after) /\ Between(MapNodeGap(m, g, bias), n, after)
  BY <1>1
<1>3. QED BY <1>2, PlacesAre

\* The content of one node is edited; atoms may leave the store with it, and
\* nodes may enter it.
Edited(before, after, n, gone) ==
  /\ n \in InlineNodes(before) /\ n \in InlineNodes(after)
  /\ \A k \in gone \cap DOMAIN before : before[k].content.shape = "atom"
  /\ Same(before, after, {n} \cup gone)
  /\ \A k \in DOMAIN before : k \in DOMAIN after <=> k \notin gone

LEMMA EditedElsewhere ==
  ASSUME NEW before, NEW after, NEW n, NEW gone, Edited(before, after, n, gone)
  PROVE  /\ \A k \in InlineNodes(before) \ {n} :
              k \in InlineNodes(after) /\ after[k].content = before[k].content
         /\ \A k \in Parents(before) :
              k \in Parents(after) /\ Kids(after[k]) = Kids(before[k])
<1>1. ASSUME NEW k \in DOMAIN before, before[k].content.shape # "atom", k # n
      PROVE  k \in DOMAIN after /\ after[k].content = before[k].content
  BY <1>1 DEF Edited, Same
<1>2. \A k \in Parents(before) : k # n
  BY DEF Parents, Edited, InlineNodes
<1>3. QED BY <1>1, <1>2 DEF Parents, InlineNodes, Kids

LEMMA EditCarries ==
  ASSUME NEW before, IsDocument(before), NEW after, IsDocument(after), NEW n, NEW gone,
         Edited(before, after, n, gone),
         NEW m, Touches(m, {n}),
         m.map \in {"TextReplaced", "InlineTextReplaced", "InlineAtomInserted",
                    "InlineAtomRemoved"},
         \A k : MapNodeSelection(m, k) = IF k \in gone THEN Deleted ELSE k,
         \A bias \in Biases :
           /\ \A p : At(p, n, before[n].content)
                       => At(MapInlinePoint(m, p, bias), n, after[n].content)
           /\ \A p : TextAt(p, n, before[n].content)
                       => TextAt(MapTextPoint(m, p, bias), n, after[n].content)
  PROVE  OverMap(before, m, after)
<1>1. Same(before, after, {n} \cup gone)
  BY DEF Edited
<1>2. ASSUME NEW bias \in Biases
      PROVE  /\ \A p \in InlineGaps(before) : MapInlinePoint(m, p, bias) \in InlineGaps(after)
             /\ \A p \in TextGaps(before) : MapTextPoint(m, p, bias) \in TextGaps(after)
  <2> DEFINE S == {n} \cup gone
  <2>1. \A p : p.node \notin S => MapInlinePoint(m, p, bias) = p /\ MapTextPoint(m, p, bias) = p
    <3>1. TAKE p
    <3>2. p.node \notin S => p.node \notin {n}
      OBVIOUS
    <3>3. QED BY <3>2, ElsewhereStays
  <2>2. \A k \in S \cap InlineNodes(before) : k = n
    BY DEF Edited, InlineNodes
  <2>3. n \in InlineNodes(after)
    BY DEF Edited
  <2>4. \A k \in S \cap InlineNodes(before) : \A p : At(p, k, before[k].content) =>
          \E j \in InlineNodes(after) : At(MapInlinePoint(m, p, bias), j, after[j].content)
    BY <1>2, <2>2, <2>3
  <2>5. \A k \in S \cap InlineNodes(before) : \A p : TextAt(p, k, before[k].content) =>
          \E j \in InlineNodes(after) : TextAt(MapTextPoint(m, p, bias), j, after[j].content)
    BY <1>2, <2>2, <2>3
  <2> HIDE DEF S
  <2>6. Same(before, after, S)
    BY <1>1 DEF S
  <2>7. QED BY <2>1, <2>4, <2>5, <2>6, PointsCarried
<1>3. ASSUME NEW bias \in Biases
      PROVE  \A g \in NodeGaps(before) : MapNodeGap(m, g, bias) \in NodeGaps(after)
  <2>1. \A g : MapNodeGap(m, g, bias) = g
    BY DEF MapNodeGap
  <2>2. \A k \in Parents(before) :
          /\ k \in Parents(after)
          /\ \A g : Between(g, k, before) => Between(MapNodeGap(m, g, bias), k, after)
    BY <2>1, EditedElsewhere DEF Between
  <2>3. QED BY <2>2, GapsCarried
<1>4. \A k \in DOMAIN before :
        MapNodeSelection(m, k) = IF k \in DOMAIN after THEN k ELSE Deleted
  BY DEF Edited
<1>5. QED BY <1>2, <1>3, <1>4 DEF OverMap

-----------------------------------------------------------------------------
(* The ids a group of inverse steps brings back.                           *)

Listing(q) == \E T : q \in Seq(T)
Gone(q) == UNION {BroughtBack(q[i]) : i \in DOMAIN q}
Once(q) == \A i, j \in DOMAIN q : i # j => BroughtBack(q[i]) \cap BroughtBack(q[j]) = {}
\* A group that brings nothing back.
Plain(q) == \E T : q \in Seq(T) /\ \A s \in T : BroughtBack(s) = {}

LEMMA PlainGroups ==
  /\ Plain(<<>>)
  /\ \A s : BroughtBack(s) = {} => Plain(<<s>>)
  /\ \A q : MarkGroup(q) => Plain(q)
  /\ \A q : Plain(q) => Listing(q) /\ Gone(q) = {} /\ Once(q)
<1>1. Plain(<<>>)
  <2> DEFINE T == {}
  <2>1. <<>> \in Seq(T) /\ \A s \in T : BroughtBack(s) = {}
    OBVIOUS
  <2> HIDE DEF T
  <2>2. QED BY <2>1 DEF Plain
<1>2. ASSUME NEW s, BroughtBack(s) = {} PROVE Plain(<<s>>)
  <2> DEFINE T == {s}
  <2>1. <<s>> \in Seq(T) /\ \A x \in T : BroughtBack(x) = {}
    BY <1>2
  <2> HIDE DEF T
  <2>2. QED BY <2>1 DEF Plain
<1>3. ASSUME NEW q, MarkGroup(q) PROVE Plain(q)
  <2>1. PICK T : q \in Seq(T) /\ \A s \in T : IsMarkStep(s)
    BY <1>3 DEF MarkGroup
  <2>2. \A s \in T : BroughtBack(s) = {}
    BY <2>1 DEF IsMarkStep, BroughtBack
  <2>3. QED BY <2>1, <2>2 DEF Plain
<1>4. ASSUME NEW q, Plain(q) PROVE Listing(q) /\ Gone(q) = {} /\ Once(q)
  <2>1. PICK T : q \in Seq(T) /\ \A s \in T : BroughtBack(s) = {}
    BY <1>4 DEF Plain
  <2>2. \A i \in DOMAIN q : BroughtBack(q[i]) = {}
    BY <2>1
  <2>3. QED BY <2>1, <2>2 DEF Listing, Gone, Once
<1>5. QED BY <1>1, <1>2, <1>3, <1>4

\* The group of one step.
LEMMA OneStepGroup ==
  ASSUME NEW s
  PROVE  Listing(<<s>>) /\ Gone(<<s>>) = BroughtBack(s) /\ Once(<<s>>)
<1> DEFINE q == <<s>>
           T == {s}
<1>1. q \in Seq(T) /\ DOMAIN q = {1} /\ q[1] = s
  OBVIOUS
<1> HIDE DEF q, T
<1>2. Listing(q) /\ Gone(q) = BroughtBack(s) /\ Once(q)
  BY <1>1 DEF Listing, Gone, Once
<1>3. QED BY <1>2 DEF q

\* Two groups.
LEMMA GroupsTogether ==
  ASSUME NEW p, NEW q, Listing(p), Listing(q)
  PROVE  /\ Listing(p \o q) /\ Gone(p \o q) = Gone(p) \cup Gone(q)
         /\ Once(p) /\ Once(q) /\ Gone(p) \cap Gone(q) = {} => Once(p \o q)
<1>1. PICK S : p \in Seq(S)
  BY DEF Listing
<1>2. PICK T : q \in Seq(T)
  BY DEF Listing
<1> DEFINE U == S \cup T
           k == Len(p)
           l == Len(q)
           all == p \o q
<1>3. p \in Seq(U) /\ q \in Seq(U)
  <2>1. Seq(S) \subseteq Seq(U) /\ Seq(T) \subseteq Seq(U)
    OBVIOUS
  <2>2. QED BY <1>1, <1>2, <2>1
<1> HIDE DEF U
<1>4. /\ all \in Seq(U) /\ Len(all) = k + l
      /\ \A i \in 1..(k + l) : all[i] = IF i <= k THEN p[i] ELSE q[i - k]
      /\ k \in Nat /\ l \in Nat
      /\ DOMAIN p = 1..k /\ DOMAIN q = 1..l /\ DOMAIN all = 1..(k + l)
  <2>1. /\ all \in Seq(U) /\ Len(all) = k + l
        /\ \A i \in 1..(k + l) : all[i] = IF i <= k THEN p[i] ELSE q[i - k]
    BY <1>3, ConcatProperties
  <2>2. k \in Nat /\ l \in Nat /\ DOMAIN p = 1..k /\ DOMAIN q = 1..l
    BY <1>3
  <2> HIDE DEF all
  <2>3. DOMAIN all = 1..Len(all)
    BY <2>1
  <2>4. QED BY <2>1, <2>2, <2>3
<1> HIDE DEF all, k, l
<1>5. /\ \A i \in 1..k : i \in 1..(k + l) /\ all[i] = p[i]
      /\ \A j \in 1..l : k + j \in 1..(k + l) /\ all[k + j] = q[j]
      /\ \A i \in 1..(k + l) : i \in 1..k \/ \E j \in 1..l : i = k + j
  <2>1. \A i \in 1..k : i \in 1..(k + l) /\ i <= k
    BY <1>4
  <2>2. \A j \in 1..l : k + j \in 1..(k + l) /\ ~(k + j <= k) /\ (k + j) - k = j
    BY <1>4
  <2>3. \A i \in 1..(k + l) : i \in 1..k \/ \E j \in 1..l : i = k + j
    <3>1. TAKE i \in 1..(k + l)
    <3>2. CASE i <= k
      BY <1>4, <3>2
    <3>3. CASE i > k
      <4>1. i - k \in 1..l /\ i = k + (i - k)
        BY <1>4, <3>3
      <4>2. QED BY <4>1
    <3>4. QED BY <1>4, <3>2, <3>3
  <2>4. QED BY <1>4, <2>1, <2>2, <2>3
<1>6. Gone(all) = Gone(p) \cup Gone(q)
  BY <1>4, <1>5 DEF Gone
<1>7. ASSUME Once(p), Once(q), Gone(p) \cap Gone(q) = {} PROVE Once(all)
  <2>1. ASSUME NEW i \in 1..k, NEW j \in 1..l PROVE BroughtBack(p[i]) \cap BroughtBack(q[j]) = {}
    BY <1>4, <1>7 DEF Gone
  <2>2. ASSUME NEW i \in 1..(k + l), NEW j \in 1..(k + l), i # j
        PROVE  BroughtBack(all[i]) \cap BroughtBack(all[j]) = {}
    <3>1. CASE i \in 1..k /\ j \in 1..k
      BY <1>4, <1>5, <1>7, <2>2, <3>1 DEF Once
    <3>2. CASE i \in 1..k /\ j \notin 1..k
      BY <1>5, <2>1, <2>2, <3>2
    <3>3. CASE i \notin 1..k /\ j \in 1..k
      BY <1>5, <2>1, <2>2, <3>3
    <3>4. CASE i \notin 1..k /\ j \notin 1..k
      <4>1. PICK x \in 1..l : i = k + x
        BY <1>5, <2>2, <3>4
      <4>2. PICK y \in 1..l : j = k + y
        BY <1>5, <2>2, <3>4
      <4>3. x # y
        BY <2>2, <4>1, <4>2
      <4>4. BroughtBack(q[x]) \cap BroughtBack(q[y]) = {}
        BY <1>4, <1>7, <4>3 DEF Once
      <4>5. QED BY <1>5, <4>1, <4>2, <4>4
    <3>5. QED BY <3>1, <3>2, <3>3, <3>4
  <2>3. QED BY <1>4, <2>2 DEF Once
<1>8. QED BY <1>3, <1>4, <1>6, <1>7 DEF Listing, all

\* What a step did: places were carried, the nodes its inverse brings back
\* left, and some entered.
Relocated(before, r, came) ==
  /\ StepCarries(before, r.maps, r.store)
  /\ Listing(r.inverse) /\ Once(r.inverse)
  /\ Gone(r.inverse) \subseteq DOMAIN before
  /\ DOMAIN r.store = (DOMAIN before \ Gone(r.inverse)) \cup came
  /\ came \cap DOMAIN before = {}

-----------------------------------------------------------------------------
(* Every content step carries the places of the document.                  *)

\* The content of one node is rewritten and nothing else happens.
EditedAlone(before, after, n) == Edited(before, after, n, {})

LEMMA EditAloneCarries ==
  ASSUME NEW before, IsDocument(before), NEW after, IsDocument(after), NEW n,
         EditedAlone(before, after, n),
         NEW m, Touches(m, {n}),
         m.map \in {"TextReplaced", "InlineTextReplaced", "InlineAtomInserted"},
         \A bias \in Biases :
           /\ \A p : At(p, n, before[n].content)
                       => At(MapInlinePoint(m, p, bias), n, after[n].content)
           /\ \A p : TextAt(p, n, before[n].content)
                       => TextAt(MapTextPoint(m, p, bias), n, after[n].content)
  PROVE  OverMap(before, m, after)
<1> DEFINE gone == {}
<1>1. Edited(before, after, n, gone)
  BY DEF EditedAlone
<1>2. \A k : MapNodeSelection(m, k) = IF k \in gone THEN Deleted ELSE k
  BY DEF MapNodeSelection
<1> HIDE DEF gone
<1>3. QED BY <1>1, <1>2, EditCarries

\* An edit of marks leaves every place where it was.
LEMMA MarksInPlace ==
  ASSUME NEW before, IsDocument(before), NEW after, IsDocument(after), NEW n,
         EditedAlone(before, after, n),
         \A p : /\ At(p, n, before[n].content) => At(p, n, after[n].content)
                /\ TextAt(p, n, before[n].content) => TextAt(p, n, after[n].content)
  PROVE  InPlace(before, after)
<1> DEFINE gone == {}
<1>1. Edited(before, after, n, gone)
  BY DEF EditedAlone
<1> HIDE DEF gone
<1>2. \A k \in InlineNodes(before) :
        /\ k \in InlineNodes(after)
        /\ \A p : /\ At(p, k, before[k].content) => At(p, k, after[k].content)
                  /\ TextAt(p, k, before[k].content) => TextAt(p, k, after[k].content)
  <2>1. \A k \in InlineNodes(before) \ {n} :
          k \in InlineNodes(after) /\ after[k].content = before[k].content
    BY <1>1, EditedElsewhere
  <2>2. n \in InlineNodes(after)
    BY <1>1 DEF Edited
  <2>3. QED BY <2>1, <2>2
<1>3. InlineGaps(before) \subseteq InlineGaps(after)
  BY <1>2, PlacesAre
<1>4. TextGaps(before) \subseteq TextGaps(after)
  BY <1>2, PlacesAre
<1>5. NodeGaps(before) \subseteq NodeGaps(after)
  <2>1. \A k \in Parents(before) :
          k \in Parents(after) /\ \A g : Between(g, k, before) => Between(g, k, after)
    BY <1>1, EditedElsewhere DEF Between
  <2>2. QED BY <2>1, PlacesAre
<1>6. DOMAIN before \subseteq DOMAIN after
  BY <1>1 DEF Edited, gone
<1>7. QED BY <1>3, <1>4, <1>5, <1>6 DEF InPlace

\* A rewritten node.
LEMMA RewriteEdits ==
  ASSUME NEW store, IsDocument(store), NEW n \in DOMAIN store,
         store[n].content.shape = "inline", NEW d, MixedContent(d),
         NEW after, after = Rewrite(store, n, d)
  PROVE  /\ EditedAlone(store, after, n)
         /\ DOMAIN after = DOMAIN store /\ after[n].content = d
         /\ n \in Nat /\ MixedContent(store[n].content)
<1>1. MadeOf(store) /\ WellMade(store[n]) /\ n \in Nat
  BY DocumentIs DEF MadeOf
<1>2. Fits(d, "inline") /\ d.shape = "inline"
  BY Laid DEF Fits
<1>3. /\ DOMAIN after = DOMAIN store /\ after[n].content = d
      /\ \A other \in DOMAIN store \ {n} : after[other] = store[other]
  BY <1>1, <1>2, RewriteMade
<1>4. EditedAlone(store, after, n)
  BY <1>2, <1>3 DEF EditedAlone, Edited, Same, InlineNodes
<1>5. QED BY <1>1, <1>3, <1>4 DEF WellMade

\* Text replaced between atoms.
LEMMA ReplaceTextMoves ==
  ASSUME NEW w, NEW s, IsDocument(w.store), Kept(s), s.op = "ReplaceText",
         NEW r \in ApplyReplaceText(w, s), IsDocument(r.store)
  PROVE  Relocated(w.store, r, {})
<1> DEFINE Back(c) == <<ReplaceTextStep(s.node, s.start, s.start + Len(s.text),
                                       LettersOf(c, s.start, s.end))>>
           Marked(c) == Remark(s.node, s.start, s.end,
                               RunMarksAt(ReplaceText(c, s.start, s.end, s.text), s.start),
                               SpansWithin(c, s.start, s.end))
           m == TextReplaced(s.node, s.start, s.end, Len(s.text))
<1>1. PICK c \in InlineOf(w.store, s.node) :
        /\ ReplacesText(c, s.start, s.end)
        /\ r.store = Rewrite(w.store, s.node, ReplaceText(c, s.start, s.end, s.text))
        /\ r.maps = <<m>>
        /\ r.inverse = Back(c) \o (IF s.start = s.end THEN <<>> ELSE Marked(c))
  <2>1. PICK c \in {c \in InlineOf(w.store, s.node) : ReplacesText(c, s.start, s.end)} :
          r = Done(Rewrite(w.store, s.node, ReplaceText(c, s.start, s.end, s.text)), w.next,
                   <<m>>, Back(c) \o (IF s.start = s.end THEN <<>> ELSE Marked(c)))
    BY DEF ApplyReplaceText
  <2> HIDE DEF Back, Marked, m
  <2>2. QED BY <2>1 DEF Done
<1>2. /\ s.node \in DOMAIN w.store /\ c = w.store[s.node].content
      /\ c.shape = "inline" /\ MixedContent(c)
  BY InlineIs
<1>3. s.start \in 0..Len(c.text) /\ s.end \in s.start..Len(c.text)
  BY <1>1 DEF ReplacesText, ValidOffset
<1>4. Plain(Back(c))
  <2>1. BroughtBack(ReplaceTextStep(s.node, s.start, s.start + Len(s.text),
                                    LettersOf(c, s.start, s.end))) = {}
    BY DEF ReplaceTextStep, BroughtBack
  <2>2. QED BY <2>1, PlainGroups
<1>5. Plain(Marked(c))
  <2>1. s.start \in Int /\ s.end \in Int
    BY <1>3
  <2>2. PICK k \in Nat : DOMAIN SpansWithin(c, s.start, s.end) = 1..k
    BY <2>1, SpansAreListed
  <2>3. QED BY <2>2, RemarkIs, PlainGroups
<1> HIDE DEF Back, Marked
<1>6. Listing(r.inverse) /\ Gone(r.inverse) = {} /\ Once(r.inverse)
  <2>1. Plain(IF s.start = s.end THEN <<>> ELSE Marked(c))
    BY <1>5, PlainGroups
  <2>2. QED BY <1>1, <1>4, <2>1, PlainGroups, GroupsTogether
<1> DEFINE d == ReplaceText(c, s.start, s.end, s.text)
           n == s.node
           start == s.start
           end == s.end
           len == Len(s.text)
<1>7. s.text \in Seq(TextLetters)
  BY DEF Kept
<1>8. MixedContent(d) /\ SplicedLaid(c, d, start, end, len)
  BY <1>1, <1>2, <1>7, ReplaceTextKeeps, ReplaceTextLaid
<1> HIDE DEF d
<1>9. /\ EditedAlone(w.store, r.store, n) /\ DOMAIN r.store = DOMAIN w.store
      /\ r.store[n].content = d /\ n \in Nat
  BY <1>1, <1>2, <1>8, RewriteEdits DEF d
<1>10. /\ Touches(m, {n}) /\ m.map = "TextReplaced"
  BY DEF Touches, TextReplaced
<1>11. m = TextReplaced(n, start, end, len)
  OBVIOUS
<1> HIDE DEF m, n, start, end, len
<1>12. ASSUME NEW bias \in Biases
       PROVE  /\ \A p : At(p, n, c) => At(MapInlinePoint(m, p, bias), n, d)
              /\ \A p : TextAt(p, n, c) => TextAt(MapTextPoint(m, p, bias), n, d)
  BY <1>2, <1>8, <1>9, <1>11, TextReplacedCarries
<1>13. c = w.store[n].content
  BY <1>2 DEF n
<1>14. OverMap(w.store, m, r.store)
  BY <1>9, <1>10, <1>12, <1>13, EditAloneCarries
<1>15. QED BY <1>1, <1>6, <1>9, <1>14 DEF Relocated, StepCarries

\* Text replaced at a seam.
LEMMA ReplaceInlineTextMoves ==
  ASSUME NEW w, NEW s, IsDocument(w.store), Kept(s), s.op = "ReplaceInlineText",
         NEW r \in ApplyReplaceInlineText(w, s), IsDocument(r.store)
  PROVE  Relocated(w.store, r, {})
<1> DEFINE n == s.at.node
           offset == s.at.offset
           index == s.at.index
           end == s.end
           len == Len(s.text)
           New(c) == ReplaceInlineText(c, offset, index, end, s.text,
                                       GapMarks(w.store, c, offset, index))
           Back(c) == <<ReplaceInlineTextStep(s.at, offset + len, LettersOf(c, offset, end))>>
           Marked(c) == Remark(n, offset, end, GapMarks(w.store, New(c), offset, index),
                               SpansWithin(c, offset, end))
           m == InlineTextReplaced(n, offset, end, len, index)
<1>1. PICK c \in InlineOf(w.store, n) :
        /\ ReplacesInlineText(c, offset, index, end)
        /\ r.store = Rewrite(w.store, n, New(c))
        /\ r.maps = <<m>>
        /\ r.inverse = Back(c) \o (IF offset = end THEN <<>> ELSE Marked(c))
  <2>1. PICK c \in {c \in InlineOf(w.store, n) : ReplacesInlineText(c, offset, index, end)} :
          r = Done(Rewrite(w.store, n, New(c)), w.next, <<m>>,
                   Back(c) \o (IF offset = end THEN <<>> ELSE Marked(c)))
    BY DEF ApplyReplaceInlineText
  <2> HIDE DEF New, Back, Marked, m, n, offset, index, end
  <2>2. QED BY <2>1 DEF Done
<1>2. /\ n \in DOMAIN w.store /\ c = w.store[n].content
      /\ c.shape = "inline" /\ MixedContent(c)
  BY InlineIs
<1>3. /\ offset \in 0..Len(c.text) /\ end \in offset..Len(c.text)
      /\ ValidGap(c, offset, index)
  BY <1>1 DEF ReplacesInlineText, ValidGap, ValidOffset
<1>4. Plain(Back(c))
  <2>1. BroughtBack(ReplaceInlineTextStep(s.at, offset + len, LettersOf(c, offset, end))) = {}
    BY DEF ReplaceInlineTextStep, BroughtBack
  <2>2. QED BY <2>1, PlainGroups
<1>5. Plain(Marked(c))
  <2>1. offset \in Int /\ end \in Int
    BY <1>3
  <2>2. PICK k \in Nat : DOMAIN SpansWithin(c, offset, end) = 1..k
    BY <2>1, SpansAreListed
  <2>3. QED BY <2>2, RemarkIs, PlainGroups
<1> HIDE DEF Back, Marked
<1>6. Listing(r.inverse) /\ Gone(r.inverse) = {} /\ Once(r.inverse)
  <2>1. Plain(IF offset = end THEN <<>> ELSE Marked(c))
    BY <1>5, PlainGroups
  <2>2. QED BY <1>1, <1>4, <2>1, PlainGroups, GroupsTogether
<1> DEFINE d == New(c)
<1>7. s.text \in Seq(TextLetters)
  BY DEF Kept
<1>8. MixedContent(d) /\ SeamLaid(c, d, offset, AtomsBefore(c, offset, index), end, len)
  <2>1. GapMarks(w.store, c, offset, index) \subseteq Marks
    <3>1. \A i \in 1..Len(c.atoms) : w.store[c.atoms[i].atom].content.marks \subseteq Marks
      BY AtomsCarryMarks
    <3>2. QED BY <1>2, <1>3, <3>1, GapMarksAre
  <2> HIDE DEF offset, index, end
  <2>2. QED BY <1>1, <1>2, <1>7, <2>1, ReplaceInlineTextKeeps, ReplaceInlineTextLaid
<1>16. r.store = Rewrite(w.store, n, d)
  BY <1>1
<1> HIDE DEF d, New, n
<1>9. /\ EditedAlone(w.store, r.store, n) /\ DOMAIN r.store = DOMAIN w.store
      /\ r.store[n].content = d /\ n \in Nat
  BY <1>2, <1>8, <1>16, RewriteEdits
<1>10. /\ Touches(m, {n}) /\ m.map = "InlineTextReplaced"
  BY DEF Touches, InlineTextReplaced
<1>11. m = InlineTextReplaced(n, offset, end, len, index)
  OBVIOUS
<1> HIDE DEF m, n, offset, index, end, len
<1>12. ASSUME NEW bias \in Biases
       PROVE  /\ \A p : At(p, n, c) => At(MapInlinePoint(m, p, bias), n, d)
              /\ \A p : TextAt(p, n, c) => TextAt(MapTextPoint(m, p, bias), n, d)
  BY <1>2, <1>3, <1>8, <1>9, <1>11, InlineTextReplacedCarries
<1>13. OverMap(w.store, m, r.store)
  BY <1>2, <1>9, <1>10, <1>12, EditAloneCarries
<1>14. QED BY <1>1, <1>6, <1>9, <1>13 DEF Relocated, StepCarries

\* A list as long as another.
LEMMA SameLength ==
  ASSUME NEW T, NEW s \in Seq(T), NEW q, DOMAIN q = DOMAIN s, q = [i \in DOMAIN q |-> q[i]]
  PROVE  Len(q) = Len(s)
<1> DEFINE k == Len(s)
           U == {q[i] : i \in 1..k}
<1>1. k \in Nat /\ DOMAIN q = 1..k
  OBVIOUS
<1> HIDE DEF k
<1>2. q \in Seq(U) /\ Len(q) = k
  BY <1>1
<1>3. QED BY <1>2 DEF k

\* Marks change neither the length of the text nor the atoms.
LEMMA MarksLaid ==
  ASSUME NEW c, MixedContent(c), NEW start, NEW end, NEW kind, NEW mark, NEW d,
         d = AddMark(c, start, end, mark) \/ d = RemoveMark(c, start, end, kind)
  PROVE  Len(d.text) = Len(c.text) /\ d.atoms = c.atoms
<1> DEFINE added(ms) == WithoutKind(ms, mark.kind) \cup {mark}
           removed(ms) == WithoutKind(ms, kind)
           adds == [i \in DOMAIN c.text |->
                      IF i \in (start + 1)..end
                      THEN [c.text[i] EXCEPT !.marks = added(@)] ELSE c.text[i]]
           removes == [i \in DOMAIN c.text |->
                      IF i \in (start + 1)..end
                      THEN [c.text[i] EXCEPT !.marks = removed(@)] ELSE c.text[i]]
<1>1. c = Inline(c.text, c.atoms) /\ c.text \in Seq(MarkedLetters)
  BY DEF MixedContent
<1>2. d = [c EXCEPT !.text = adds] \/ d = [c EXCEPT !.text = removes]
  BY DEF AddMark, RemoveMark, OnRange
<1>3. /\ DOMAIN adds = DOMAIN c.text /\ adds = [i \in DOMAIN adds |-> adds[i]]
      /\ DOMAIN removes = DOMAIN c.text /\ removes = [i \in DOMAIN removes |-> removes[i]]
  OBVIOUS
<1> HIDE DEF adds, removes
<1>4. d.text \in {adds, removes} /\ d.atoms = c.atoms
  BY <1>1, <1>2 DEF Inline
<1>5. Len(adds) = Len(c.text) /\ Len(removes) = Len(c.text)
  BY <1>1, <1>3, SameLength
<1>6. QED BY <1>4, <1>5

\* Marks put on text, or taken off it.
LEMMA MarksMove ==
  ASSUME NEW w, NEW s, IsDocument(w.store), Kept(s), NEW r, IsDocument(r.store),
         \/ s.op = "AddMark" /\ r \in ApplyAddMark(w, s)
         \/ r \in ApplyRemoveMark(w, s)
  PROVE  Relocated(w.store, r, {})
<1> DEFINE n == s.node
           Off == RemoveMarkStep(s.node, s.start, s.end, s.mark.kind)
           Revived(c, kind) == ReviveMarks(s.node, kind, SpansWithin(c, s.start, s.end))
           Adds(c) == AddMark(c, s.start, s.end, s.mark)
           Removes(c) == RemoveMark(c, s.start, s.end, s.kind)
<1>1. ASSUME NEW c \in Ranged(w, s), NEW kind PROVE Plain(Revived(c, kind))
  <2>1. s.start \in Int /\ s.end \in Int
    BY DEF Ranged, ValidOffset
  <2>2. PICK k \in Nat : DOMAIN SpansWithin(c, s.start, s.end) = 1..k
    BY <2>1, SpansAreListed
  <2>3. QED BY <2>2, ReviveIs, PlainGroups
<1>2. Plain(<<Off>>)
  <2>1. BroughtBack(Off) = {}
    BY DEF RemoveMarkStep, BroughtBack
  <2> HIDE DEF Off
  <2>2. QED BY <2>1, PlainGroups
<1>3. PICK c \in Ranged(w, s) : \E d :
        /\ (s.op = "AddMark" /\ d = Adds(c)) \/ d = Removes(c)
        /\ r.store = Rewrite(w.store, n, d)
        /\ r.maps = <<>>
        /\ Listing(r.inverse) /\ Gone(r.inverse) = {} /\ Once(r.inverse)
  <2> HIDE DEF Off, Revived, Adds, Removes, n
  <2>1. CASE s.op = "AddMark" /\ r \in ApplyAddMark(w, s)
    <3>1. PICK c \in Ranged(w, s) :
            r = Done(Rewrite(w.store, n, Adds(c)), w.next, <<>>,
                     IF s.start = s.end THEN <<>> ELSE <<Off>> \o Revived(c, s.mark.kind))
      BY <2>1 DEF ApplyAddMark, n, Off, Revived, Adds
    <3>2. r.store = Rewrite(w.store, n, Adds(c)) /\ r.maps = <<>>
          /\ r.inverse = IF s.start = s.end THEN <<>> ELSE <<Off>> \o Revived(c, s.mark.kind)
      BY <3>1 DEF Done
    <3>3. Plain(Revived(c, s.mark.kind))
      BY <1>1
    <3>4. Listing(r.inverse) /\ Gone(r.inverse) = {} /\ Once(r.inverse)
      BY <1>2, <3>2, <3>3, PlainGroups, GroupsTogether
    <3>5. QED BY <2>1, <3>2, <3>4
  <2>2. CASE r \in ApplyRemoveMark(w, s)
    <3>1. PICK c \in Ranged(w, s) :
            r = Done(Rewrite(w.store, n, Removes(c)), w.next, <<>>, Revived(c, s.kind))
      BY <2>2 DEF ApplyRemoveMark, n, Revived, Removes
    <3>2. r.store = Rewrite(w.store, n, Removes(c)) /\ r.maps = <<>>
          /\ r.inverse = Revived(c, s.kind)
      BY <3>1 DEF Done
    <3>3. Listing(r.inverse) /\ Gone(r.inverse) = {} /\ Once(r.inverse)
      BY <1>1, <3>2, PlainGroups
    <3>4. QED BY <3>2, <3>3
  <2>3. QED BY <2>1, <2>2
<1>4. PICK d : /\ (s.op = "AddMark" /\ d = Adds(c)) \/ d = Removes(c)
               /\ r.store = Rewrite(w.store, n, d)
               /\ r.maps = <<>>
               /\ Listing(r.inverse) /\ Gone(r.inverse) = {} /\ Once(r.inverse)
  BY <1>3
<1>5. /\ n \in DOMAIN w.store /\ c = w.store[n].content
      /\ c.shape = "inline" /\ MixedContent(c)
  <2>1. c \in InlineOf(w.store, n)
    BY DEF Ranged
  <2>2. QED BY <2>1, InlineIs
<1>6. MixedContent(d)
  <2>1. s.op = "AddMark" => s.mark \in Marks
    BY DEF Kept
  <2>2. QED BY <1>4, <1>5, <2>1, MarksChange
<1>7. Len(d.text) = Len(c.text) /\ d.atoms = c.atoms
  BY <1>4, <1>5, MarksLaid
<1> HIDE DEF n, Adds, Removes
<1>8. EditedAlone(w.store, r.store, n) /\ DOMAIN r.store = DOMAIN w.store
      /\ r.store[n].content = d
  BY <1>4, <1>5, <1>6, RewriteEdits
<1>9. \A p : /\ At(p, n, w.store[n].content) => At(p, n, r.store[n].content)
             /\ TextAt(p, n, w.store[n].content) => TextAt(p, n, r.store[n].content)
  <2>1. \A p : At(p, n, c) => At(p, n, d)
    BY <1>7 DEF At, Gap, ValidGap, ValidOffset, AtomCountAt
  <2>2. \A p : TextAt(p, n, c) => TextAt(p, n, d)
    BY <1>7 DEF TextAt
  <2>3. QED BY <1>5, <1>8, <2>1, <2>2
<1>10. InPlace(w.store, r.store)
  BY <1>8, <1>9, MarksInPlace
<1>11. QED BY <1>4, <1>8, <1>10 DEF Relocated, StepCarries

\* The marks of an atom are set.
LEMMA SetInlineAtomMarksMoves ==
  ASSUME NEW w, NEW s, IsDocument(w.store), Kept(s), s.op = "SetInlineAtomMarks",
         NEW r \in ApplySetInlineAtomMarks(w, s), IsDocument(r.store)
  PROVE  Relocated(w.store, r, {})
<1>1. PICK c \in ContentIn(w.store, s.node, "atom") :
        /\ r.store = Rewrite(w.store, s.node, AtomContent(s.marks)) /\ r.maps = <<>>
        /\ r.inverse = <<SetInlineAtomMarksStep(s.node, c.marks)>>
  BY DEF ApplySetInlineAtomMarks, Done
<1>2. Listing(r.inverse) /\ Gone(r.inverse) = {} /\ Once(r.inverse)
  <2> DEFINE back == SetInlineAtomMarksStep(s.node, c.marks)
  <2>1. BroughtBack(back) = {}
    BY DEF SetInlineAtomMarksStep, BroughtBack
  <2>2. r.inverse = <<back>>
    BY <1>1
  <2> HIDE DEF back
  <2>3. QED BY <2>1, <2>2, PlainGroups
<1> DEFINE n == s.node
           d == AtomContent(s.marks)
           before == w.store
           after == r.store
<1>3. n \in DOMAIN before /\ before[n].content.shape = "atom"
  BY DEF ContentIn
<1>4. Fits(d, "atom") /\ d.shape = "atom"
  BY DEF Fits, AtomContent, Kept
<1>5. after = Rewrite(before, n, d)
  BY <1>1
<1>6. IsDocument(before) /\ IsDocument(after) /\ MadeOf(before)
  BY DocumentIs
<1> HIDE DEF n, d, before, after
<1>7. /\ DOMAIN after = DOMAIN before /\ after[n].content = d
      /\ \A k \in DOMAIN before \ {n} : after[k] = before[k]
  BY <1>3, <1>4, <1>5, <1>6, RewriteMade
<1>8. /\ \A k \in InlineNodes(before) : k \in InlineNodes(after) /\ after[k] = before[k]
      /\ \A k \in Parents(before) : k \in Parents(after) /\ after[k] = before[k]
  BY <1>3, <1>7 DEF InlineNodes, Parents
<1>9. InlineGaps(before) \subseteq InlineGaps(after)
  BY <1>6, <1>8, PlacesAre
<1>10. TextGaps(before) \subseteq TextGaps(after)
  BY <1>6, <1>8, PlacesAre
<1>11. NodeGaps(before) \subseteq NodeGaps(after)
  <2>1. \A k \in Parents(before) : \A g : Between(g, k, before) => Between(g, k, after)
    BY <1>8 DEF Between
  <2>2. QED BY <1>6, <1>8, <2>1, PlacesAre
<1>12. InPlace(before, after)
  BY <1>7, <1>9, <1>10, <1>11 DEF InPlace
<1>13. QED BY <1>1, <1>2, <1>7, <1>12 DEF Relocated, StepCarries, before, after

\* An atom is placed.
LEMMA PlaceAtomMoves ==
  ASSUME NEW w, IsDocument(w.store), NEW at, NEW id \in Nat, id \notin DOMAIN w.store,
         NEW node, NodeOK(node) => WellMade(node), NEW next,
         NEW r \in PlaceAtom(w, at, id, node, next), IsDocument(r.store)
  PROVE  Relocated(w.store, r, {id})
<1> DEFINE n == at.node
           offset == at.offset
           index == at.index
           m == InlineAtomInserted(n, offset, index)
           before == w.store
           after == r.store
           Base(c) == Rewrite(before, n, AttachAtom(c, offset, index, id))
<1>1. PICK c \in InlineOf(before, n) :
        /\ ValidGap(c, offset, index) /\ NodeOK(node)
        /\ after = WithNode(Base(c), id, node)
        /\ r.maps = <<m>>
        /\ r.inverse = <<NodeStep("RemoveInlineAtom", id)>>
  BY DEF PlaceAtom, Done
<1>2. IsDocument(before) /\ IsDocument(after) /\ id \notin DOMAIN before
  OBVIOUS
<1>3. Touches(m, {n}) /\ m.map = "InlineAtomInserted"
  BY DEF Touches, InlineAtomInserted
<1>4. m = InlineAtomInserted(n, offset, index)
  OBVIOUS
<1> DEFINE d == AttachAtom(c, offset, index, id)
           base == Base(c)
<1>5. base = Rewrite(before, n, d)
  OBVIOUS
<1> HIDE DEF n, offset, index, m, Base
<1>6. /\ n \in DOMAIN before /\ c = before[n].content
      /\ c.shape = "inline" /\ MixedContent(c)
  BY <1>2, InlineIs, <1>1
<1>7. MadeOf(before) /\ Placed(before) /\ WellMade(before[n]) /\ n \in Nat
  BY <1>2, <1>6, DocumentIs DEF MadeOf
<1>8. MixedContent(d)
  <2>1. id \notin AtomsOf(c)
    BY <1>2, <1>6, <1>7, NodeIs DEF Placed
  <2>2. QED BY <1>1, <1>6, <2>1, AttachKeeps
<1>9. AttachedLaid(c, d, offset, AtomsBefore(c, offset, index) + 1)
  BY <1>1, <1>6, AttachLaid
<1> HIDE DEF d, base, before, after
<1>10. /\ EditedAlone(before, base, n) /\ MadeOf(base)
       /\ DOMAIN base = DOMAIN before /\ base[n].content = d
  <2>1. Fits(d, "inline")
    BY <1>8, Laid DEF Fits
  <2>2. MadeOf(base)
    BY <1>5, <1>6, <1>7, <2>1, RewriteMade
  <2>3. QED BY <1>2, <1>5, <1>6, <1>8, <2>2, RewriteEdits
<1>11. /\ DOMAIN after = DOMAIN before \cup {id}
       /\ \A k \in DOMAIN before : after[k] = base[k]
  <2>1. WellMade(node) /\ after = WithNode(base, id, node)
    BY <1>1 DEF base
  <2>2. QED BY <1>2, <1>10, <2>1, WithNodeMade
<1>12. EditedAlone(before, after, n) /\ after[n].content = d
  <2>1. after[n].content = d
    BY <1>6, <1>10, <1>11
  <2>2. QED BY <1>10, <1>11, <2>1 DEF EditedAlone, Edited, Same, InlineNodes
<1>13. ASSUME NEW bias \in Biases
       PROVE  /\ \A p : At(p, n, c) => At(MapInlinePoint(m, p, bias), n, d)
              /\ \A p : TextAt(p, n, c) => TextAt(MapTextPoint(m, p, bias), n, d)
  BY <1>1, <1>4, <1>6, <1>7, <1>8, <1>9, AtomInsertedCarries
<1>14. OverMap(before, m, after)
  BY <1>2, <1>3, <1>6, <1>12, <1>13, EditAloneCarries
<1>15. Listing(r.inverse) /\ Gone(r.inverse) = {} /\ Once(r.inverse)
  <2> DEFINE back == NodeStep("RemoveInlineAtom", id)
  <2>1. BroughtBack(back) = {}
    BY DEF NodeStep, BroughtBack
  <2>2. r.inverse = <<back>>
    BY <1>1
  <2> HIDE DEF back
  <2>3. QED BY <2>1, <2>2, PlainGroups
<1>16. Relocated(before, r, {id})
  <2>1. StepCarries(before, r.maps, after)
    BY <1>1, <1>14 DEF StepCarries
  <2>2. QED BY <1>2, <1>11, <1>15, <2>1 DEF Relocated, after
<1>17. QED BY <1>16 DEF before

\* An atom is taken out.
LEMMA RemoveInlineAtomMoves ==
  ASSUME NEW w, NEW s, IsDocument(w.store),
         NEW r \in ApplyRemoveInlineAtom(w, s), IsDocument(r.store)
  PROVE  Relocated(w.store, r, {})
<1> DEFINE C(p) == w.store[p[1]].content
           Spot(p) == InlinePoint(p[1], C(p).atoms[p[2]].offset, Ordinal(C(p), p[2]))
           Map(p) == InlineAtomRemoved(Spot(p).node, Spot(p).offset, Spot(p).index, s.node)
<1>1. PICK p \in Placings(w.store, s.node) :
        /\ r.store = Without(Rewrite(w.store, p[1], DetachAtom(C(p), p[2])), {s.node})
        /\ r.maps = <<Map(p)>>
        /\ r.inverse = <<RestoreInlineAtomStep(Spot(p), s.node, w.store[s.node])>>
  <2>1. PICK p \in {p \in Placings(w.store, s.node) :
                      s.node \in DOMAIN w.store /\ w.store[s.node].kind \in AtomKinds} :
          r = Done(Without(Rewrite(w.store, p[1], DetachAtom(C(p), p[2])), {s.node}), w.next,
                   <<Map(p)>>, <<RestoreInlineAtomStep(Spot(p), s.node, w.store[s.node])>>)
    BY DEF ApplyRemoveInlineAtom
  <2> HIDE DEF C, Spot, Map
  <2>2. QED BY <2>1 DEF Done
<1> DEFINE n == p[1]
           k == p[2]
           c == C(p)
           atom == s.node
           gone == {atom}
           d == DetachAtom(c, k)
           m == Map(p)
           before == w.store
           after == r.store
           base == Rewrite(before, n, d)
<1>2. m = InlineAtomRemoved(n, c.atoms[k].offset, Ordinal(c, k), atom)
  BY DEF InlinePoint
<1>3. /\ after = Without(base, gone) /\ r.maps = <<m>>
      /\ \E here : r.inverse = <<RestoreInlineAtomStep(here, atom, before[atom])>>
  BY <1>1
<1>4. PICK e \in InlineOf(before, n) : k \in DOMAIN e.atoms /\ e.atoms[k].atom = atom
  BY DEF Placings
<1>5. IsDocument(before) /\ IsDocument(after)
  OBVIOUS
<1>6. c = before[n].content /\ base = Rewrite(before, n, d) /\ gone = {atom}
  OBVIOUS
<1>7. d = DetachAtom(c, k)
  OBVIOUS
<1> HIDE DEF C, Spot, Map, n, k, c, gone, d, m, before, after, base, atom
<1>8. n \in DOMAIN before /\ c.shape = "inline" /\ MixedContent(c) /\ e = c
  BY <1>4, <1>5, <1>6, InlineIs
<1>9. k \in 1..Len(c.atoms) /\ c.atoms[k].atom = atom
  BY <1>4, <1>8, Laid
<1>10. MadeOf(before) /\ n \in Nat
  BY <1>5, <1>8, DocumentIs DEF MadeOf
<1>11. /\ atom \in DOMAIN before /\ atom \in Nat
       /\ WellMade(before[atom]) /\ before[atom].kind \in AtomKinds
  <2>1. k \in DOMAIN before[n].content.atoms /\ before[n].content.shape = "inline"
    BY <1>4, <1>6, <1>8
  <2>2. /\ atom \in DOMAIN before /\ WellMade(before[atom])
        /\ before[atom].kind \in AtomKinds
    BY <1>5, <1>6, <1>8, <1>9, <2>1, AtomLeaves
  <2>3. QED BY <1>10, <2>2 DEF MadeOf
<1>12. before[atom].content.shape = "atom"
  BY <1>11, NodeIs, ShapesAre
<1>13. MixedContent(d) /\ DetachedLaid(c, d, k)
  BY <1>7, <1>8, <1>9, DetachKeeps, DetachLaid
<1>14. /\ EditedAlone(before, base, n) /\ MadeOf(base)
       /\ DOMAIN base = DOMAIN before /\ base[n].content = d
  <2>1. Fits(d, "inline")
    BY <1>13, Laid DEF Fits
  <2>2. MadeOf(base)
    BY <1>6, <1>8, <1>10, <2>1, RewriteMade
  <2>3. QED BY <1>5, <1>6, <1>8, <1>13, <2>2, RewriteEdits
<1>15. /\ DOMAIN after = DOMAIN before \ gone
       /\ \A id \in DOMAIN before \ gone : after[id] = base[id]
  BY <1>3, <1>14, WithoutMade
<1>16. n \notin gone
  BY <1>6, <1>8, <1>12
<1>17. Edited(before, after, n, gone) /\ after[n].content = d
  <2>1. after[n].content = d
    BY <1>8, <1>14, <1>15, <1>16
  <2>2. \A id \in gone \cap DOMAIN before : before[id].content.shape = "atom"
    BY <1>6, <1>12
  <2>3. QED BY <1>14, <1>15, <1>16, <2>1, <2>2 DEF EditedAlone, Edited, Same, InlineNodes
<1>18. /\ Touches(m, {n}) /\ m.map = "InlineAtomRemoved"
       /\ \A id : MapNodeSelection(m, id) = IF id \in gone THEN Deleted ELSE id
  BY <1>2, <1>6 DEF Touches, InlineAtomRemoved, MapNodeSelection
<1>19. ASSUME NEW bias \in Biases
       PROVE  /\ \A q : At(q, n, c) => At(MapInlinePoint(m, q, bias), n, d)
              /\ \A q : TextAt(q, n, c) => TextAt(MapTextPoint(m, q, bias), n, d)
  BY <1>2, <1>8, <1>9, <1>10, <1>13, AtomRemovedCarries
<1>20. OverMap(before, m, after)
  BY <1>5, <1>6, <1>17, <1>18, <1>19, EditCarries
<1>21. Listing(r.inverse) /\ Gone(r.inverse) = gone /\ Once(r.inverse)
  <2>1. PICK here : r.inverse = <<RestoreInlineAtomStep(here, atom, before[atom])>>
    BY <1>3
  <2> DEFINE back == RestoreInlineAtomStep(here, atom, before[atom])
  <2>2. BroughtBack(back) = gone
    BY <1>6 DEF RestoreInlineAtomStep, BroughtBack
  <2>3. r.inverse = <<back>>
    BY <2>1
  <2> HIDE DEF back
  <2>4. QED BY <2>2, <2>3, OneStepGroup
<1>22. Relocated(before, r, {})
  <2>1. StepCarries(before, r.maps, after)
    BY <1>3, <1>20 DEF StepCarries
  <2>2. gone \subseteq DOMAIN before
    BY <1>6, <1>11
  <2>3. QED BY <1>15, <1>21, <2>1, <2>2 DEF Relocated, after
<1>23. QED BY <1>22 DEF before

\* Node n was cut in two: the tail entered as x, one more child of p.
TailEntered(before, after, p, n, x, head, tail) ==
  /\ DOMAIN after = DOMAIN before \cup {x} /\ x \notin DOMAIN before
  /\ n \in InlineNodes(before) /\ n \in InlineNodes(after) /\ x \in InlineNodes(after)
  /\ after[n].content = head /\ after[x].content = tail
  /\ p \in Parents(before) /\ p \in Parents(after)
  /\ Len(Kids(before[p])) \in Nat /\ Len(Kids(after[p])) = Len(Kids(before[p])) + 1
  /\ \A id \in DOMAIN before \ {n, p} : after[id] = before[id]

\* The document after a node is cut in two.
CutStore(store, n, head, p, at, x, tail) ==
  WithNode(Insert(Rewrite(store, n, head), p, at, x), x, tail)

LEMMA TailEnteredIs ==
  ASSUME NEW store, IsDocument(store), NEW n \in DOMAIN store,
         store[n].content.shape = "inline", NEW p \in ParentsOf(store, n),
         NEW head, MixedContent(head), NEW at, at = IndexIn(store, p, n),
         NEW x \in Nat, x \notin DOMAIN store,
         NEW tail, WellMade(tail), MixedContent(tail.content),
         NEW after, after = CutStore(store, n, head, p, at, x, tail)
  PROVE  /\ TailEntered(store, after, p, n, x, head, tail.content)
         /\ at \in 0..Len(Kids(store[p]))
<1> DEFINE cut == Rewrite(store, n, head)
           kids == InsertAt(Kids(store[p]), at + 1, x)
           base == Insert(cut, p, at, x)
<1>1. MadeOf(store) /\ WellMade(store[n])
  BY DocumentIs DEF MadeOf
<1>2. /\ p \in DOMAIN store /\ store[p].content.shape = "children" /\ p # n
      /\ n \in Range(Kids(store[p]))
  BY ParentIs
<1>3. Fits(head, "inline") /\ head.shape = "inline" /\ tail.content.shape = "inline"
  BY Laid DEF Fits
<1>4. /\ MadeOf(cut) /\ DOMAIN cut = DOMAIN store /\ cut[n].content = head
      /\ \A other \in DOMAIN store \ {n} : cut[other] = store[other]
  BY <1>1, <1>3, RewriteMade
<1>5. Kids(store[p]) \in Seq(Nat) /\ at \in 1..Len(Kids(store[p])) /\ Len(Kids(store[p])) \in Nat
  <2>1. WellMade(store[p])
    BY <1>1, <1>2 DEF MadeOf
  <2>2. Kids(store[p]) \in Seq(Nat)
    BY <1>2, <2>1, NodeIs
  <2>3. at \in DOMAIN Kids(store[p])
    BY <1>2, IndexIs
  <2>4. QED BY <2>2, <2>3
<1>6. base = Rewrite(cut, p, Children(kids))
  BY <1>2, <1>4 DEF Insert
<1>7. after = WithNode(base, x, tail)
  BY DEF CutStore
<1> HIDE DEF cut, base
<1>8. kids \in Seq(Nat) /\ Len(kids) = Len(Kids(store[p])) + 1
  <2> DEFINE s == Kids(store[p])
             k == at + 1
  <2>1. s \in Seq(Nat) /\ k \in 1..(Len(s) + 1)
    BY <1>5
  <2> HIDE DEF s, k
  <2>2. InsertAt(s, k, x) \in Seq(Nat) /\ Len(InsertAt(s, k, x)) = Len(s) + 1
    BY <2>1, Inserted
  <2>3. QED BY <2>2 DEF s, k
<1> HIDE DEF kids
<1>9. /\ MadeOf(base) /\ DOMAIN base = DOMAIN store
      /\ base[p].content.shape = "children" /\ Kids(base[p]) = kids
      /\ \A other \in DOMAIN store \ {p} : base[other] = cut[other]
  <2>1. cut[p].content.shape = "children" /\ p \in DOMAIN cut
    BY <1>2, <1>4
  <2>2. QED BY <1>4, <1>6, <1>8, <2>1, Refilled
<1>10. /\ DOMAIN after = DOMAIN store \cup {x} /\ after[x] = tail
       /\ \A id \in DOMAIN store : after[id] = base[id]
  BY <1>7, <1>9, WithNodeMade
<1>11. /\ after[n].content = head /\ after[x].content = tail.content
       /\ after[p].content.shape = "children" /\ Kids(after[p]) = kids
       /\ \A id \in DOMAIN store \ {n, p} : after[id] = store[id]
  BY <1>2, <1>4, <1>9, <1>10
<1>12. TailEntered(store, after, p, n, x, head, tail.content)
  BY <1>2, <1>3, <1>5, <1>8, <1>10, <1>11 DEF TailEntered, InlineNodes, Parents
<1>13. QED BY <1>5, <1>12

LEMMA TailEnteredCarries ==
  ASSUME NEW before, IsDocument(before), NEW after, IsDocument(after),
         NEW p, NEW n, NEW x, NEW head, NEW tail,
         TailEntered(before, after, p, n, x, head, tail),
         NEW m, m.map \in {"NodeSplit", "InlineNodeSplit"},
         m.parent = p, m.index \in 0..Len(Kids(before[p])), m.at.node = n,
         \A bias \in Biases :
           /\ \A q : At(q, n, before[n].content)
                       => \/ At(MapInlinePoint(m, q, bias), n, head)
                          \/ At(MapInlinePoint(m, q, bias), x, tail)
           /\ \A q : TextAt(q, n, before[n].content)
                       => \/ TextAt(MapTextPoint(m, q, bias), n, head)
                          \/ TextAt(MapTextPoint(m, q, bias), x, tail)
  PROVE  OverMap(before, m, after)
<1> DEFINE S == {n, p}
<1>1. Same(before, after, S)
  BY DEF TailEntered, Same
<1>2. S \cap InlineNodes(before) = {n}
  BY DEF TailEntered, InlineNodes, Parents
<1>3. Touches(m, S)
  BY DEF Touches
<1> HIDE DEF S
<1>4. ASSUME NEW bias \in Biases
      PROVE  /\ \A q \in InlineGaps(before) : MapInlinePoint(m, q, bias) \in InlineGaps(after)
             /\ \A q \in TextGaps(before) : MapTextPoint(m, q, bias) \in TextGaps(after)
  <2>1. \A q : q.node \notin S => MapInlinePoint(m, q, bias) = q /\ MapTextPoint(m, q, bias) = q
    BY <1>3, ElsewhereStays
  <2>2. /\ n \in InlineNodes(after) /\ after[n].content = head
        /\ x \in InlineNodes(after) /\ after[x].content = tail
    BY DEF TailEntered
  <2>3. \A k \in S \cap InlineNodes(before) : \A q : At(q, k, before[k].content) =>
          \E j \in InlineNodes(after) : At(MapInlinePoint(m, q, bias), j, after[j].content)
    BY <1>2, <1>4, <2>2
  <2>4. \A k \in S \cap InlineNodes(before) : \A q : TextAt(q, k, before[k].content) =>
          \E j \in InlineNodes(after) : TextAt(MapTextPoint(m, q, bias), j, after[j].content)
    BY <1>2, <1>4, <2>2
  <2>5. QED BY <1>1, <2>1, <2>3, <2>4, PointsCarried
<1>5. ASSUME NEW bias \in Biases
      PROVE  \A g \in NodeGaps(before) : MapNodeGap(m, g, bias) \in NodeGaps(after)
  <2>1. ASSUME NEW k \in Parents(before)
        PROVE  /\ k \in Parents(after)
               /\ \A g : Between(g, k, before) => Between(MapNodeGap(m, g, bias), k, after)
    <3>1. CASE k = p
      <4>1. k \in Parents(after)
        BY <3>1 DEF TailEntered
      <4>2. ASSUME NEW g, Between(g, k, before) PROVE Between(MapNodeGap(m, g, bias), k, after)
        <5> DEFINE l == Len(Kids(before[p]))
                   i == OverInsertion(g.index, m.index, 1, bias)
                   h == [g EXCEPT !.index = i]
        <5>1. /\ g \in [parent : Nat, index : Nat] /\ g.parent = p /\ g.index \in 0..l
              /\ l \in Nat /\ Len(Kids(after[p])) = l + 1 /\ m.index \in 0..l
          BY <3>1, <4>2 DEF Between, TailEntered
        <5>2. MapNodeGap(m, g, bias) = h
          BY <5>1 DEF MapNodeGap
        <5>3. i \in 0..(l + 1)
          BY <5>1 DEF OverInsertion
        <5> HIDE DEF i, l
        <5>4. h \in [parent : Nat, index : Nat] /\ h.parent = p /\ h.index = i
          BY <5>1, <5>3
        <5>5. QED BY <3>1, <5>1, <5>2, <5>3, <5>4 DEF Between
      <4>3. QED BY <4>1, <4>2
    <3>2. CASE k # p
      <4>1. k # n
        BY DEF TailEntered, InlineNodes, Parents
      <4>2. k \in DOMAIN after /\ after[k] = before[k]
        BY <3>2, <4>1 DEF TailEntered, Parents
      <4>3. k \in Parents(after)
        BY <4>2 DEF Parents
      <4>4. \A g : Between(g, k, before) => MapNodeGap(m, g, bias) = g
        BY <3>2 DEF Between, MapNodeGap
      <4>5. \A g : Between(g, k, before) => Between(g, k, after)
        BY <4>2 DEF Between
      <4>6. QED BY <4>3, <4>4, <4>5
    <3>3. QED BY <3>1, <3>2
  <2>2. QED BY <2>1, GapsCarried
<1>6. \A k \in DOMAIN before :
        MapNodeSelection(m, k) = IF k \in DOMAIN after THEN k ELSE Deleted
  BY DEF TailEntered, MapNodeSelection
<1>7. QED BY <1>4, <1>5, <1>6 DEF OverMap

\* A tail enters next to its head.
LEMMA SplitAtMoves ==
  ASSUME NEW w, IsDocument(w.store), NEW at, NEW c \in InlineOf(w.store, at.node),
         ValidGap(c, at.offset, at.index), NEW id \in Nat, id \notin DOMAIN w.store,
         NEW tail, WellMade(tail), tail.content = TailOf(c, at.offset, at.index),
         NEW next, NEW mixed \in BOOLEAN, ~mixed => c.atoms = <<>>,
         NEW r \in SplitAt(w, at, id, tail, next, mixed), IsDocument(r.store)
  PROVE  Relocated(w.store, r, {id})
<1> DEFINE n == at.node
           offset == at.offset
           index == at.index
           before == w.store
           after == r.store
           Place(p) == IndexIn(before, p, n)
           Opening == HeadOf(before[n].content, offset, index)
           Map(p) == IF mixed THEN InlineNodeSplit(p, Place(p), at, id)
                     ELSE NodeSplit(p, Place(p), n, offset, id)
<1>1. PICK p \in ParentsOf(before, n) :
        /\ after = WithNode(Insert(Rewrite(before, n, Opening), p, Place(p), id), id, tail)
        /\ r.maps = <<Map(p)>> /\ r.inverse = <<JoinNodesStep(n, id)>>
  <2> HIDE DEF Place, Opening, Map
  <2>1. PICK p \in ParentsOf(before, n) :
          r = Done(WithNode(Insert(Rewrite(before, n, Opening), p, Place(p), id), id, tail), next,
                   <<Map(p)>>, <<JoinNodesStep(n, id)>>)
    BY DEF SplitAt, Place, Opening, Map
  <2>2. QED BY <2>1 DEF Done
<1> DEFINE place == Place(p)
           m == Map(p)
           head == HeadOf(c, offset, index)
           k == AtomsBefore(c, offset, index)
<1>2. n \in DOMAIN before /\ c = before[n].content /\ c.shape = "inline" /\ MixedContent(c)
  BY InlineIs
<1>3. /\ IsDocument(before) /\ IsDocument(after) /\ id \notin DOMAIN before
      /\ ValidGap(c, offset, index) /\ tail.content = TailOf(c, offset, index)
      /\ at.node = n /\ at.offset = offset /\ at.index = index
  OBVIOUS
<1>4. place = IndexIn(before, p, n)
  OBVIOUS
<1>5. after = WithNode(Insert(Rewrite(before, n, head), p, place, id), id, tail)
  BY <1>1, <1>2
<1>6. m = IF mixed THEN InlineNodeSplit(p, place, at, id) ELSE NodeSplit(p, place, n, offset, id)
  OBVIOUS
<1>7. r.maps = <<m>>
  BY <1>1
<1> HIDE DEF n, offset, index, before, after, Place, Opening, Map, place, m
<1>8. MixedContent(head) /\ MixedContent(tail.content)
  BY <1>2, <1>3, CutKeeps
<1>9. CutApart(c, head, tail.content, offset, k)
  BY <1>2, <1>3, CutLaid
<1> HIDE DEF head, k
<1>10. n \in Nat /\ offset \in 0..Len(c.text)
  <2>1. MadeOf(before)
    BY <1>3, DocumentIs
  <2>2. QED BY <1>2, <1>3, <2>1 DEF MadeOf, ValidGap, ValidOffset
<1>11. /\ TailEntered(before, after, p, n, id, head, tail.content)
       /\ place \in 0..Len(Kids(before[p]))
  BY <1>1, <1>2, <1>3, <1>4, <1>5, <1>8, TailEnteredIs DEF CutStore
<1>12. /\ m.map \in {"NodeSplit", "InlineNodeSplit"}
       /\ m.parent = p /\ m.index = place /\ m.at.node = n
  BY <1>3, <1>6 DEF InlineNodeSplit, NodeSplit, InlinePoint
<1>13. ASSUME NEW bias \in Biases
       PROVE  /\ \A q : At(q, n, c) => \/ At(MapInlinePoint(m, q, bias), n, head)
                                       \/ At(MapInlinePoint(m, q, bias), id, tail.content)
              /\ \A q : TextAt(q, n, c) => \/ TextAt(MapTextPoint(m, q, bias), n, head)
                                           \/ TextAt(MapTextPoint(m, q, bias), id, tail.content)
  <2> DEFINE behind == tail.content
  <2>1. MixedContent(behind) /\ CutApart(c, head, behind, offset, k)
    BY <1>8, <1>9
  <2> HIDE DEF behind
  <2>2. CASE mixed
    <3>1. m = InlineNodeSplit(p, place, at, id)
      BY <1>6, <2>2
    <3>2. CutApart(c, head, behind, offset, AtomsBefore(c, offset, index))
      BY <2>1 DEF k
    <3>3. QED BY <1>2, <1>3, <1>8, <1>10, <1>13, <2>1, <3>1, <3>2, InlineSplitCarries DEF behind
  <2>3. CASE ~mixed
    <3>1. m = NodeSplit(p, place, n, offset, id) /\ c.atoms = <<>>
      BY <1>6, <2>3
    <3>2. QED BY <1>2, <1>8, <1>10, <1>13, <2>1, <3>1, SplitCarries DEF behind
  <2>4. QED BY <2>2, <2>3
<1>14. OverMap(before, m, after)
  <2> DEFINE behind == tail.content
  <2>1. TailEntered(before, after, p, n, id, head, behind)
    BY <1>11
  <2>2. \A bias \in Biases :
          /\ \A q : At(q, n, before[n].content)
                      => \/ At(MapInlinePoint(m, q, bias), n, head)
                         \/ At(MapInlinePoint(m, q, bias), id, behind)
          /\ \A q : TextAt(q, n, before[n].content)
                      => \/ TextAt(MapTextPoint(m, q, bias), n, head)
                         \/ TextAt(MapTextPoint(m, q, bias), id, behind)
    BY <1>2, <1>13
  <2> HIDE DEF behind
  <2>3. QED BY <1>3, <1>11, <1>12, <2>1, <2>2, TailEnteredCarries
<1>15. Listing(r.inverse) /\ Gone(r.inverse) = {} /\ Once(r.inverse)
  <2> DEFINE back == JoinNodesStep(n, id)
  <2>1. BroughtBack(back) = {}
    BY DEF JoinNodesStep, BroughtBack
  <2>2. r.inverse = <<back>>
    BY <1>1
  <2> HIDE DEF back
  <2>3. QED BY <2>1, <2>2, PlainGroups
<1>16. Relocated(before, r, {id})
  <2>1. StepCarries(before, r.maps, after)
    BY <1>7, <1>14 DEF StepCarries
  <2>2. DOMAIN after = DOMAIN before \cup {id}
    BY <1>11 DEF TailEntered
  <2>3. QED BY <1>3, <1>15, <2>1, <2>2 DEF Relocated, after
<1>17. QED BY <1>16 DEF before

\* Node x left p for node n, which holds the content of both.
TailGone(before, after, p, n, x, both) ==
  /\ DOMAIN after = DOMAIN before \ {x} /\ x \in DOMAIN before /\ n # x
  /\ n \in InlineNodes(before) /\ x \in InlineNodes(before) /\ n \in InlineNodes(after)
  /\ after[n].content = both
  /\ p \in Parents(before) /\ p \in Parents(after)
  /\ Len(Kids(before[p])) \in Nat /\ Len(Kids(after[p])) = Len(Kids(before[p])) - 1
  /\ \A id \in DOMAIN before \ {n, p, x} : id \in DOMAIN after /\ after[id] = before[id]

\* The document after a node's neighbour x was joined to it.
JoinedStore(store, n, both, p, x) ==
  Without(Detach(Rewrite(store, n, both), p, x), {x})

LEMMA TailGoneIs ==
  ASSUME NEW store, IsDocument(store), NEW n \in DOMAIN store, NEW x \in DOMAIN store, n # x,
         store[n].content.shape = "inline", store[x].content.shape = "inline",
         NEW p \in ParentsOf(store, n), x \in Range(Kids(store[p])),
         NEW both, MixedContent(both),
         NEW after, after = JoinedStore(store, n, both, p, x)
  PROVE  /\ TailGone(store, after, p, n, x, both)
         /\ IndexIn(store, p, n) \in 1..Len(Kids(store[p]))
         /\ IndexIn(store, p, x) \in 1..Len(Kids(store[p]))
<1> DEFINE cut == Rewrite(store, n, both)
           at == IndexIn(store, p, x)
           kids == RemoveAt(Kids(store[p]), at)
           base == Detach(cut, p, x)
           gone == {x}
<1>1. MadeOf(store)
  BY DocumentIs
<1>2. /\ p \in DOMAIN store /\ store[p].content.shape = "children" /\ p # n /\ p # x
      /\ n \in Range(Kids(store[p]))
  BY ParentIs
<1>3. Fits(both, "inline") /\ both.shape = "inline"
  BY Laid DEF Fits
<1>4. /\ MadeOf(cut) /\ DOMAIN cut = DOMAIN store /\ cut[n].content = both
      /\ \A other \in DOMAIN store \ {n} : cut[other] = store[other]
  BY <1>1, <1>3, RewriteMade
<1>5. /\ Kids(store[p]) \in Seq(Nat) /\ Len(Kids(store[p])) \in Nat
      /\ at \in 1..Len(Kids(store[p])) /\ IndexIn(store, p, n) \in 1..Len(Kids(store[p]))
  <2>1. WellMade(store[p])
    BY <1>1, <1>2 DEF MadeOf
  <2>2. Kids(store[p]) \in Seq(Nat)
    BY <1>2, <2>1, NodeIs
  <2>3. at \in DOMAIN Kids(store[p]) /\ IndexIn(store, p, n) \in DOMAIN Kids(store[p])
    BY <1>2, IndexIs
  <2>4. QED BY <2>2, <2>3
<1>6. base = Rewrite(cut, p, Children(kids))
  <2>1. cut[p] = store[p]
    BY <1>2, <1>4
  <2>2. IndexIn(cut, p, x) = at
    BY <2>1 DEF IndexIn
  <2>3. QED BY <2>1, <2>2 DEF Detach
<1>7. after = Without(base, gone)
  BY DEF JoinedStore
<1> HIDE DEF cut, at, base
<1>8. kids \in Seq(Nat) /\ Len(kids) = Len(Kids(store[p])) - 1
  BY <1>5, Removed
<1> HIDE DEF kids
<1>9. /\ MadeOf(base) /\ DOMAIN base = DOMAIN store
      /\ base[p].content.shape = "children" /\ Kids(base[p]) = kids
      /\ \A other \in DOMAIN store \ {p} : base[other] = cut[other]
  <2>1. cut[p].content.shape = "children" /\ p \in DOMAIN cut
    BY <1>2, <1>4
  <2>2. QED BY <1>4, <1>6, <1>8, <2>1, Refilled
<1>10. DOMAIN after = DOMAIN store \ {x} /\ \A id \in DOMAIN store \ {x} : after[id] = base[id]
  <2> HIDE DEF gone
  <2>1. MadeOf(base)
    BY <1>9
  <2>2. /\ DOMAIN Without(base, gone) = DOMAIN base \ gone
        /\ \A id \in DOMAIN base \ gone : Without(base, gone)[id] = base[id]
    BY <2>1, WithoutMade
  <2>3. DOMAIN after = DOMAIN store \ gone /\ \A id \in DOMAIN store \ gone : after[id] = base[id]
    BY <1>7, <1>9, <2>2
  <2>4. QED BY <2>3 DEF gone
<1>11. /\ after[n].content = both
       /\ after[p].content.shape = "children" /\ Kids(after[p]) = kids
       /\ \A id \in DOMAIN store \ {n, p, x} : after[id] = store[id]
  BY <1>2, <1>4, <1>9, <1>10
<1>12. TailGone(store, after, p, n, x, both)
  BY <1>2, <1>3, <1>5, <1>8, <1>10, <1>11 DEF TailGone, InlineNodes, Parents
<1>13. QED BY <1>5, <1>12 DEF at

LEMMA TailGoneCarries ==
  ASSUME NEW before, IsDocument(before), NEW after, IsDocument(after),
         NEW p, NEW n, NEW x, NEW both, TailGone(before, after, p, n, x, both),
         NEW m, m.map \in {"NodeJoined", "InlineNodeJoined"},
         m.parent = p, m.index \in 1..(Len(Kids(before[p])) - 1),
         m.second = x, m.removed = {x},
         \A bias \in Biases :
           /\ \A q : At(q, n, before[n].content) => At(MapInlinePoint(m, q, bias), n, both)
           /\ \A q : TextAt(q, n, before[n].content) => TextAt(MapTextPoint(m, q, bias), n, both)
           /\ \A q : At(q, x, before[x].content) => At(MapInlinePoint(m, q, bias), n, both)
           /\ \A q : TextAt(q, x, before[x].content) => TextAt(MapTextPoint(m, q, bias), n, both)
  PROVE  OverMap(before, m, after)
<1> DEFINE S == {n, p, x}
<1>1. Same(before, after, S)
  BY DEF TailGone, Same
<1>2. S \cap InlineNodes(before) \subseteq {n, x}
  BY DEF TailGone, InlineNodes, Parents
<1>3. Touches(m, S)
  BY DEF Touches
<1> HIDE DEF S
<1>4. ASSUME NEW bias \in Biases
      PROVE  /\ \A q \in InlineGaps(before) : MapInlinePoint(m, q, bias) \in InlineGaps(after)
             /\ \A q \in TextGaps(before) : MapTextPoint(m, q, bias) \in TextGaps(after)
  <2>1. \A q : q.node \notin S => MapInlinePoint(m, q, bias) = q /\ MapTextPoint(m, q, bias) = q
    BY <1>3, ElsewhereStays
  <2>2. n \in InlineNodes(after) /\ after[n].content = both
    BY DEF TailGone
  <2>3. \A k \in S \cap InlineNodes(before) : \A q : At(q, k, before[k].content) =>
          \E j \in InlineNodes(after) : At(MapInlinePoint(m, q, bias), j, after[j].content)
    BY <1>2, <1>4, <2>2
  <2>4. \A k \in S \cap InlineNodes(before) : \A q : TextAt(q, k, before[k].content) =>
          \E j \in InlineNodes(after) : TextAt(MapTextPoint(m, q, bias), j, after[j].content)
    BY <1>2, <1>4, <2>2
  <2>5. QED BY <1>1, <2>1, <2>3, <2>4, PointsCarried
<1>5. ASSUME NEW bias \in Biases
      PROVE  \A g \in NodeGaps(before) : MapNodeGap(m, g, bias) \in NodeGaps(after)
  <2>1. ASSUME NEW k \in Parents(before)
        PROVE  /\ k \in Parents(after)
               /\ \A g : Between(g, k, before) => Between(MapNodeGap(m, g, bias), k, after)
    <3>1. k # n /\ k # x
      BY DEF TailGone, InlineNodes, Parents
    <3>2. CASE k = p
      <4>1. k \in Parents(after)
        BY <3>2 DEF TailGone
      <4>2. ASSUME NEW g, Between(g, k, before) PROVE Between(MapNodeGap(m, g, bias), k, after)
        <5> DEFINE l == Len(Kids(before[p]))
                   h == [g EXCEPT !.index = g.index - 1]
        <5>1. /\ g \in [parent : Nat, index : Nat] /\ g.parent = p /\ g.index \in 0..l
              /\ l \in Nat /\ Len(Kids(after[p])) = l - 1 /\ m.index \in 1..(l - 1)
          BY <3>2, <4>2 DEF Between, TailGone
        <5>2. MapNodeGap(m, g, bias) = IF g.index > m.index THEN h ELSE g
          BY <3>1, <3>2, <5>1 DEF MapNodeGap
        <5>3. CASE g.index > m.index
          <6> DEFINE i == g.index - 1
          <6>1. i \in Nat /\ i \in 0..(l - 1)
            BY <5>1, <5>3
          <6>2. h = [g EXCEPT !.index = i]
            OBVIOUS
          <6> HIDE DEF i, l, h
          <6>3. h \in [parent : Nat, index : Nat] /\ h.parent = p /\ h.index = i
            BY <5>1, <6>1, <6>2
          <6>4. QED BY <3>2, <5>1, <5>2, <5>3, <6>1, <6>3 DEF Between
        <5>4. CASE ~(g.index > m.index)
          <6>1. g.index \in 0..(l - 1)
            BY <5>1, <5>4
          <6> HIDE DEF l, h
          <6>2. QED BY <3>2, <5>1, <5>2, <5>4, <6>1 DEF Between
        <5>5. QED BY <5>3, <5>4
      <4>3. QED BY <4>1, <4>2
    <3>3. CASE k # p
      <4>1. k \in DOMAIN after /\ after[k] = before[k]
        BY <3>1, <3>3 DEF TailGone, Parents
      <4>2. k \in Parents(after)
        BY <4>1 DEF Parents
      <4>3. \A g : Between(g, k, before) => MapNodeGap(m, g, bias) = g
        BY <3>1, <3>3 DEF Between, MapNodeGap
      <4>4. \A g : Between(g, k, before) => Between(g, k, after)
        BY <4>1 DEF Between
      <4>5. QED BY <4>2, <4>3, <4>4
    <3>4. QED BY <3>2, <3>3
  <2>2. QED BY <2>1, GapsCarried
<1>6. \A k \in DOMAIN before :
        MapNodeSelection(m, k) = IF k \in DOMAIN after THEN k ELSE Deleted
  BY DEF TailGone, MapNodeSelection
<1>7. QED BY <1>4, <1>5, <1>6 DEF OverMap

\* Two nodes become one.
LEMMA JoinNodesMoves ==
  ASSUME NEW w, NEW s, IsDocument(w.store),
         NEW r \in ApplyJoinNodes(w, s), IsDocument(r.store)
  PROVE  Relocated(w.store, r, {})
<1> DEFINE before == w.store
           after == r.store
           n == s.first
           x == s.second
           a == before[n].content
           b == before[x].content
           both == Joined(a, b)
           size == Len(a.text)
           seam == AtomCountAt(a, size)
           at == InlinePoint(n, size, seam)
           Index(p) == IndexIn(before, p, n)
           Map(p) == IF a.atoms = <<>> /\ b.atoms = <<>>
                     THEN NodeJoined(p, Index(p), n, x, size)
                     ELSE InlineNodeJoined(p, Index(p), n, x, size, at.index)
           Left(p) == Without(Detach(Rewrite(before, n, both), p, x), {x})
           back == RestoreJoinedNodeStep(at, x, before[x])
<1>1. PICK p \in ParentsOf(before, n) :
        /\ InlineOf(before, n) # {} /\ InlineOf(before, x) # {}
        /\ x \in Range(Kids(before[p]))
        /\ IndexIn(before, p, x) = IndexIn(before, p, n) + 1
        /\ after = Left(p) /\ r.maps = <<Map(p)>> /\ r.inverse = <<back>>
  <2>1. PICK p \in {p \in ParentsOf(before, n) :
                      /\ InlineOf(before, n) # {}
                      /\ InlineOf(before, x) # {}
                      /\ x \in Range(Kids(before[p]))
                      /\ IndexIn(before, p, x) = IndexIn(before, p, n) + 1} :
          r = Done(Left(p), w.next, <<Map(p)>>, <<back>>)
    BY DEF ApplyJoinNodes
  <2> HIDE DEF before, n, x, a, b, both, at, back, Left, Map
  <2>2. QED BY <2>1 DEF Done
<1> DEFINE index == Index(p)
           m == Map(p)
<1>2. after = Left(p) /\ r.maps = <<m>> /\ r.inverse = <<back>> /\ index = IndexIn(before, p, n)
  BY <1>1
<1>3. /\ n \in DOMAIN before /\ x \in DOMAIN before
      /\ a.shape = "inline" /\ b.shape = "inline" /\ MixedContent(a) /\ MixedContent(b)
  BY <1>1, InlineIs
<1>4. m = IF a.atoms = <<>> /\ b.atoms = <<>> THEN NodeJoined(p, index, n, x, size)
          ELSE InlineNodeJoined(p, index, n, x, size, seam)
  BY DEF InlinePoint
<1>5. /\ IsDocument(before) /\ IsDocument(after) /\ both = Joined(a, b)
      /\ a = before[n].content /\ b = before[x].content
      /\ size = Len(a.text) /\ seam = AtomCountAt(a, size)
      /\ BroughtBack(back) = {x}
  BY DEF RestoreJoinedNodeStep, BroughtBack
<1>6. after = Without(Detach(Rewrite(before, n, both), p, x), {x})
  BY <1>2
<1> HIDE DEF before, after, n, x, a, b, both, size, seam, at, Index, Map, Left, back, index, m
<1>7. MadeOf(before) /\ Placed(before) /\ n \in Nat /\ x \in Nat
  BY <1>3, <1>5, DocumentIs DEF MadeOf
<1>8. n # x
  <2>1. IndexIn(before, p, n) \in DOMAIN Kids(before[p]) /\ p \in DOMAIN before
        /\ before[p].content.shape = "children"
    BY ParentIs, IndexIs
  <2>2. WellMade(before[p])
    BY <1>7, <2>1 DEF MadeOf
  <2>3. Kids(before[p]) \in Seq(Nat)
    BY <2>1, <2>2, NodeIs
  <2>4. IndexIn(before, p, n) \in Int
    BY <2>1, <2>3
  <2>5. QED BY <1>1, <2>4
<1>9. MixedContent(both) /\ PutTogether(a, b, both)
  <2>1. Refs(before[n]) = AtomsOf(a) /\ Refs(before[x]) = AtomsOf(b)
    BY <1>3, <1>5 DEF Refs
  <2>2. AtomsOf(a) \cap AtomsOf(b) = {}
    BY <1>3, <1>7, <1>8, <2>1 DEF Placed
  <2>3. QED BY <1>3, <1>5, <2>2, JoinKeeps, JoinLaid
<1>10. /\ TailGone(before, after, p, n, x, both)
       /\ IndexIn(before, p, n) \in 1..Len(Kids(before[p]))
       /\ IndexIn(before, p, x) \in 1..Len(Kids(before[p]))
  BY <1>1, <1>3, <1>5, <1>6, <1>8, <1>9, TailGoneIs DEF JoinedStore
<1>11. index \in 1..(Len(Kids(before[p])) - 1)
  <2>1. Len(Kids(before[p])) \in Nat
    BY <1>10 DEF TailGone
  <2>2. QED BY <1>1, <1>2, <1>10, <2>1
<1>12. /\ m.map \in {"NodeJoined", "InlineNodeJoined"}
       /\ m.parent = p /\ m.index = index /\ m.second = x /\ m.removed = {x}
  BY <1>4 DEF NodeJoined, InlineNodeJoined
<1>13. ASSUME NEW bias \in Biases
       PROVE  /\ \A q : At(q, n, a) => At(MapInlinePoint(m, q, bias), n, both)
              /\ \A q : TextAt(q, n, a) => TextAt(MapTextPoint(m, q, bias), n, both)
              /\ \A q : At(q, x, b) => At(MapInlinePoint(m, q, bias), n, both)
              /\ \A q : TextAt(q, x, b) => TextAt(MapTextPoint(m, q, bias), n, both)
  BY <1>3, <1>4, <1>5, <1>7, <1>8, <1>9, <1>13, JoinCarries DEF JoinMap
<1>14. OverMap(before, m, after)
  BY <1>5, <1>10, <1>11, <1>12, <1>13, TailGoneCarries
<1>15. Listing(r.inverse) /\ Gone(r.inverse) = {x} /\ Once(r.inverse)
  BY <1>2, <1>5, OneStepGroup
<1>16. Relocated(before, r, {})
  <2>1. StepCarries(before, r.maps, after)
    BY <1>2, <1>14 DEF StepCarries
  <2>2. DOMAIN after = DOMAIN before \ {x}
    BY <1>10 DEF TailGone
  <2>3. QED BY <1>3, <1>15, <2>1, <2>2 DEF Relocated, after
<1>17. QED BY <1>16 DEF before

\* The nodes a step may add to the store.
Comes(s, next) ==
  BroughtBack(s)
    \cup IF s.op \in {"InsertInlineAtom", "SplitNode", "SplitInlineNode"} THEN {next} ELSE {}

\* A node with the tail of its content.
LEMMA TailIsNode ==
  ASSUME NEW store, IsDocument(store), NEW n, NEW c \in InlineOf(store, n),
         NEW offset, NEW index, ValidGap(c, offset, index),
         NEW tail, tail = [store[n] EXCEPT !.content = TailOf(c, offset, index)]
  PROVE  WellMade(tail) /\ tail.content = TailOf(c, offset, index)
<1> DEFINE old == store[n]
           behind == TailOf(c, offset, index)
<1>1. n \in DOMAIN store /\ c = old.content /\ c.shape = "inline" /\ MixedContent(c)
  BY InlineIs
<1>2. WellMade(old)
  BY <1>1 DEF IsDocument
<1>3. MixedContent(behind)
  BY <1>1, CutKeeps
<1> HIDE DEF old, behind
<1>4. Fits(behind, old.content.shape)
  BY <1>1, <1>3, Laid DEF Fits
<1>5. tail = [old EXCEPT !.content = behind]
  BY DEF old, behind
<1>6. QED BY <1>2, <1>4, <1>5, Reworked DEF behind

\* A node splits off the tail of another.
LEMMA FreshTailMoves ==
  ASSUME NEW w, IsDocument(w.store), Allocated(w.store, w.next), NEW at, NEW mixed \in BOOLEAN,
         ~mixed => \A c \in InlineOf(w.store, at.node) : c.atoms = <<>>,
         NEW r \in FreshTail(w, at, mixed), IsDocument(r.store)
  PROVE  Relocated(w.store, r, {w.next})
<1> DEFINE Rest(c) == [w.store[at.node] EXCEPT !.content = TailOf(c, at.offset, at.index)]
           id == w.next
<1>1. PICK c \in InlineOf(w.store, at.node) :
        /\ ValidGap(c, at.offset, at.index)
        /\ r \in SplitAt(w, at, id, Rest(c), id + 1, mixed)
  BY DEF FreshTail
<1> DEFINE tail == Rest(c)
<1>2. WellMade(tail) /\ tail.content = TailOf(c, at.offset, at.index)
  <2>1. tail = [w.store[at.node] EXCEPT !.content = TailOf(c, at.offset, at.index)]
    OBVIOUS
  <2> HIDE DEF tail, Rest
  <2>2. QED BY <1>1, <2>1, TailIsNode
<1>3. r \in SplitAt(w, at, id, tail, id + 1, mixed)
  BY <1>1
<1>4. id \in Nat /\ id \notin DOMAIN w.store
  BY DEF Allocated
<1>5. ~mixed => c.atoms = <<>>
  OBVIOUS
<1> HIDE DEF tail, Rest, id
<1>6. Relocated(w.store, r, {id})
  BY <1>1, <1>2, <1>3, <1>4, <1>5, SplitAtMoves
<1>7. QED BY <1>6 DEF id

\* Every content step moves places to places.
LEMMA StepMoves ==
  ASSUME NEW w, NEW s, IsDocument(w.store), Allocated(w.store, w.next), Kept(s),
         NEW r \in Apply(w, s)
  PROVE  Relocated(w.store, r, Comes(s, w.next))
<1>1. s.op \in ContentSteps /\ IsDocument(r.store)
  BY StepIsGood DEF Kept, Good
<1>2. ASSUME s.op \notin {"InsertInlineAtom", "RestoreInlineAtom", "SplitNode",
                          "SplitInlineNode", "RestoreJoinedNode"},
             Relocated(w.store, r, {})
      PROVE  Relocated(w.store, r, Comes(s, w.next))
  <2>1. Comes(s, w.next) = {}
    BY <1>1, <1>2 DEF Comes, BroughtBack, ContentSteps, ContentOps
  <2>2. QED BY <1>2, <2>1
<1>3. ASSUME s.op \in {"RestoreInlineAtom", "RestoreJoinedNode"}, Relocated(w.store, r, {s.id})
      PROVE  Relocated(w.store, r, Comes(s, w.next))
  <2>1. Comes(s, w.next) = {s.id}
    BY <1>3 DEF Comes, BroughtBack
  <2>2. QED BY <1>3, <2>1
<1>4. ASSUME s.op \in {"InsertInlineAtom", "SplitNode", "SplitInlineNode"},
             Relocated(w.store, r, {w.next})
      PROVE  Relocated(w.store, r, Comes(s, w.next))
  <2>1. Comes(s, w.next) = {w.next}
    BY <1>4 DEF Comes, BroughtBack
  <2>2. QED BY <1>4, <2>1
<1>5. CASE s.op = "ReplaceText"
  BY <1>1, <1>2, <1>5, ReplaceTextMoves DEF Apply
<1>6. CASE s.op = "ReplaceInlineText"
  BY <1>1, <1>2, <1>6, ReplaceInlineTextMoves DEF Apply
<1>7. CASE s.op \in {"AddMark", "RemoveMark"}
  BY <1>1, <1>2, <1>7, MarksMove DEF Apply
<1>8. CASE s.op = "SetInlineAtomMarks"
  BY <1>1, <1>2, <1>8, SetInlineAtomMarksMoves DEF Apply
<1>9. CASE s.op = "RemoveInlineAtom"
  BY <1>1, <1>2, <1>9, RemoveInlineAtomMoves DEF Apply
<1>10. CASE s.op = "JoinNodes"
  BY <1>1, <1>2, <1>10, JoinNodesMoves DEF Apply
<1>11. CASE s.op = "InsertInlineAtom"
  <2> DEFINE node == Node(s.kind, s.attrs, AtomContent(s.marks))
             id == w.next
  <2>1. s.kind \in AtomKinds /\ s.marks \subseteq Marks
    BY <1>11 DEF Kept
  <2>2. NodeOK(node) => WellMade(node)
    BY <2>1 DEF WellMade, Node, AtomContent
  <2>3. r \in PlaceAtom(w, s.at, id, node, id + 1)
    BY <1>11 DEF Apply, ApplyInsertInlineAtom
  <2>4. id \in Nat /\ id \notin DOMAIN w.store
    BY DEF Allocated
  <2> HIDE DEF node, id
  <2>5. Relocated(w.store, r, {id})
    BY <1>1, <2>2, <2>3, <2>4, PlaceAtomMoves
  <2>6. QED BY <1>4, <1>11, <2>5 DEF id
<1>12. CASE s.op = "RestoreInlineAtom"
  <2>1. s.id \in Nat /\ WellMade(s.node)
    BY <1>12 DEF Kept
  <2>2. s.id \notin DOMAIN w.store /\ r \in PlaceAtom(w, s.at, s.id, s.node, Ceiling(w.next, {s.id}))
    BY <1>12 DEF Apply, ApplyRestoreInlineAtom
  <2>3. Relocated(w.store, r, {s.id})
    BY <1>1, <2>1, <2>2, PlaceAtomMoves
  <2>4. QED BY <1>3, <1>12, <2>3
<1>13. CASE s.op = "SplitInlineNode"
  <2>1. r \in FreshTail(w, s.at, TRUE)
    BY <1>13 DEF Apply, ApplySplitInlineNode
  <2>2. Relocated(w.store, r, {w.next})
    BY <1>1, <2>1, FreshTailMoves
  <2>3. QED BY <1>4, <1>13, <2>2
<1>14. CASE s.op = "SplitNode"
  <2> DEFINE at == InlinePoint(s.node, s.offset, 0)
  <2>1. /\ r \in FreshTail(w, at, FALSE)
        /\ \A c \in InlineOf(w.store, s.node) : c.atoms = <<>>
    BY <1>14 DEF Apply, ApplySplitNode
  <2>2. at.node = s.node
    BY DEF InlinePoint
  <2> HIDE DEF at
  <2>3. Relocated(w.store, r, {w.next})
    BY <1>1, <2>1, <2>2, FreshTailMoves
  <2>4. QED BY <1>4, <1>14, <2>3
<1>15. CASE s.op = "RestoreJoinedNode"
  <2>1. s.id \in Nat /\ WellMade(s.node)
    BY <1>15 DEF Kept
  <2>2. PICK c \in InlineOf(w.store, s.at.node) :
          /\ s.id \notin DOMAIN w.store
          /\ ValidGap(c, s.at.offset, s.at.index)
          /\ s.node.content = TailOf(c, s.at.offset, s.at.index)
          /\ r \in SplitAt(w, s.at, s.id, s.node, Ceiling(w.next, {s.id}), c.atoms # <<>>)
    BY <1>15 DEF Apply, ApplyRestoreJoinedNode
  <2> DEFINE mixed == c.atoms # <<>>
  <2>3. /\ mixed \in BOOLEAN /\ (~mixed => c.atoms = <<>>)
        /\ r \in SplitAt(w, s.at, s.id, s.node, Ceiling(w.next, {s.id}), mixed)
    BY <2>2
  <2> HIDE DEF mixed
  <2>4. Relocated(w.store, r, {s.id})
    BY <1>1, <2>1, <2>2, <2>3, SplitAtMoves
  <2>5. QED BY <1>3, <1>15, <2>4
<1>16. QED BY <1>1, <1>5, <1>6, <1>7, <1>8, <1>9, <1>10, <1>11, <1>12, <1>13, <1>14, <1>15
           DEF ContentSteps, ContentOps

-----------------------------------------------------------------------------
(* Places carried through a transaction.                                   *)

Points == {"inline", "text", "gap"}
Places(sort, store) ==
  CASE sort = "inline" -> InlineGaps(store)
    [] sort = "text"   -> TextGaps(store)
    [] sort = "gap"    -> NodeGaps(store)
\* Every place of the first document is at a place of the last, and a node is
\* deleted when it left.
Carried(from, maps, after) ==
  \A bias \in Biases :
    /\ \A sort \in Points : \A p \in Places(sort, from) :
         Changed(sort, maps, p, bias) \in Places(sort, after)
    /\ \A n \in DOMAIN from :
         Changed("node", maps, n, bias) = IF n \in DOMAIN after THEN n ELSE Deleted
\* So do transactions whose inverse brings back, once each, nodes that are
\* not there, among them those that left.
Trail(from, r) ==
  /\ IsDocument(from) /\ IsDocument(r.store)
  /\ Listing(r.maps) /\ Carried(from, r.maps, r.store)
  /\ Listing(r.inverse) /\ Once(r.inverse)
  /\ DOMAIN from \subseteq DOMAIN r.store \cup Gone(r.inverse)
  /\ Gone(r.inverse) \cap DOMAIN r.store = {}

\* A place is no deleted position.
LEMMA PlacesAreLive ==
  ASSUME NEW store, IsDocument(store)
  PROVE  /\ \A sort \in Points : Deleted \notin Places(sort, store)
         /\ Deleted \notin DOMAIN store
<1>1. ASSUME NEW sort \in Points, NEW p \in Places(sort, store) PROVE p # Deleted
  <2>1. CASE sort = "inline"
    BY <1>1, <2>1, PlacesAre, DeletedIsNoPosition DEF Places, At, InlinePoints
  <2>2. CASE sort = "text"
    BY <1>1, <2>2, PlacesAre, DeletedIsNoPosition DEF Places, TextAt, TextPoints
  <2>3. CASE sort = "gap"
    BY <1>1, <2>3, PlacesAre, DeletedIsNoPosition DEF Places, Between
  <2>4. QED BY <1>1, <2>1, <2>2, <2>3 DEF Points
<1>2. QED BY <1>1, DeletedIsNoPosition DEF IsDocument

\* A step map takes places to places.
LEMMA PlacesOver ==
  ASSUME NEW before, NEW m, NEW after, OverMap(before, m, after), NEW bias \in Biases,
         NEW sort \in Points, NEW p \in Places(sort, before)
  PROVE  MapAt(sort, m, p, bias) \in Places(sort, after)
<1>1. CASE sort = "inline"
  BY <1>1 DEF OverMap, Places, MapAt
<1>2. CASE sort = "text"
  BY <1>2 DEF OverMap, Places, MapAt
<1>3. CASE sort = "gap"
  BY <1>3 DEF OverMap, Places, MapAt
<1>4. QED BY <1>1, <1>2, <1>3 DEF Points

\* A transaction starts with nothing moved.
LEMMA TrailStarts ==
  ASSUME NEW from, IsDocument(from), NEW next
  PROVE  Trail(from, Done(from, next, <<>>, <<>>))
<1>1. Carried(from, <<>>, from)
  BY UnmovedIs DEF Carried, Points, Sorts
<1>2. Listing(<<>>) /\ Once(<<>>) /\ Gone(<<>>) = {}
  BY PlainGroups
<1>3. QED BY <1>1, <1>2 DEF Trail, Done

\* One step more carries places on.
LEMMA CarriedOn ==
  ASSUME NEW from, NEW maps, NEW before, Carried(from, maps, before), Listing(maps),
         IsDocument(from), IsDocument(before),
         NEW more, NEW after, StepCarries(before, more, after),
         DOMAIN from \cap DOMAIN after \subseteq DOMAIN before
  PROVE  Listing(maps \o more) /\ Carried(from, maps \o more, after)
<1>1. CASE more = <<>> /\ InPlace(before, after)
  <2>1. maps \o more = maps
    BY <1>1 DEF Listing
  <2>2. \A sort \in Points : Places(sort, before) \subseteq Places(sort, after)
    BY <1>1 DEF InPlace, Places, Points
  <2>3. \A n \in DOMAIN from : n \in DOMAIN before <=> n \in DOMAIN after
    BY <1>1 DEF InPlace
  <2>4. Carried(from, maps, after)
    BY <2>2, <2>3 DEF Carried
  <2>5. QED BY <2>1, <2>4
<1>2. ASSUME NEW m, more = <<m>>, OverMap(before, m, after)
      PROVE  Listing(maps \o more) /\ Carried(from, maps \o more, after)
  <2>1. PICK S : maps \in Seq(S)
    BY DEF Listing
  <2> DEFINE T == S \cup {m}
  <2>2. maps \in Seq(T) /\ m \in T
    <3>1. Seq(S) \subseteq Seq(T)
      OBVIOUS
    <3>2. QED BY <2>1, <3>1
  <2> HIDE DEF T
  <2>3. maps \o more \in Seq(T)
    BY <1>2, <2>2
  <2>4. \A sort \in Sorts : \A p, bias :
          Changed(sort, maps \o more, p, bias) = OneMore(sort, m, Changed(sort, maps, p, bias), bias)
    BY <1>2, <2>2, OneMapMore
  <2>5. ASSUME NEW bias \in Biases, NEW sort \in Points, NEW p \in Places(sort, from)
        PROVE  Changed(sort, maps \o more, p, bias) \in Places(sort, after)
    <3>1. Changed(sort, maps, p, bias) \in Places(sort, before)
      BY <2>5 DEF Carried
    <3>2. Changed(sort, maps, p, bias) # Deleted
      BY <3>1, PlacesAreLive
    <3>3. sort \in Sorts
      BY DEF Sorts, Points
    <3>4. Changed(sort, maps \o more, p, bias) = MapAt(sort, m, Changed(sort, maps, p, bias), bias)
      BY <2>4, <3>2, <3>3 DEF OneMore
    <3>5. QED BY <1>2, <3>1, <3>4, PlacesOver
  <2>6. ASSUME NEW bias \in Biases, NEW n \in DOMAIN from
        PROVE  Changed("node", maps \o more, n, bias) = IF n \in DOMAIN after THEN n ELSE Deleted
    <3>1. /\ Changed("node", maps, n, bias) = IF n \in DOMAIN before THEN n ELSE Deleted
          /\ n # Deleted /\ "node" \in Sorts
      BY PlacesAreLive DEF Carried, Sorts
    <3>2. Changed("node", maps \o more, n, bias)
            = OneMore("node", m, Changed("node", maps, n, bias), bias)
      BY <2>4, <3>1
    <3>3. CASE n \in DOMAIN before
      <4>1. Changed("node", maps \o more, n, bias) = MapNodeSelection(m, n)
        BY <3>1, <3>2, <3>3 DEF OneMore, MapAt
      <4>2. QED BY <1>2, <3>3, <4>1 DEF OverMap
    <3>4. CASE n \notin DOMAIN before
      BY <3>1, <3>2, <3>4 DEF OneMore
    <3>5. QED BY <3>3, <3>4
  <2>7. QED BY <2>3, <2>5, <2>6 DEF Listing, Carried
<1>3. QED BY <1>1, <1>2 DEF StepCarries

\* A step on a trail.
LEMMA TrailGrows ==
  ASSUME NEW from, NEW sofar, Trail(from, sofar), NEW y, IsDocument(y.store), NEW came,
         Relocated(sofar.store, y, came), came \cap Gone(sofar.inverse) = {}
  PROVE  Trail(from, AfterStep(sofar, y))
<1> DEFINE maps == sofar.maps \o y.maps
           undo == y.inverse \o sofar.inverse
           before == sofar.store
           after == y.store
           left == Gone(y.inverse)
           away == Gone(sofar.inverse)
<1>1. /\ AfterStep(sofar, y).store = after
      /\ AfterStep(sofar, y).maps = maps /\ AfterStep(sofar, y).inverse = undo
  BY DEF AfterStep, Done
<1>2. /\ IsDocument(from) /\ IsDocument(before) /\ Listing(sofar.maps)
      /\ Carried(from, sofar.maps, before)
      /\ Listing(sofar.inverse) /\ Once(sofar.inverse)
      /\ DOMAIN from \subseteq DOMAIN before \cup away
      /\ away \cap DOMAIN before = {}
  BY DEF Trail
<1>3. /\ StepCarries(before, y.maps, after) /\ Listing(y.inverse) /\ Once(y.inverse)
      /\ left \subseteq DOMAIN before
      /\ DOMAIN after = (DOMAIN before \ left) \cup came
      /\ came \cap DOMAIN before = {}
  BY DEF Relocated
<1>4. Listing(undo) /\ Gone(undo) = left \cup away /\ Once(undo)
  BY <1>2, <1>3, GroupsTogether
<1>5. came \cap away = {}
  OBVIOUS
<1> HIDE DEF before, after, left, away, undo
<1>6. DOMAIN from \cap DOMAIN after \subseteq DOMAIN before
  BY <1>2, <1>3, <1>5
<1>7. Listing(maps) /\ Carried(from, maps, after)
  BY <1>2, <1>3, <1>6, CarriedOn
<1>8. DOMAIN from \subseteq DOMAIN after \cup Gone(undo)
  BY <1>2, <1>3, <1>4
<1>9. Gone(undo) \cap DOMAIN after = {}
  BY <1>2, <1>3, <1>4, <1>5
<1>10. IsDocument(after)
  BY DEF after
<1> HIDE DEF maps
<1>11. QED BY <1>1, <1>2, <1>4, <1>7, <1>8, <1>9, <1>10 DEF Trail

-----------------------------------------------------------------------------
(* Transactions and their inverses.                                        *)

\* The nodes a group of known steps brings back are below the allocator.
LEMMA GoneAreKnown ==
  ASSUME NEW q, NEW next, Undo(q, next), Listing(q)
  PROVE  Gone(q) \subseteq 0..(next - 1)
<1>1. ASSUME NEW i \in DOMAIN q PROVE BroughtBack(q[i]) \subseteq 0..(next - 1)
  BY DEF Undo, Range, Known
<1>2. QED BY <1>1 DEF Gone

\* The nodes the steps after the first n bring back.
Ahead(steps, n) == UNION {BroughtBack(steps[i]) : i \in (n + 1)..Len(steps)}

\* Applying an inverse leaves the trail of another one: what it brings back
\* was away, and is not taken away twice.
LEMMA RunLeavesTrail ==
  ASSUME NEW w, IsDocument(w.store), Allocated(w.store, w.next),
         NEW steps, KeptAll(steps), Undo(steps, w.next),
         Listing(steps), Once(steps), Gone(steps) \cap DOMAIN w.store = {},
         NEW r \in RunSteps(w, steps)
  PROVE  Trail(w.store, r)
<1>1. /\ Len(steps) \in Nat /\ DOMAIN steps = 1..Len(steps)
      /\ \A n \in 1..Len(steps) : Kept(steps[n]) /\ Known(steps[n], w.next)
  <2>1. /\ Len(steps) \in Nat /\ DOMAIN steps = 1..Len(steps)
        /\ \A n \in 1..Len(steps) : Known(steps[n], w.next)
    BY DEF Undo, Range
  <2>2. \A n \in 1..Len(steps) : Kept(steps[n])
    BY DEF KeptAll
  <2>3. QED BY <2>1, <2>2
<1>2. PICK run : Runs(run, w, steps)
  BY <1>1, RunUnfolds
<1> DEFINE Fine(n, x) == /\ Trail(w.store, x)
                         /\ Allocated(x.store, x.next) /\ w.next <= x.next
                         /\ Undo(x.inverse, x.next)
                         /\ Ahead(steps, n) \cap (Gone(x.inverse) \cup DOMAIN x.store) = {}
           T == {n \in Nat : n <= Len(steps) => \A x \in run[n] : Fine(n, x)}
<1>3. 0 \in T
  <2>1. run[0] = {Done(w.store, w.next, <<>>, <<>>)}
    BY <1>2 DEF Runs
  <2> DEFINE x == Done(w.store, w.next, <<>>, <<>>)
  <2>2. x.store = w.store /\ x.next = w.next /\ x.inverse = <<>>
    BY DEF Done
  <2>3. Trail(w.store, x)
    BY TrailStarts
  <2> HIDE DEF x
  <2>4. Gone(x.inverse) = {} /\ Undo(x.inverse, x.next)
    BY <2>2, PlainGroups, UndoNone
  <2>5. Ahead(steps, 0) = Gone(steps)
    BY <1>1 DEF Ahead, Gone
  <2>6. Allocated(x.store, x.next) /\ w.next <= x.next
    BY <2>2 DEF Allocated
  <2>7. Fine(0, x)
    BY <2>2, <2>3, <2>4, <2>5, <2>6
  <2>8. QED BY <2>1, <2>7 DEF x
<1>4. ASSUME NEW n \in Nat, n \in T PROVE n + 1 \in T
  <2>1. SUFFICES ASSUME n + 1 <= Len(steps), NEW x \in run[n + 1] PROVE Fine(n + 1, x)
    OBVIOUS
  <2>2. n + 1 \in 1..Len(steps) /\ (n + 1) - 1 = n
    BY <1>1, <2>1
  <2>3. PICK sofar \in run[n] : \E y \in Apply(sofar, steps[n + 1]) : x = AfterStep(sofar, y)
    BY <1>2, <2>1, <2>2 DEF Runs
  <2> DEFINE s == steps[n + 1]
  <2> PICK y \in Apply(sofar, s) : x = AfterStep(sofar, y)
    BY <2>3
  <2>4. Fine(n, sofar)
    BY <1>1, <1>4, <2>1, <2>3
  <2>5. Kept(s) /\ Known(s, w.next)
    BY <1>1, <2>2
  <2>6. Ahead(steps, n) = BroughtBack(s) \cup Ahead(steps, n + 1)
    <3>1. (n + 1)..Len(steps) = {n + 1} \cup ((n + 1) + 1)..Len(steps)
      BY <1>1, <2>2
    <3>2. QED BY <3>1 DEF Ahead
  <2>7. BroughtBack(s) \cap Ahead(steps, n + 1) = {}
    <3>1. ASSUME NEW i \in ((n + 1) + 1)..Len(steps)
          PROVE  BroughtBack(s) \cap BroughtBack(steps[i]) = {}
      <4>1. i \in DOMAIN steps /\ n + 1 \in DOMAIN steps /\ n + 1 # i
        BY <1>1, <2>2
      <4>2. QED BY <4>1 DEF Once
    <3>2. QED BY <3>1 DEF Ahead
  <2>8. Ahead(steps, n + 1) \subseteq 0..(w.next - 1)
    <3>1. \A i \in ((n + 1) + 1)..Len(steps) : i \in 1..Len(steps)
      BY <1>1, <2>2
    <3>2. QED BY <1>1, <3>1 DEF Ahead, Known
  <2> DEFINE came == Comes(s, sofar.next)
  <2> HIDE DEF s
  <2>9. Known(s, sofar.next)
    BY <2>4, <2>5 DEF Allocated, Known
  <2>10. /\ IsDocument(sofar.store) /\ Allocated(sofar.store, sofar.next)
         /\ sofar.next \in Nat /\ w.next <= sofar.next /\ w.next \in Nat
    BY <2>4 DEF Trail, Allocated
  <2>11. Sound(y, sofar.next) /\ IsDocument(y.store) /\ Relocated(sofar.store, y, came)
    BY <2>5, <2>9, <2>10, StepIsSound, StepIsGood, StepMoves DEF Good
  <2>12. Gone(sofar.inverse) \subseteq 0..(sofar.next - 1)
    BY <2>4, GoneAreKnown DEF Trail
  <2>13. came \subseteq BroughtBack(s) \cup {sofar.next}
    BY DEF Comes
  <2>14. sofar.next \notin 0..(sofar.next - 1) /\ sofar.next \notin 0..(w.next - 1)
    BY <2>10
  <2>15. came \cap Gone(sofar.inverse) = {}
    BY <2>4, <2>6, <2>12, <2>13, <2>14
  <2>16. came \cap Ahead(steps, n + 1) = {}
    BY <2>7, <2>8, <2>13, <2>14
  <2> HIDE DEF came
  <2>17. Trail(w.store, x)
    BY <2>4, <2>11, <2>15, TrailGrows
  <2>18. x.store = y.store /\ x.next = y.next /\ x.inverse = y.inverse \o sofar.inverse
    BY <2>3 DEF AfterStep, Done
  <2>19. Allocated(x.store, x.next) /\ w.next <= x.next
    BY <2>10, <2>11, <2>18 DEF Sound, Allocated
  <2>20. Undo(x.inverse, x.next)
    <3>1. y.next \in Nat /\ sofar.next <= y.next /\ Undo(y.inverse, y.next)
      BY <2>11 DEF Sound, Allocated
    <3>2. Undo(sofar.inverse, y.next)
      BY <2>4, <2>10, <3>1, UndoKept
    <3>3. QED BY <2>18, <3>1, <3>2, UndoBoth
  <2>21. Gone(x.inverse) = Gone(y.inverse) \cup Gone(sofar.inverse)
    BY <2>4, <2>11, <2>18, GroupsTogether DEF Trail, Relocated
  <2>22. /\ Gone(y.inverse) \subseteq DOMAIN sofar.store
         /\ DOMAIN y.store \subseteq DOMAIN sofar.store \cup came
    BY <2>11 DEF Relocated
  <2>23. Ahead(steps, n + 1) \cap (Gone(x.inverse) \cup DOMAIN x.store) = {}
    BY <2>4, <2>6, <2>16, <2>18, <2>21, <2>22
  <2>24. QED BY <2>17, <2>19, <2>20, <2>23
<1> HIDE DEF T, Fine
<1>5. Nat \subseteq T
  BY <1>3, <1>4, InductionOverNat
<1>6. Fine(Len(steps), r)
  BY <1>1, <1>2, <1>5 DEF T, Runs
<1>7. QED BY <1>6 DEF Fine

-----------------------------------------------------------------------------
(* Behaviours that edit content.                                           *)

\* Places of the old document are carried to the working one by the maps of
\* the change, the inverse brings back what left, and before its first step
\* a transaction works on the published document.
MapInv ==
  /\ ShapeInv
  /\ Trail(changes.from, Done(work.store, work.next, changes.maps, inverse))
  /\ taken > 0 => changes.from = doc.store
  /\ taken = 0 => work.store = doc.store

LEMMA InitMap == Init => MapInv
<1> SUFFICES ASSUME Init PROVE MapInv
  OBVIOUS
<1>1. ShapeInv
  BY InitShape
<1>2. /\ work.store = FirstStore /\ work.next = FirstNext /\ doc.store = FirstStore
      /\ changes.from = FirstStore /\ changes.maps = <<>> /\ inverse = <<>> /\ taken = 0
  BY DEF Init
<1>3. Trail(FirstStore, Done(FirstStore, FirstNext, <<>>, <<>>))
  BY FirstIsDocument, TrailStarts
<1>4. QED BY <1>1, <1>2, <1>3 DEF MapInv

\* What a transaction did so far is a trail from the published document.
LEMMA SoFarIsTrail ==
  ASSUME MapInv
  PROVE  /\ Trail(doc.store, SoFar)
         /\ SoFar.store = work.store /\ Undo(SoFar.inverse, work.next)
<1>1. SoFar.store = work.store
  BY DEF SoFar, Done
<1>2. Undo(SoFar.inverse, work.next)
  BY UndoNone DEF SoFar, Done, MapInv, ShapeInv, IdsInv
<1>3. CASE Idle
  <2>1. SoFar = Done(doc.store, work.next, <<>>, <<>>)
    BY <1>3 DEF SoFar, Idle, MapInv
  <2>2. Trail(doc.store, Done(doc.store, work.next, <<>>, <<>>))
    BY TrailStarts DEF MapInv, ShapeInv
  <2>3. QED BY <1>1, <1>2, <2>1, <2>2
<1>4. CASE ~Idle
  <2>1. taken > 0
    BY <1>4 DEF Idle, MapInv, ShapeInv
  <2>2. QED BY <1>1, <1>2, <1>4, <2>1 DEF SoFar, MapInv
<1>5. QED BY <1>3, <1>4

\* A step, a commit, a rejection and an undo carry places on.
LEMMA NextMap ==
  ASSUME Ops \subseteq ContentOps, MapInv, [Next]_vars
  PROVE  MapInv'
<1>1. ShapeInv'
  BY NextShape DEF MapInv
<1>2. ASSUME NEW s \in Offered(work.store), Step(s) PROVE MapInv'
  <2>1. PICK r \in Apply(work, s) :
          /\ work' = [store |-> r.store, next |-> r.next]
          /\ changes' = [from |-> doc.store, maps |-> AfterStep(SoFar, r).maps]
          /\ inverse' = AfterStep(SoFar, r).inverse
    BY <1>2 DEF Step
  <2>2. taken' = taken + 1 /\ doc' = doc /\ taken \in Nat
    BY <1>2, BoundsAreNumbers DEF Step, MapInv, ShapeInv
  <2>3. Kept(s) /\ BroughtBack(s) = {}
    <3>1. Kept(s)
      BY <1>2, OfferedAreKept
    <3>2. Known(s, 0)
      BY <1>2, OfferedAreKnown
    <3>3. 0..(0 - 1) = {}
      OBVIOUS
    <3>4. QED BY <3>1, <3>2, <3>3 DEF Known
  <2>4. IsDocument(work.store) /\ Allocated(work.store, work.next)
    BY DEF MapInv, ShapeInv, IdsInv
  <2> DEFINE came == Comes(s, work.next)
  <2>5. IsDocument(r.store) /\ Relocated(work.store, r, came)
    BY <2>3, <2>4, StepIsGood, StepMoves DEF Good
  <2>6. came \subseteq {work.next}
    BY <2>3 DEF Comes
  <2>7. Trail(doc.store, SoFar) /\ SoFar.store = work.store /\ Undo(SoFar.inverse, work.next)
    BY SoFarIsTrail
  <2>8. Gone(SoFar.inverse) \subseteq 0..(work.next - 1)
    BY <2>7, GoneAreKnown DEF Trail
  <2>9. work.next \notin 0..(work.next - 1)
    BY <2>4 DEF Allocated
  <2>10. came \cap Gone(SoFar.inverse) = {}
    BY <2>6, <2>8, <2>9
  <2> HIDE DEF came
  <2>11. Trail(doc.store, AfterStep(SoFar, r))
    BY <2>5, <2>7, <2>10, TrailGrows
  <2>12. /\ work'.store = r.store /\ work'.next = r.next
         /\ changes'.from = doc.store /\ changes'.maps = AfterStep(SoFar, r).maps
    BY <2>1
  <2>13. AfterStep(SoFar, r) = Done(work'.store, work'.next, changes'.maps, inverse')
    BY <2>1, <2>12 DEF AfterStep, Done
  <2>14. Trail(changes'.from, Done(work'.store, work'.next, changes'.maps, inverse'))
    BY <2>11, <2>12, <2>13
  <2>15. changes'.from = doc'.store /\ taken' # 0
    BY <2>2, <2>12
  <2>16. QED BY <1>1, <2>14, <2>15 DEF MapInv
<1>3. CASE Commit
  <2>1. /\ doc' = [store |-> work.store, next |-> work.next, revision |-> doc.revision + 1]
        /\ taken' = 0 /\ work' = work /\ inverse' = inverse /\ changes' = changes
    BY <1>3 DEF Commit
  <2>2. doc'.store = work'.store /\ ~(taken' > 0)
    BY <2>1
  <2>3. Trail(changes'.from, Done(work'.store, work'.next, changes'.maps, inverse'))
    BY <2>1 DEF MapInv
  <2>4. QED BY <1>1, <2>2, <2>3 DEF MapInv
<1>4. CASE Reject
  <2>1. /\ work' = [store |-> doc.store, next |-> doc.next]
        /\ changes' = [from |-> doc.store, maps |-> <<>>]
        /\ taken' = 0 /\ inverse' = <<>> /\ doc' = doc
    BY <1>4 DEF Reject
  <2>2. /\ work'.store = doc.store /\ work'.next = doc.next
        /\ changes'.from = doc.store /\ changes'.maps = <<>>
    BY <2>1
  <2>3. Trail(doc.store, Done(doc.store, doc.next, <<>>, <<>>))
    BY TrailStarts DEF MapInv, ShapeInv
  <2>4. Trail(changes'.from, Done(work'.store, work'.next, changes'.maps, inverse'))
    BY <2>1, <2>2, <2>3
  <2>5. QED BY <1>1, <2>1, <2>2, <2>4 DEF MapInv
<1>5. CASE ApplyInverse
  <2>1. PICK r \in RunSteps(work, inverse) :
          /\ doc' = [store |-> r.store, next |-> r.next, revision |-> doc.revision + 1]
          /\ work' = [store |-> r.store, next |-> r.next]
          /\ changes' = [from |-> doc.store, maps |-> r.maps]
          /\ inverse' = r.inverse
    BY <1>5 DEF ApplyInverse
  <2>2. taken = 0 /\ taken' = taken
    BY <1>5 DEF ApplyInverse, Idle
  <2>3. work.store = doc.store
    BY <2>2 DEF MapInv
  <2>4. /\ IsDocument(work.store) /\ Allocated(work.store, work.next)
        /\ KeptAll(inverse) /\ Undo(inverse, work.next)
    BY DEF MapInv, ShapeInv, IdsInv
  <2>5. Listing(inverse) /\ Once(inverse) /\ Gone(inverse) \cap DOMAIN work.store = {}
    BY DEF MapInv, Trail, Done
  <2>6. Trail(work.store, r)
    BY <2>1, <2>4, <2>5, RunLeavesTrail
  <2>7. /\ work'.store = r.store /\ work'.next = r.next /\ doc'.store = r.store
        /\ changes'.from = doc.store /\ changes'.maps = r.maps
    BY <2>1
  <2>8. Trail(changes'.from, Done(work'.store, work'.next, changes'.maps, inverse'))
    BY <2>1, <2>3, <2>6, <2>7 DEF Trail, Done
  <2>9. QED BY <1>1, <2>2, <2>7, <2>8 DEF MapInv
<1>6. CASE UNCHANGED vars
  <2>1. /\ doc' = doc /\ work' = work /\ inverse' = inverse
        /\ taken' = taken /\ changes' = changes
    BY <1>6 DEF vars
  <2>2. QED BY <1>1, <2>1 DEF MapInv
<1>7. QED BY <1>2, <1>3, <1>4, <1>5, <1>6 DEF Next

\* A place carried is a live position.
LEMMA LiveFromMap == MapInv => MappedPositionsLive
<1> SUFFICES ASSUME MapInv PROVE MappedPositionsLive
  OBVIOUS
<1> DEFINE from == changes.from
           maps == changes.maps
           now == work.store
<1>1. IsDocument(from) /\ IsDocument(now) /\ Carried(from, maps, now)
  BY DEF MapInv, Trail, Done
<1>2. ASSUME NEW p \in InlineGaps(now) PROVE LivePoint(p)
  BY <1>1, <1>2, PlacesAre DEF LivePoint, At, Gap
<1>3. ASSUME NEW t \in TextGaps(now) PROVE LivePoint(InlinePoint(t.node, t.offset, 0))
  <2>1. PICK n \in InlineNodes(now) : TextAt(t, n, now[n].content)
    BY <1>1, <1>3, PlacesAre
  <2>2. MixedContent(now[n].content)
    BY <1>1 DEF IsDocument, InlineNodes, WellMade
  <2>3. t.node = n /\ t.offset \in 0..Len(now[n].content.text)
    BY <2>1 DEF TextAt
  <2>4. ValidGap(now[n].content, t.offset, 0)
    BY <2>2, <2>3, FirstGap
  <2>5. QED BY <2>3, <2>4 DEF LivePoint, InlinePoint
<1>4. \A sort \in Points : Deleted \notin Places(sort, now)
  BY <1>1, PlacesAreLive
<1>5. ASSUME NEW bias \in Biases, NEW p \in InlineGaps(from)
      PROVE  /\ ChangedInlinePoint(maps, p, bias) # Deleted
             /\ LivePoint(ChangedInlinePoint(maps, p, bias))
             /\ ChangedTextPoint(maps, TextPoint(p.node, p.offset), bias) # Deleted
             /\ LivePoint(InlinePoint(ChangedTextPoint(maps, TextPoint(p.node, p.offset), bias).node,
                                      ChangedTextPoint(maps, TextPoint(p.node, p.offset), bias).offset,
                                      0))
  <2> DEFINE t == TextPoint(p.node, p.offset)
  <2>1. p \in Places("inline", from) /\ t \in Places("text", from)
    BY DEF Places, TextGaps
  <2> HIDE DEF t
  <2>2. /\ Changed("inline", maps, p, bias) \in Places("inline", now)
        /\ Changed("text", maps, t, bias) \in Places("text", now)
    BY <1>1, <2>1 DEF Carried, Points
  <2>3. /\ ChangedInlinePoint(maps, p, bias) \in Places("inline", now)
        /\ ChangedTextPoint(maps, t, bias) \in Places("text", now)
    BY <2>2 DEF Changed
  <2>4. /\ ChangedInlinePoint(maps, p, bias) \in InlineGaps(now)
        /\ ChangedTextPoint(maps, t, bias) \in TextGaps(now)
    BY <2>3 DEF Places
  <2>5. QED BY <1>2, <1>3, <1>4, <2>3, <2>4 DEF Points, t
<1>6. ASSUME NEW bias \in Biases, NEW g \in NodeGaps(from)
      PROVE  ChangedNodeGap(maps, g, bias) # Deleted /\ ChangedNodeGap(maps, g, bias) \in NodeGaps(now)
  <2>1. g \in Places("gap", from)
    BY DEF Places
  <2>2. Changed("gap", maps, g, bias) \in Places("gap", now)
    BY <1>1, <2>1 DEF Carried, Points
  <2>3. ChangedNodeGap(maps, g, bias) \in Places("gap", now)
    BY <2>2 DEF Changed
  <2>4. QED BY <1>4, <2>3 DEF Places, Points
<1>7. ASSUME NEW n \in DOMAIN from
      PROVE  ChangedNodeSelection(maps, n) = IF n \in DOMAIN now THEN n ELSE Deleted
  <2>1. PICK bias : bias \in Biases
    BY DEF Biases
  <2>2. Changed("node", maps, n, bias) = IF n \in DOMAIN now THEN n ELSE Deleted
    BY <1>1, <2>1 DEF Carried
  <2>3. QED BY <2>2 DEF Changed
<1> HIDE DEF from, maps, now
<1>8. QED BY <1>5, <1>6, <1>7 DEF MappedPositionsLive, from, maps, now

\* Carets, text positions, gaps between nodes and node selections of the old
\* document are mapped by the change set of a transaction of content steps,
\* and of its inverse, to positions of the new document, with either bias, and
\* a selected node is deleted exactly when it left: no position is lost or
\* left at a place that does not exist, whatever the document, the texts, the
\* marks and the bounds (mapping.rs, inline_mapping.rs, ChangeSet).
THEOREM MappedPositionsLiveAlways ==
  ASSUME Ops \subseteq ContentOps
  PROVE  Spec => []MappedPositionsLive
<1>1. MapInv /\ [Next]_vars => MapInv'
  BY NextMap
<1>2. Spec => []MapInv
  BY <1>1, InitMap, PTL DEF Spec
<1>3. QED BY <1>2, LiveFromMap, PTL
=============================================================================
