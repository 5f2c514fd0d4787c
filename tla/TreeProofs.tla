----------------------------- MODULE TreeProofs -----------------------------
(***************************************************************************)
(* Proofs about TreeTransaction and StepMaps, for any first document, any  *)
(* set of operations and any bounds: ids are never reused, and no inline   *)
(* step map swaps two positions.  The library's FoldLeft and SelectSeq     *)
(* cannot be expanded here; the folds the proofs need are recursive        *)
(* functions, reasoned about with an induction principle on sets.          *)
(***************************************************************************)
EXTENDS TreeTransaction, FiniteSetTheorems, SequenceTheorems, TLAPS

-----------------------------------------------------------------------------
(* Induction, sequences and folds.                                         *)

\* Induction over the naturals as a fact about a set: a least missed number
\* cannot be, since the missed ones up to n would shift down into themselves
\* without n.
LEMMA InductionOverNat ==
  ASSUME NEW S, 0 \in S, \A n \in Nat : n \in S => n + 1 \in S
  PROVE  Nat \subseteq S
<1>1. SUFFICES ASSUME NEW n \in Nat, n \notin S PROVE FALSE
  OBVIOUS
<1> DEFINE Missed == (0..n) \ S
           Left == Missed \ {n}
           down == [x \in Missed |-> x - 1]
<1>2. IsFiniteSet(Missed) /\ n \in Missed
  <2>1. IsFiniteSet(0..n)
    BY FS_Interval
  <2>2. Missed \in SUBSET (0..n)
    OBVIOUS
  <2> HIDE DEF Missed
  <2>3. IsFiniteSet(Missed)
    BY <2>1, <2>2, FS_Subset
  <2>4. QED BY <1>1, <2>3 DEF Missed
<1>3. down \in Injection(Missed, Left)
  <2>1. \A x \in Missed : x - 1 \in Left
    <3>1. TAKE x \in Missed
    <3>2. x \in 1..n
      OBVIOUS
    <3>3. x - 1 \notin S
      BY <3>2
    <3>4. QED BY <3>2, <3>3
  <2>2. \A x \in Missed : x \in Int
    OBVIOUS
  <2> HIDE DEF Missed, Left
  <2>3. down \in [Missed -> Left]
    BY <2>1
  <2>4. \A x, y \in Missed : down[x] = down[y] => x = y
    BY <2>2
  <2> HIDE DEF down
  <2>5. QED BY <2>3, <2>4 DEF Injection, IsInjective
<1> HIDE DEF Missed, down
<1>4. Cardinality(Left) = Cardinality(Missed) - 1 /\ IsFiniteSet(Left)
  BY <1>2, FS_RemoveElement
<1>5. Cardinality(Missed) <= Cardinality(Left)
  BY <1>3, <1>4, FS_Injection
<1>6. QED BY <1>2, <1>4, <1>5, FS_CardinalityType

\* The steps a group may hold while the allocator is at next: the ids it
\* brings back were all allocated before.
AllSteps == OfferedSteps \cup {"RestoreInlineAtom", "RestoreSubtree", "RestoreJoinedNode"}
BroughtBack(s) ==
  IF s.op = "RestoreSubtree" THEN DOMAIN s.nodes
  ELSE IF s.op \in {"RestoreInlineAtom", "RestoreJoinedNode"} THEN {s.id} ELSE {}
Known(s, next) == s.op \in AllSteps /\ BroughtBack(s) \subseteq 0..(next - 1)
Undo(group, next) ==
  /\ group \in Seq(Range(group))
  /\ \A s \in Range(group) : Known(s, next)
Allocated(store, next) == next \in Nat /\ DOMAIN store \subseteq 0..(next - 1)
\* What a step, or a group of them, leaves.
Sound(r, next) ==
  /\ Allocated(r.store, r.next)
  /\ next <= r.next
  /\ Undo(r.inverse, r.next)

\* A sequence of known steps is a group to undo with.
LEMMA UndoOfSteps ==
  ASSUME NEW T, NEW q \in Seq(T), NEW next, \A s \in T : Known(s, next)
  PROVE  Undo(q, next)
<1>1. Len(q) \in Nat /\ q \in [1..Len(q) -> T]
  OBVIOUS
<1>2. q \in Seq(Range(q))
  <2>1. q \in [1..Len(q) -> Range(q)]
    BY <1>1 DEF Range
  <2> QED BY <1>1, <2>1
<1>3. Range(q) \subseteq T
  BY <1>1 DEF Range
<1>4. QED BY <1>2, <1>3 DEF Undo

\* What was known stays known as the allocator grows.
LEMMA UndoKept ==
  ASSUME NEW q, NEW next \in Nat, NEW later \in Nat, next <= later, Undo(q, next)
  PROVE  Undo(q, later)
BY DEF Undo, Known

\* Groups of known steps concatenate to one.
LEMMA UndoBoth ==
  ASSUME NEW p, NEW q, NEW next, Undo(p, next), Undo(q, next)
  PROVE  Undo(p \o q, next)
<1> DEFINE T == Range(p) \cup Range(q)
<1>1. p \in Seq(T) /\ q \in Seq(T)
  <2>1. Seq(Range(p)) \subseteq Seq(T) /\ Seq(Range(q)) \subseteq Seq(T)
    OBVIOUS
  <2> QED BY <2>1 DEF Undo
<1>2. p \o q \in Seq(T)
  BY <1>1
<1>3. \A s \in T : Known(s, next)
  BY DEF Undo
<1> HIDE DEF T
<1>4. QED BY <1>2, <1>3, UndoOfSteps

\* A finite set, listed in some order.
LEMMA Listed ==
  ASSUME NEW S, IsFiniteSet(S)
  PROVE  SetToSeq(S) \in Seq(S)
<1>1. Cardinality(S) \in Nat /\ ExistsBijection(1..Cardinality(S), S)
  BY FS_CardinalityType
<1>2. PICK f \in [1..Cardinality(S) -> S] : IsInjective(f)
  BY <1>1 DEF ExistsBijection, Bijection, Injection, Surjection, IsInjective
<1>3. SetToSeq(S) \in [1..Cardinality(S) -> S]
  BY <1>2 DEF SetToSeq
<1>4. QED BY <1>1, <1>3

\* Finitely many sequences flatten to one: the recursive function of the
\* library's FlattenSeq exists, and each of its values is a sequence.
LEMMA Flat ==
  ASSUME NEW T, NEW k \in Nat, NEW qs, DOMAIN qs = 1..k, qs = [i \in 1..k |-> qs[i]],
         \A i \in 1..k : qs[i] \in Seq(T)
  PROVE  FlattenSeq(qs) \in Seq(T)
<1>1. Len(qs) = k
  OBVIOUS
<1>2. CASE k = 0
  <2>1. qs = << >>
    BY <1>1, <1>2
  <2>2. FlattenSeq(qs) = << >>
    BY <2>1 DEF FlattenSeq
  <2>3. QED BY <2>2
<1>3. CASE k > 0
  <2> DEFINE flatten[i \in 1..k] == IF i = 1 THEN qs[i] ELSE flatten[i - 1] \o qs[i]
             To(n) == \E f : f = [i \in 1..n |-> IF i = 1 THEN qs[i] ELSE f[i - 1] \o qs[i]]
             S == {n \in Nat : To(n)}
  <2>1. 0 \in S
    <3> DEFINE g == [i \in 1..0 |-> qs[i]]
    <3>1. g = [i \in 1..0 |-> IF i = 1 THEN qs[i] ELSE g[i - 1] \o qs[i]]
      OBVIOUS
    <3> HIDE DEF g
    <3>2. To(0)
      BY <3>1
    <3> HIDE DEF To
    <3>3. QED BY <3>2
  <2>2. ASSUME NEW n \in Nat, n \in S PROVE n + 1 \in S
    <3>1. PICK f : f = [i \in 1..n |-> IF i = 1 THEN qs[i] ELSE f[i - 1] \o qs[i]]
      BY <2>2
    <3> DEFINE e == IF n = 0 THEN qs[1] ELSE f[n] \o qs[n + 1]
               g == [i \in 1..(n + 1) |-> IF i = n + 1 THEN e ELSE f[i]]
    <3>2. ASSUME NEW i \in 1..(n + 1)
          PROVE  g[i] = IF i = 1 THEN qs[i] ELSE g[i - 1] \o qs[i]
      <4>1. CASE i = n + 1
        <5>1. CASE n = 0
          BY <4>1, <5>1
        <5>2. CASE n > 0
          <6>1. g[n] = f[n] /\ i # 1 /\ i - 1 = n
            BY <4>1, <5>2
          <6>2. g[i] = e
            BY <4>1
          <6>3. n # 0
            BY <5>2
          <6>4. e = f[n] \o qs[n + 1]
            BY <6>3, Zenon
          <6> HIDE DEF e, g
          <6> QED BY <4>1, <6>1, <6>2, <6>4
        <5> QED BY <5>1, <5>2
      <4>2. CASE i \in 1..n
        <5>1. g[i] = IF i = 1 THEN qs[i] ELSE f[i - 1] \o qs[i]
          <6>1. \A j \in 1..n : f[j] = IF j = 1 THEN qs[j] ELSE f[j - 1] \o qs[j]
            BY <3>1
          <6>2. g[i] = f[i]
            BY <4>2
          <6> HIDE DEF g
          <6> QED BY <4>2, <6>1, <6>2
        <5>2. CASE i = 1
          BY <5>1, <5>2
        <5>3. CASE i # 1
          <6>1. g[i - 1] = f[i - 1]
            BY <4>2, <5>3
          <6> HIDE DEF g
          <6> QED BY <5>1, <5>3, <6>1
        <5> QED BY <5>2, <5>3
      <4> QED BY <4>1, <4>2
    <3>3. g = [i \in 1..(n + 1) |-> IF i = 1 THEN qs[i] ELSE g[i - 1] \o qs[i]]
      BY <3>2
    <3> HIDE DEF g
    <3>4. To(n + 1)
      BY <3>3
    <3> HIDE DEF To
    <3>5. QED BY <3>4
  <2> HIDE DEF S
  <2>3. Nat \subseteq S
    BY <2>1, <2>2, InductionOverNat
  <2>4. \E f : f = [i \in 1..k |-> IF i = 1 THEN qs[i] ELSE f[i - 1] \o qs[i]]
    BY <2>3 DEF S
  <2>5. flatten = [i \in 1..k |-> IF i = 1 THEN qs[i] ELSE flatten[i - 1] \o qs[i]]
    BY <2>4
  <2>6. FlattenSeq(qs) = flatten[k]
    BY <1>1, <1>3 DEF FlattenSeq
  <2> HIDE DEF flatten
  <2> DEFINE U == {n \in Nat : n + 1 \in 1..k => flatten[n + 1] \in Seq(T)}
  <2>7. 0 \in U
    BY <2>5
  <2>8. ASSUME NEW n \in Nat, n \in U PROVE n + 1 \in U
    <3>1. SUFFICES ASSUME n + 2 \in 1..k PROVE flatten[n + 2] \in Seq(T)
      OBVIOUS
    <3>2. flatten[n + 2] = flatten[n + 1] \o qs[n + 2]
      <4>1. \A i \in 1..k : flatten[i] = IF i = 1 THEN qs[i] ELSE flatten[i - 1] \o qs[i]
        BY <2>5
      <4>2. n + 2 # 1 /\ (n + 2) - 1 = n + 1
        OBVIOUS
      <4> QED BY <3>1, <4>1, <4>2
    <3>3. flatten[n + 1] \in Seq(T)
      BY <2>8, <3>1
    <3> QED BY <3>1, <3>2, <3>3
  <2> HIDE DEF U
  <2>9. Nat \subseteq U
    BY <2>7, <2>8, InductionOverNat
  <2>10. k - 1 \in U
    BY <1>3, <2>9
  <2>11. QED BY <1>3, <2>6, <2>10 DEF U
<1>4. QED BY <1>2, <1>3

-----------------------------------------------------------------------------
(* Every step keeps the allocator above the ids it leaves behind.          *)

\* The spans of a range are finitely many.
LEMMA SpansAreListed ==
  ASSUME NEW c, NEW start \in Int, NEW end \in Int
  PROVE  \E k \in Nat : DOMAIN SpansWithin(c, start, end) = 1..k
<1> DEFINE cuts == SpanCuts(c, start, end)
           inner == {i \in (start + 1)..(end - 1) : c.text[i].marks # c.text[i + 1].marks}
<1>1. IsFiniteSet((start + 1)..(end - 1))
  <2>1. start + 1 \in Int /\ end - 1 \in Int
    OBVIOUS
  <2> QED BY <2>1, FS_Interval
<1>2. inner \in SUBSET ((start + 1)..(end - 1))
  OBVIOUS
<1> HIDE DEF inner
<1>3. IsFiniteSet(inner)
  BY <1>1, <1>2, FS_Subset
<1>4. IsFiniteSet(inner \cup {start} \cup {end})
  BY <1>3, FS_AddElement
<1>5. cuts = inner \cup {start} \cup {end}
  BY DEF SpanCuts, inner
<1>6. Cardinality(cuts) \in Nat /\ cuts # {} /\ IsFiniteSet(cuts)
  BY <1>4, <1>5, FS_CardinalityType
<1>7. Cardinality(cuts) # 0
  BY <1>6, FS_EmptySet
<1>8. DOMAIN SpansWithin(c, start, end) = 1..(Cardinality(cuts) - 1)
  BY DEF SpansWithin
<1> HIDE DEF cuts
<1>9. Cardinality(cuts) - 1 \in Nat
  BY <1>6, <1>7
<1>10. QED BY <1>8, <1>9

\* Steps that give marks of the schema and take any away bring no node back.
IsMarkStep(s) == s.op = "RemoveMark" \/ (s.op = "AddMark" /\ s.mark \in Marks)
MarkGroup(q) == \E T : q \in Seq(T) /\ \A s \in T : IsMarkStep(s)

\* A group of steps per span.
SpanGroups(node, spans, chosen) ==
  [i \in DOMAIN spans |->
     SetToSeq({AddMarkStep(node, spans[i].start, spans[i].end, m) : m \in chosen[i]})]
\* Its steps are mark steps.
LEMMA MarksListed ==
  ASSUME NEW node, NEW spans, NEW k \in Nat, DOMAIN spans = 1..k,
         NEW chosen, \A i \in 1..k : chosen[i] \subseteq Marks
  PROVE  MarkGroup(FlattenSeq(SpanGroups(node, spans, chosen)))
<1> DEFINE S(i) == {AddMarkStep(node, spans[i].start, spans[i].end, m) : m \in chosen[i]}
           T == UNION {S(i) : i \in 1..k}
           qs == [i \in DOMAIN spans |-> SetToSeq(S(i))]
<1>1. ASSUME NEW i \in 1..k PROVE SetToSeq(S(i)) \in Seq(T)
  <2> DEFINE make == [m \in chosen[i] |-> AddMarkStep(node, spans[i].start, spans[i].end, m)]
  <2>1. IsFiniteSet(chosen[i])
    BY MarksAreFinite, FS_Subset
  <2>2. make \in Surjection(chosen[i], S(i))
    BY DEF Surjection
  <2>3. S(i) \subseteq T
    OBVIOUS
  <2> HIDE DEF S, make, T
  <2>4. IsFiniteSet(S(i))
    BY <2>1, <2>2, FS_Surjection
  <2>5. SetToSeq(S(i)) \in Seq(S(i))
    BY <2>4, Listed
  <2>6. QED BY <2>3, <2>5
<1>2. \A s \in T : IsMarkStep(s)
  BY DEF IsMarkStep, AddMarkStep
<1> HIDE DEF S, T
<1>3. DOMAIN qs = 1..k /\ qs = [i \in 1..k |-> qs[i]]
  OBVIOUS
<1>4. \A i \in 1..k : qs[i] \in Seq(T)
  BY <1>1
<1> HIDE DEF qs
<1>5. FlattenSeq(qs) \in Seq(T)
  BY <1>3, <1>4, Flat
<1>6. QED BY <1>2, <1>5 DEF qs, S, MarkGroup, SpanGroups

\* The marks given back to restored text.
LEMMA RemarkIs ==
  ASSUME NEW node, NEW start, NEW end, NEW inherited, NEW spans, NEW k \in Nat,
         DOMAIN spans = 1..k
  PROVE  MarkGroup(Remark(node, start, end, inherited, spans))
<1> DEFINE S == {RemoveMarkStep(node, start, end, m.kind) : m \in Marks \cap inherited}
           make == [m \in Marks \cap inherited |-> RemoveMarkStep(node, start, end, m.kind)]
           chosen == [i \in 1..k |-> Marks \cap spans[i].marks]
           back == FlattenSeq([i \in DOMAIN spans |->
                     SetToSeq({AddMarkStep(node, spans[i].start, spans[i].end, m) :
                                 m \in Marks \cap spans[i].marks})])
<1>1. \A i \in 1..k : chosen[i] \subseteq Marks /\ chosen[i] = Marks \cap spans[i].marks
  OBVIOUS
<1>2. Remark(node, start, end, inherited, spans) = SetToSeq(S) \o back
  BY DEF Remark
<1>3. MarkGroup(back)
  <2> HIDE DEF chosen, S, make
  <2>1. MarkGroup(FlattenSeq(SpanGroups(node, spans, chosen)))
    BY <1>1, MarksListed
  <2>2. SpanGroups(node, spans, chosen)
        = [i \in DOMAIN spans |->
          SetToSeq({AddMarkStep(node, spans[i].start, spans[i].end, m) :
                      m \in Marks \cap spans[i].marks})]
    BY <1>1 DEF SpanGroups
  <2>3. QED BY <2>1, <2>2
<1>4. SetToSeq(S) \in Seq(S)
  <2>1. IsFiniteSet(Marks \cap inherited)
    BY MarksAreFinite, FS_Subset
  <2>2. make \in Surjection(Marks \cap inherited, S)
    BY DEF Surjection
  <2> HIDE DEF S, make
  <2>3. IsFiniteSet(S)
    BY <2>1, <2>2, FS_Surjection
  <2>4. QED BY <2>3, Listed
<1>5. \A s \in S : IsMarkStep(s)
  BY DEF IsMarkStep, RemoveMarkStep
<1> HIDE DEF S, back
<1>6. PICK T : back \in Seq(T) /\ \A s \in T : IsMarkStep(s)
  BY <1>3 DEF MarkGroup
<1> DEFINE both == S \cup T
<1>7. S \subseteq both /\ T \subseteq both /\ \A s \in both : IsMarkStep(s)
  BY <1>5, <1>6
<1> HIDE DEF both
<1>8. SetToSeq(S) \in Seq(both) /\ back \in Seq(both)
  <2>1. Seq(S) \subseteq Seq(both) /\ Seq(T) \subseteq Seq(both)
    BY <1>7
  <2>2. QED BY <1>4, <1>6, <2>1
<1>9. SetToSeq(S) \o back \in Seq(both)
  BY <1>8
<1>10. QED BY <1>2, <1>7, <1>9 DEF MarkGroup

\* The marks of a kind given back to the spans that had them.
LEMMA ReviveIs ==
  ASSUME NEW node, NEW kind, NEW spans, NEW k \in Nat, DOMAIN spans = 1..k
  PROVE  MarkGroup(ReviveMarks(node, kind, spans))
<1> DEFINE chosen == [i \in 1..k |-> {m \in Marks \cap spans[i].marks : m.kind = kind}]
<1>1. \A i \in 1..k : chosen[i] \subseteq Marks
                      /\ chosen[i] = {m \in Marks \cap spans[i].marks : m.kind = kind}
  OBVIOUS
<1> HIDE DEF chosen
<1>2. MarkGroup(FlattenSeq(SpanGroups(node, spans, chosen)))
  BY <1>1, MarksListed
<1>3. SpanGroups(node, spans, chosen)
      = [i \in DOMAIN spans |->
        SetToSeq({AddMarkStep(node, spans[i].start, spans[i].end, m) :
                    m \in {m \in Marks \cap spans[i].marks : m.kind = kind}})]
  BY <1>1 DEF SpanGroups
<1>4. QED BY <1>2, <1>3 DEF ReviveMarks

\* A group of mark steps is one to undo with.
LEMMA UndoOfMarks == ASSUME NEW q, MarkGroup(q), NEW next PROVE Undo(q, next)
<1>1. PICK T : q \in Seq(T) /\ \A s \in T : IsMarkStep(s)
  BY DEF MarkGroup
<1>2. \A s \in T : Known(s, next)
  BY <1>1 DEF IsMarkStep, Known, BroughtBack, AllSteps, OfferedSteps
<1>3. QED BY <1>1, <1>2, UndoOfSteps

\* The empty group.
LEMMA UndoNone == ASSUME NEW next PROVE Undo(<<>>, next)
<1>1. Range(<< >>) = {}
  BY DEF Range
<1>2. << >> \in Seq({})
  OBVIOUS
<1>3. QED BY <1>1, <1>2 DEF Undo

\* The group of one step.
LEMMA UndoOne == ASSUME NEW s, NEW next, Known(s, next) PROVE Undo(<<s>>, next)
<1> DEFINE T == {s}
<1>1. <<s>> \in Seq(T) /\ \A x \in T : Known(x, next)
  OBVIOUS
<1> HIDE DEF T
<1>2. QED BY <1>1, UndoOfSteps

\* A rewritten node stays in the store.
LEMMA RewriteDomain ==
  ASSUME NEW store, NEW id, NEW content
  PROVE  DOMAIN Rewrite(store, id, content) = DOMAIN store
BY DEF Rewrite

\* Ids below the allocator leave it where it is.
LEMMA CeilingOfKnown ==
  ASSUME NEW next \in Nat, NEW ids, ids \subseteq 0..(next - 1)
  PROVE  Ceiling(next, ids) = next
<1> DEFINE S == {next} \cup {id + 1 : id \in ids}
<1>1. next \in S /\ \A x \in S : x \in Nat /\ next >= x
  OBVIOUS
<1> HIDE DEF S
<1>2. Max(S) \in S /\ \A y \in S : Max(S) >= y
  BY <1>1 DEF Max
<1>3. Max(S) = next
  <2> DEFINE m == Max(S)
  <2>1. m \in Nat /\ next >= m /\ m >= next
    BY <1>1, <1>2
  <2> HIDE DEF m
  <2>2. m = next
    BY <2>1
  <2>3. QED BY <2>2 DEF m
<1>4. QED BY <1>3 DEF Ceiling, S

\* A text-only replacement.
LEMMA ReplaceTextSound ==
  ASSUME NEW w, NEW s, Allocated(w.store, w.next), NEW r \in ApplyReplaceText(w, s)
  PROVE  Sound(r, w.next)
<1> DEFINE Back(c) == <<ReplaceTextStep(s.node, s.start, s.start + Len(s.text),
                                       LettersOf(c, s.start, s.end))>>
           Marked(c) == Remark(s.node, s.start, s.end,
                               RunMarksAt(ReplaceText(c, s.start, s.end, s.text), s.start),
                               SpansWithin(c, s.start, s.end))
<1>1. PICK c \in InlineOf(w.store, s.node) :
        /\ ReplacesText(c, s.start, s.end)
        /\ r.store = Rewrite(w.store, s.node, ReplaceText(c, s.start, s.end, s.text))
        /\ r.next = w.next
        /\ r.inverse = Back(c) \o (IF s.start = s.end THEN <<>> ELSE Marked(c))
  <2>1. PICK c \in {c \in InlineOf(w.store, s.node) : ReplacesText(c, s.start, s.end)} :
          r = Done(Rewrite(w.store, s.node, ReplaceText(c, s.start, s.end, s.text)), w.next,
                   <<TextReplaced(s.node, s.start, s.end, Len(s.text))>>,
                   Back(c) \o (IF s.start = s.end THEN <<>> ELSE Marked(c)))
    BY DEF ApplyReplaceText
  <2> HIDE DEF Back, Marked
  <2>2. QED BY <2>1 DEF Done
<1>2. Undo(Back(c), w.next)
  <2>1. Known(ReplaceTextStep(s.node, s.start, s.start + Len(s.text),
                              LettersOf(c, s.start, s.end)), w.next)
    BY DEF Known, BroughtBack, ReplaceTextStep, AllSteps, OfferedSteps
  <2>2. QED BY <2>1, UndoOne
<1>3. Undo(Marked(c), w.next)
  <2>1. s.start \in Int /\ s.end \in Int
    BY <1>1 DEF ReplacesText, ValidOffset
  <2>2. PICK k \in Nat : DOMAIN SpansWithin(c, s.start, s.end) = 1..k
    BY <2>1, SpansAreListed
  <2>3. QED BY <2>2, RemarkIs, UndoOfMarks
<1> HIDE DEF Back, Marked
<1>4. Undo(r.inverse, w.next)
  <2>1. Undo(IF s.start = s.end THEN <<>> ELSE Marked(c), w.next)
    BY <1>3, UndoNone
  <2>2. QED BY <1>1, <1>2, <2>1, UndoBoth
<1>5. QED BY <1>1, <1>4, RewriteDomain DEF Sound, Allocated

\* A replacement at a seam.
LEMMA ReplaceInlineTextSound ==
  ASSUME NEW w, NEW s, Allocated(w.store, w.next), NEW r \in ApplyReplaceInlineText(w, s)
  PROVE  Sound(r, w.next)
<1> DEFINE node == s.at.node
           offset == s.at.offset
           index == s.at.index
           After(c) == ReplaceInlineText(c, offset, index, s.end, s.text,
                                        GapMarks(w.store, c, offset, index))
           Back(c) == <<ReplaceInlineTextStep(s.at, offset + Len(s.text),
                                              LettersOf(c, offset, s.end))>>
           Marked(c) == Remark(node, offset, s.end, GapMarks(w.store, After(c), offset, index),
                               SpansWithin(c, offset, s.end))
<1>1. PICK c \in InlineOf(w.store, node) :
        /\ ReplacesInlineText(c, offset, index, s.end)
        /\ r.store = Rewrite(w.store, node, After(c))
        /\ r.next = w.next
        /\ r.inverse = Back(c) \o (IF offset = s.end THEN <<>> ELSE Marked(c))
  <2> DEFINE mapped == <<InlineTextReplaced(node, offset, s.end, Len(s.text), index)>>
             back(c) == Back(c) \o (IF offset = s.end THEN <<>> ELSE Marked(c))
             result(c) == Done(Rewrite(w.store, node, After(c)), w.next, mapped, back(c))
  <2>1. r \in {result(c) : c \in {c \in InlineOf(w.store, node) :
                                  ReplacesInlineText(c, offset, index, s.end)}}
    BY Zenon DEF ApplyReplaceInlineText
  <2> HIDE DEF After, Back, Marked, mapped, node, offset, index
  <2>2. QED BY <2>1 DEF Done
<1>2. Undo(Back(c), w.next)
  <2> DEFINE step == ReplaceInlineTextStep(s.at, offset + Len(s.text),
                                           LettersOf(c, offset, s.end))
  <2>1. Known(step, w.next)
    <3>1. step.op = "ReplaceInlineText"
      BY DEF ReplaceInlineTextStep
    <3> HIDE DEF step
    <3>2. QED BY <3>1 DEF Known, BroughtBack, AllSteps, OfferedSteps
  <2>2. QED BY <2>1, UndoOne
<1>3. Undo(Marked(c), w.next)
  <2>1. offset \in Int /\ s.end \in Int
    BY <1>1 DEF ReplacesInlineText, ValidOffset, ValidGap
  <2>2. PICK k \in Nat : DOMAIN SpansWithin(c, offset, s.end) = 1..k
    BY <2>1, SpansAreListed
  <2>3. QED BY <2>2, RemarkIs, UndoOfMarks
<1> HIDE DEF Back, Marked, After
<1>4. Undo(r.inverse, w.next)
  <2>1. Undo(IF offset = s.end THEN <<>> ELSE Marked(c), w.next)
    BY <1>3, UndoNone
  <2>2. QED BY <1>1, <1>2, <2>1, UndoBoth
<1>5. QED BY <1>1, <1>4, RewriteDomain DEF Sound, Allocated

\* Adding and removing a mark.
LEMMA MarkStepsSound ==
  ASSUME NEW w, NEW s, Allocated(w.store, w.next),
         NEW r \in ApplyAddMark(w, s) \cup ApplyRemoveMark(w, s)
  PROVE  Sound(r, w.next)
<1>1. ASSUME NEW c \in Ranged(w, s), NEW kind
      PROVE  Undo(ReviveMarks(s.node, kind, SpansWithin(c, s.start, s.end)), w.next)
  <2>1. s.start \in Int /\ s.end \in Int
    BY DEF Ranged, ValidOffset
  <2>2. PICK k \in Nat : DOMAIN SpansWithin(c, s.start, s.end) = 1..k
    BY <2>1, SpansAreListed
  <2>3. QED BY <2>2, ReviveIs, UndoOfMarks
<1>2. CASE r \in ApplyAddMark(w, s)
  <2> DEFINE Off == RemoveMarkStep(s.node, s.start, s.end, s.mark.kind)
  <2>1. PICK c \in Ranged(w, s) :
          /\ r.store = Rewrite(w.store, s.node, AddMark(c, s.start, s.end, s.mark))
          /\ r.next = w.next
          /\ r.inverse = IF s.start = s.end THEN <<>>
                         ELSE <<Off>> \o ReviveMarks(s.node, s.mark.kind,
                                                     SpansWithin(c, s.start, s.end))
    <3>1. PICK c \in Ranged(w, s) :
            r = Done(Rewrite(w.store, s.node, AddMark(c, s.start, s.end, s.mark)), w.next, <<>>,
                     IF s.start = s.end THEN <<>>
                     ELSE <<Off>> \o ReviveMarks(s.node, s.mark.kind,
                                                 SpansWithin(c, s.start, s.end)))
      BY <1>2 DEF ApplyAddMark
    <3> HIDE DEF Off
    <3>2. QED BY <3>1 DEF Done
  <2>2. Known(Off, w.next)
    BY DEF Known, BroughtBack, RemoveMarkStep, AllSteps, OfferedSteps
  <2> HIDE DEF Off
  <2>3. Undo(<<Off>>, w.next)
    BY <2>2, UndoOne
  <2>4. Undo(r.inverse, w.next)
    BY <1>1, <2>1, <2>3, UndoBoth, UndoNone
  <2>5. QED BY <2>1, <2>4, RewriteDomain DEF Sound, Allocated
<1>3. CASE r \in ApplyRemoveMark(w, s)
  <2>1. PICK c \in Ranged(w, s) :
          /\ r.store = Rewrite(w.store, s.node, RemoveMark(c, s.start, s.end, s.kind))
          /\ r.next = w.next
          /\ r.inverse = ReviveMarks(s.node, s.kind, SpansWithin(c, s.start, s.end))
    BY <1>3 DEF ApplyRemoveMark, Done
  <2>2. Undo(r.inverse, w.next)
    BY <1>1, <2>1
  <2>3. QED BY <2>1, <2>2, RewriteDomain DEF Sound, Allocated
<1>4. QED BY <1>2, <1>3

\* An id at or below the allocator's last one, or the next one, is placed.
LEMMA PlaceAtomSound ==
  ASSUME NEW w, Allocated(w.store, w.next), NEW at, NEW id, NEW node,
         NEW next \in Nat, w.next <= next, id \in 0..(next - 1),
         NEW r \in PlaceAtom(w, at, id, node, next)
  PROVE  Sound(r, w.next)
<1>1. PICK c :
        /\ r.store = WithNode(Rewrite(w.store, at.node, AttachAtom(c, at.offset, at.index, id)),
                              id, node)
        /\ r.next = next
        /\ r.inverse = <<NodeStep("RemoveInlineAtom", id)>>
  BY DEF PlaceAtom, Done
<1>2. Known(NodeStep("RemoveInlineAtom", id), next)
  BY DEF Known, BroughtBack, NodeStep, AllSteps, OfferedSteps
<1>3. Undo(r.inverse, next)
  BY <1>1, <1>2, UndoOne
<1>4. DOMAIN r.store = DOMAIN w.store \cup {id}
  <2> DEFINE base == Rewrite(w.store, at.node, AttachAtom(c, at.offset, at.index, id))
  <2>1. DOMAIN base = DOMAIN w.store
    BY RewriteDomain
  <2>2. r.store = WithNode(base, id, node)
    BY <1>1
  <2> HIDE DEF base
  <2>3. DOMAIN WithNode(base, id, node) = DOMAIN base \cup {id}
    BY DEF WithNode, With
  <2>4. QED BY <2>1, <2>2, <2>3
<1>5. QED BY <1>1, <1>3, <1>4 DEF Sound, Allocated

\* Inline atoms: inserted, restored, removed, marked.
LEMMA AtomStepsSound ==
  ASSUME NEW w, NEW s, Allocated(w.store, w.next), Known(s, w.next),
         NEW r,
         \/ r \in ApplyInsertInlineAtom(w, s)
         \/ s.op = "RestoreInlineAtom" /\ r \in ApplyRestoreInlineAtom(w, s)
         \/ r \in ApplyRemoveInlineAtom(w, s)
         \/ r \in ApplySetInlineAtomMarks(w, s)
  PROVE  Sound(r, w.next)
<1>1. CASE r \in ApplyInsertInlineAtom(w, s)
  <2>1. w.next + 1 \in Nat /\ w.next <= w.next + 1 /\ w.next \in 0..((w.next + 1) - 1)
    BY DEF Allocated
  <2>2. QED BY <1>1, <2>1, PlaceAtomSound DEF ApplyInsertInlineAtom
<1>2. CASE s.op = "RestoreInlineAtom" /\ r \in ApplyRestoreInlineAtom(w, s)
  <2>1. {s.id} \subseteq 0..(w.next - 1)
    BY <1>2 DEF Known, BroughtBack
  <2>2. Ceiling(w.next, {s.id}) = w.next
    BY <2>1, CeilingOfKnown DEF Allocated
  <2>3. r \in PlaceAtom(w, s.at, s.id, s.node, w.next)
    BY <1>2, <2>2 DEF ApplyRestoreInlineAtom
  <2>4. QED BY <2>1, <2>3, PlaceAtomSound DEF Allocated
<1>3. CASE r \in ApplyRemoveInlineAtom(w, s)
  <2>1. PICK content, at, host :
          /\ s.node \in DOMAIN w.store
          /\ r.store = Without(Rewrite(w.store, host, content), {s.node})
          /\ r.next = w.next
          /\ r.inverse = <<RestoreInlineAtomStep(at, s.node, w.store[s.node])>>
    <3> DEFINE C(p) == w.store[p[1]].content
               At(p) == InlinePoint(p[1], C(p).atoms[p[2]].offset, Ordinal(C(p), p[2]))
    <3>1. PICK p \in {p \in Placings(w.store, s.node) :
                        s.node \in DOMAIN w.store /\ w.store[s.node].kind \in AtomKinds} :
            r = Done(Without(Rewrite(w.store, p[1], DetachAtom(C(p), p[2])), {s.node}), w.next,
                     <<InlineAtomRemoved(At(p).node, At(p).offset, At(p).index, s.node)>>,
                     <<RestoreInlineAtomStep(At(p), s.node, w.store[s.node])>>)
      BY <1>3 DEF ApplyRemoveInlineAtom
    <3> HIDE DEF C, At
    <3>2. QED BY <3>1 DEF Done
  <2>2. Known(RestoreInlineAtomStep(at, s.node, w.store[s.node]), w.next)
    BY <2>1 DEF Allocated, Known, BroughtBack, RestoreInlineAtomStep, AllSteps, OfferedSteps
  <2>3. Undo(r.inverse, w.next)
    BY <2>1, <2>2, UndoOne
  <2>4. DOMAIN r.store = DOMAIN w.store \ {s.node}
    BY <2>1 DEF Without, Restrict, Rewrite
  <2>5. QED BY <2>1, <2>3, <2>4 DEF Sound, Allocated
<1>4. CASE r \in ApplySetInlineAtomMarks(w, s)
  <2>1. PICK c :
          /\ r.store = Rewrite(w.store, s.node, AtomContent(s.marks))
          /\ r.next = w.next
          /\ r.inverse = <<SetInlineAtomMarksStep(s.node, c.marks)>>
    BY <1>4 DEF ApplySetInlineAtomMarks, Done
  <2>2. Known(SetInlineAtomMarksStep(s.node, c.marks), w.next)
    BY DEF Known, BroughtBack, SetInlineAtomMarksStep, AllSteps, OfferedSteps
  <2>3. Undo(r.inverse, w.next)
    BY <2>1, <2>2, UndoOne
  <2>4. QED BY <2>1, <2>3, RewriteDomain DEF Sound, Allocated
<1>5. QED BY <1>1, <1>2, <1>3, <1>4

\* Nodes: inserted, restored with their subtree, removed, changed.
LEMMA NodeStepsSound ==
  ASSUME NEW w, NEW s, Allocated(w.store, w.next), Known(s, w.next),
         NEW r,
         \/ r \in ApplyInsertNode(w, s)
         \/ s.op = "RestoreSubtree" /\ r \in ApplyRestoreSubtree(w, s)
         \/ r \in ApplyRemoveNode(w, s)
         \/ r \in ApplySetNodeAttrs(w, s)
         \/ r \in ApplySetNodeKind(w, s)
  PROVE  Sound(r, w.next)
<1>1. CASE r \in ApplyInsertNode(w, s)
  <2> DEFINE base == Insert(w.store, s.parent, s.index, w.next)
  <2>1. /\ r.store = WithNode(base, w.next, s.node)
        /\ r.next = w.next + 1
        /\ r.inverse = <<NodeStep("RemoveNode", w.next)>>
    BY <1>1 DEF ApplyInsertNode, Done
  <2>2. DOMAIN base = DOMAIN w.store
    BY RewriteDomain DEF Insert
  <2> HIDE DEF base
  <2>3. DOMAIN r.store = DOMAIN w.store \cup {w.next}
    BY <2>1, <2>2 DEF WithNode, With
  <2>4. Known(NodeStep("RemoveNode", w.next), w.next + 1)
    BY DEF Known, BroughtBack, NodeStep, AllSteps, OfferedSteps
  <2>5. Undo(r.inverse, r.next)
    BY <2>1, <2>4, UndoOne
  <2>6. QED BY <2>1, <2>3, <2>5 DEF Sound, Allocated
<1>2. CASE s.op = "RestoreSubtree" /\ r \in ApplyRestoreSubtree(w, s)
  <2> DEFINE base == Insert(w.store, s.parent, s.index, s.top)
  <2>1. DOMAIN s.nodes \subseteq 0..(w.next - 1)
    BY <1>2 DEF Known, BroughtBack
  <2>2. Ceiling(w.next, DOMAIN s.nodes) = w.next
    BY <2>1, CeilingOfKnown DEF Allocated
  <2>3. /\ r.store = With(base, s.nodes)
        /\ r.next = w.next
        /\ r.inverse = <<NodeStep("RemoveNode", s.top)>>
    BY <1>2, <2>2 DEF ApplyRestoreSubtree, Done
  <2>4. DOMAIN base = DOMAIN w.store
    BY RewriteDomain DEF Insert
  <2> HIDE DEF base
  <2>5. DOMAIN r.store = DOMAIN w.store \cup DOMAIN s.nodes
    BY <2>3, <2>4 DEF With
  <2>6. Known(NodeStep("RemoveNode", s.top), w.next)
    BY DEF Known, BroughtBack, NodeStep, AllSteps, OfferedSteps
  <2>7. Undo(r.inverse, r.next)
    BY <2>3, <2>6, UndoOne
  <2>8. QED BY <2>1, <2>3, <2>5, <2>7 DEF Sound, Allocated
<1>3. CASE r \in ApplyRemoveNode(w, s)
  <2> DEFINE gone == Subtree(w.store, s.node)
             Back(p, i) == RestoreSubtreeStep(p, i, s.node,
                                              Restrict(w.store, gone \cap DOMAIN w.store))
  <2>1. PICK p, i : /\ r.store = Without(Detach(w.store, p, s.node), gone)
                    /\ r.next = w.next
                    /\ r.inverse = <<Back(p, i)>>
    <3> DEFINE At(p) == IndexIn(w.store, p, s.node) - 1
    <3>1. PICK p \in {p \in ParentsOf(w.store, s.node) : s.node # Root} :
            r = Done(Without(Detach(w.store, p, s.node), gone), w.next,
                     <<NodeRemoved(p, At(p), gone)>>, <<Back(p, At(p))>>)
      BY <1>3 DEF ApplyRemoveNode
    <3> HIDE DEF Back, At, gone
    <3>2. QED BY <3>1 DEF Done
  <2>2. DOMAIN Restrict(w.store, gone \cap DOMAIN w.store) = gone \cap DOMAIN w.store
    BY DEF Restrict
  <2> HIDE DEF gone
  <2>3. Known(Back(p, i), w.next)
    BY <2>2 DEF Allocated, Known, BroughtBack, RestoreSubtreeStep, AllSteps, OfferedSteps
  <2> HIDE DEF Back
  <2>4. Undo(r.inverse, r.next)
    BY <2>1, <2>3, UndoOne
  <2>5. DOMAIN Detach(w.store, p, s.node) = DOMAIN w.store
    BY RewriteDomain DEF Detach
  <2>6. DOMAIN r.store = DOMAIN w.store \ gone
    BY <2>1, <2>5 DEF Without, Restrict
  <2>7. QED BY <2>1, <2>4, <2>6 DEF Sound, Allocated
<1>4. CASE r \in ApplySetNodeAttrs(w, s)
  <2>1. PICK id : /\ r.store = [w.store EXCEPT ![id].attrs = s.attrs]
                  /\ r.next = w.next
                  /\ r.inverse = <<SetNodeAttrsStep(id, w.store[id].attrs)>>
    <3>1. PICK id \in {id \in {s.node} \cap DOMAIN w.store :
                         NodeOK([w.store[id] EXCEPT !.attrs = s.attrs])} :
            r = Done([w.store EXCEPT ![id].attrs = s.attrs], w.next, <<>>,
                     <<SetNodeAttrsStep(id, w.store[id].attrs)>>)
      BY <1>4 DEF ApplySetNodeAttrs
    <3>2. QED BY <3>1 DEF Done
  <2>2. Known(SetNodeAttrsStep(id, w.store[id].attrs), w.next)
    BY DEF Known, BroughtBack, SetNodeAttrsStep, AllSteps, OfferedSteps
  <2>3. Undo(r.inverse, r.next)
    BY <2>1, <2>2, UndoOne
  <2>4. DOMAIN r.store = DOMAIN w.store
    BY <2>1
  <2>5. QED BY <2>1, <2>3, <2>4 DEF Sound, Allocated
<1>5. CASE r \in ApplySetNodeKind(w, s)
  <2>1. /\ r.store = [w.store EXCEPT ![s.node].kind = s.kind]
        /\ r.next = w.next
        /\ r.inverse = <<SetNodeKindStep(s.node, w.store[s.node].kind)>>
    BY <1>5 DEF ApplySetNodeKind, Done
  <2>2. Known(SetNodeKindStep(s.node, w.store[s.node].kind), w.next)
    BY DEF Known, BroughtBack, SetNodeKindStep, AllSteps, OfferedSteps
  <2>3. Undo(r.inverse, r.next)
    BY <2>1, <2>2, UndoOne
  <2>4. DOMAIN r.store = DOMAIN w.store
    BY <2>1
  <2>5. QED BY <2>1, <2>3, <2>4 DEF Sound, Allocated
<1>6. QED BY <1>1, <1>2, <1>3, <1>4, <1>5

\* A tail enters under a new id or the one it had.
LEMMA SplitAtSound ==
  ASSUME NEW w, Allocated(w.store, w.next), NEW at, NEW id, NEW tail,
         NEW next \in Nat, w.next <= next, id \in 0..(next - 1), NEW mixed,
         NEW r \in SplitAt(w, at, id, tail, next, mixed)
  PROVE  Sound(r, w.next)
<1> DEFINE head == HeadOf(w.store[at.node].content, at.offset, at.index)
           base(p, i) == Insert(Rewrite(w.store, at.node, head), p, i, id)
<1>1. PICK p, i : /\ r.store = WithNode(base(p, i), id, tail)
                  /\ r.next = next
                  /\ r.inverse = <<JoinNodesStep(at.node, id)>>
  BY DEF SplitAt, Done
<1>2. DOMAIN base(p, i) = DOMAIN w.store
  <2>1. DOMAIN Rewrite(w.store, at.node, head) = DOMAIN w.store
    BY RewriteDomain
  <2> HIDE DEF head
  <2>2. QED BY <2>1, RewriteDomain DEF Insert
<1> HIDE DEF base
<1>3. DOMAIN r.store = DOMAIN w.store \cup {id}
  BY <1>1, <1>2 DEF WithNode, With
<1>4. Known(JoinNodesStep(at.node, id), next)
  BY DEF Known, BroughtBack, JoinNodesStep, AllSteps, OfferedSteps
<1>5. Undo(r.inverse, r.next)
  BY <1>1, <1>4, UndoOne
<1>6. QED BY <1>1, <1>3, <1>5 DEF Sound, Allocated

\* Splits, joins and the return of a joined node.
LEMMA SplitAndJoinSound ==
  ASSUME NEW w, NEW s, Allocated(w.store, w.next), Known(s, w.next),
         NEW r,
         \/ r \in ApplySplitInlineNode(w, s)
         \/ r \in ApplySplitNode(w, s)
         \/ s.op = "RestoreJoinedNode" /\ r \in ApplyRestoreJoinedNode(w, s)
         \/ r \in ApplyJoinNodes(w, s)
  PROVE  Sound(r, w.next)
<1>1. ASSUME NEW at, NEW mixed, r \in FreshTail(w, at, mixed)
      PROVE  Sound(r, w.next)
  <2>1. PICK tail : r \in SplitAt(w, at, w.next, tail, w.next + 1, mixed)
    BY <1>1 DEF FreshTail
  <2>2. w.next + 1 \in Nat /\ w.next <= w.next + 1 /\ w.next \in 0..((w.next + 1) - 1)
    BY DEF Allocated
  <2>3. QED BY <2>1, <2>2, SplitAtSound
<1>2. CASE r \in ApplySplitInlineNode(w, s)
  BY <1>1, <1>2 DEF ApplySplitInlineNode
<1>3. CASE r \in ApplySplitNode(w, s)
  BY <1>1, <1>3 DEF ApplySplitNode
<1>4. CASE s.op = "RestoreJoinedNode" /\ r \in ApplyRestoreJoinedNode(w, s)
  <2>1. {s.id} \subseteq 0..(w.next - 1)
    BY <1>4 DEF Known, BroughtBack
  <2>2. Ceiling(w.next, {s.id}) = w.next
    BY <2>1, CeilingOfKnown DEF Allocated
  <2>3. PICK mixed : r \in SplitAt(w, s.at, s.id, s.node, w.next, mixed)
    BY <1>4, <2>2 DEF ApplyRestoreJoinedNode
  <2>4. QED BY <2>1, <2>3, SplitAtSound DEF Allocated
<1>5. CASE r \in ApplyJoinNodes(w, s)
  <2> DEFINE a == w.store[s.first].content
             b == w.store[s.second].content
             at == InlinePoint(s.first, Len(a.text), AtomCountAt(a, Len(a.text)))
             Back == RestoreJoinedNodeStep(at, s.second, w.store[s.second])
             base(p) == Detach(Rewrite(w.store, s.first, Joined(a, b)), p, s.second)
  <2>1. PICK p : /\ InlineOf(w.store, s.second) # {}
                 /\ r.store = Without(base(p), {s.second})
                 /\ r.next = w.next
                 /\ r.inverse = <<Back>>
    <3> DEFINE index(p) == IndexIn(w.store, p, s.first)
               maps(p) == <<IF a.atoms = <<>> /\ b.atoms = <<>>
                            THEN NodeJoined(p, index(p), s.first, s.second, Len(a.text))
                            ELSE InlineNodeJoined(p, index(p), s.first, s.second, Len(a.text),
                                                  at.index)>>
    <3>1. PICK p \in {p \in ParentsOf(w.store, s.first) :
                        /\ InlineOf(w.store, s.first) # {}
                        /\ InlineOf(w.store, s.second) # {}
                        /\ s.second \in Range(Kids(w.store[p]))
                        /\ IndexIn(w.store, p, s.second) = IndexIn(w.store, p, s.first) + 1} :
            r = Done(Without(base(p), {s.second}), w.next, maps(p), <<Back>>)
      BY <1>5 DEF ApplyJoinNodes
    <3> HIDE DEF a, b, at, Back, base, maps
    <3>2. QED BY <3>1 DEF Done
  <2>2. s.second \in DOMAIN w.store
    BY <2>1 DEF InlineOf, ContentIn
  <2>3. Known(Back, w.next)
    BY <2>2 DEF Allocated, Known, BroughtBack, RestoreJoinedNodeStep, AllSteps, OfferedSteps
  <2> HIDE DEF Back
  <2>4. Undo(r.inverse, r.next)
    BY <2>1, <2>3, UndoOne
  <2>5. DOMAIN base(p) = DOMAIN w.store
    <3>1. DOMAIN Rewrite(w.store, s.first, Joined(a, b)) = DOMAIN w.store
      BY RewriteDomain
    <3> HIDE DEF a, b
    <3>2. QED BY <3>1, RewriteDomain DEF Detach
  <2> HIDE DEF base
  <2>6. DOMAIN r.store = DOMAIN w.store \ {s.second}
    BY <2>1, <2>5 DEF Without, Restrict
  <2>7. QED BY <2>1, <2>4, <2>6 DEF Sound, Allocated
<1>6. QED BY <1>2, <1>3, <1>4, <1>5

\* A step whose restored ids are below the allocator leaves a store and an
\* inverse whose ids are below the allocator.
LEMMA StepIsSound ==
  ASSUME NEW w, NEW s, Allocated(w.store, w.next), Known(s, w.next), NEW r \in Apply(w, s)
  PROVE  Sound(r, w.next)
<1>1. s.op \in AllSteps
  BY DEF Known
<1>2. CASE s.op = "ReplaceText"
  BY <1>2, ReplaceTextSound DEF Apply
<1>3. CASE s.op = "ReplaceInlineText"
  BY <1>3, ReplaceInlineTextSound DEF Apply
<1>4. CASE s.op \in {"AddMark", "RemoveMark"}
  BY <1>4, MarkStepsSound DEF Apply
<1>5. CASE s.op \in {"InsertInlineAtom", "RestoreInlineAtom", "RemoveInlineAtom",
                     "SetInlineAtomMarks"}
  BY <1>5, AtomStepsSound DEF Apply
<1>6. CASE s.op \in {"InsertNode", "RestoreSubtree", "RemoveNode", "SetNodeAttrs",
                     "SetNodeKind"}
  BY <1>6, NodeStepsSound DEF Apply
<1>7. CASE s.op \in {"SplitNode", "SplitInlineNode", "RestoreJoinedNode", "JoinNodes"}
  BY <1>7, SplitAndJoinSound DEF Apply
<1>8. QED BY <1>1, <1>2, <1>3, <1>4, <1>5, <1>6, <1>7 DEF AllSteps, OfferedSteps

\* The results of the first n steps of a group.
Runs(run, w, steps) ==
  /\ run[0] = {Done(w.store, w.next, <<>>, <<>>)}
  /\ \A n \in 1..Len(steps) :
       run[n] = UNION {{AfterStep(sofar, x) : x \in Apply(sofar, steps[n])} : sofar \in run[n - 1]}
  /\ RunSteps(w, steps) = run[Len(steps)]

\* The recursive function of a run exists.
LEMMA RunUnfolds ==
  ASSUME NEW w, NEW steps, Len(steps) \in Nat
  PROVE  \E run : Runs(run, w, steps)
<1> DEFINE first == {Done(w.store, w.next, <<>>, <<>>)}
           then(results, n) ==
             UNION {{AfterStep(sofar, x) : x \in Apply(sofar, steps[n])} : sofar \in results}
           run[n \in 0..Len(steps)] == IF n = 0 THEN first ELSE then(run[n - 1], n)
           To(n) == \E f : f = [i \in 0..n |-> IF i = 0 THEN first ELSE then(f[i - 1], i)]
           S == {n \in Nat : To(n)}
<1>1. RunSteps(w, steps) = run[Len(steps)]
  BY DEF RunSteps, Chained
<1> HIDE DEF first, then
<1>3. 0 \in S
  <2> DEFINE g == [i \in 0..0 |-> first]
  <2>1. g = [i \in 0..0 |-> IF i = 0 THEN first ELSE then(g[i - 1], i)]
    OBVIOUS
  <2> HIDE DEF g
  <2>2. To(0)
    BY <2>1
  <2> HIDE DEF To
  <2>3. QED BY <2>2
<1>4. ASSUME NEW n \in Nat, n \in S PROVE n + 1 \in S
  <2>1. PICK f : f = [i \in 0..n |-> IF i = 0 THEN first ELSE then(f[i - 1], i)]
    BY <1>4
  <2>2. \A i \in 0..n : f[i] = IF i = 0 THEN first ELSE then(f[i - 1], i)
    BY <2>1
  <2> DEFINE g == [i \in 0..(n + 1) |-> IF i = n + 1 THEN then(f[n], n + 1) ELSE f[i]]
  <2>3. ASSUME NEW i \in 0..(n + 1)
        PROVE  g[i] = IF i = 0 THEN first ELSE then(g[i - 1], i)
    <3>1. CASE i = n + 1
      <4>1. g[n] = f[n] /\ g[i] = then(f[n], n + 1) /\ i # 0 /\ i - 1 = n
        BY <3>1
      <4> HIDE DEF g
      <4>2. QED BY <3>1, <4>1
    <3>2. CASE i = 0
      <4>1. g[i] = f[0] /\ 0 \in 0..n
        BY <3>2
      <4> HIDE DEF g
      <4>2. QED BY <2>2, <3>2, <4>1
    <3>3. CASE i \in 1..n
      <4>1. g[i] = f[i] /\ g[i - 1] = f[i - 1] /\ i \in 0..n /\ i # 0
        BY <3>3
      <4> HIDE DEF g
      <4>2. QED BY <2>2, <4>1
    <3>4. QED BY <3>1, <3>2, <3>3
  <2>4. g = [i \in 0..(n + 1) |-> IF i = 0 THEN first ELSE then(g[i - 1], i)]
    BY <2>3
  <2> HIDE DEF g
  <2>5. To(n + 1)
    BY <2>4
  <2> HIDE DEF To
  <2>6. QED BY <2>5
<1> HIDE DEF S
<1>5. Nat \subseteq S
  BY <1>3, <1>4, InductionOverNat
<1>6. \E f : f = [n \in 0..Len(steps) |-> IF n = 0 THEN first ELSE then(f[n - 1], n)]
  BY <1>5 DEF S
<1>7. run = [n \in 0..Len(steps) |-> IF n = 0 THEN first ELSE then(run[n - 1], n)]
  BY <1>6
<1> HIDE DEF run
<1>8. \A n \in 0..Len(steps) : run[n] = IF n = 0 THEN first ELSE then(run[n - 1], n)
  BY <1>7
<1>9. /\ run[0] = first
      /\ \A n \in 1..Len(steps) : run[n] = then(run[n - 1], n)
  <2>1. 0 \in 0..Len(steps) /\ \A n \in 1..Len(steps) : n \in 0..Len(steps) /\ n # 0
    OBVIOUS
  <2>2. QED BY <1>8, <2>1
<1>10. QED BY <1>1, <1>9 DEF Runs, first, then

\* Running a group of known steps.
LEMMA RunIsSound ==
  ASSUME NEW w, Allocated(w.store, w.next), NEW steps, Undo(steps, w.next),
         NEW r \in RunSteps(w, steps)
  PROVE  Sound(r, w.next)
<1>1. Len(steps) \in Nat /\ \A n \in 1..Len(steps) : Known(steps[n], w.next)
  BY DEF Undo, Range
<1>2. PICK run : Runs(run, w, steps)
  BY <1>1, RunUnfolds
<1> DEFINE T == {n \in Nat : n <= Len(steps) => \A x \in run[n] : Sound(x, w.next)}
<1>3. 0 \in T
  <2>1. run[0] = {Done(w.store, w.next, <<>>, <<>>)}
    BY <1>2 DEF Runs
  <2>2. QED BY <2>1, UndoNone DEF Done, Sound, Allocated
<1>4. ASSUME NEW n \in Nat, n \in T PROVE n + 1 \in T
  <2>1. SUFFICES ASSUME n + 1 <= Len(steps), NEW x \in run[n + 1] PROVE Sound(x, w.next)
    OBVIOUS
  <2>2. n + 1 \in 1..Len(steps) /\ (n + 1) - 1 = n
    BY <1>1, <2>1
  <2>3. PICK sofar \in run[n] : \E y \in Apply(sofar, steps[n + 1]) : x = AfterStep(sofar, y)
    BY <1>2, <2>1, <2>2 DEF Runs
  <2> PICK y \in Apply(sofar, steps[n + 1]) : x = AfterStep(sofar, y)
    BY <2>3
  <2>4. Sound(sofar, w.next)
    BY <1>1, <1>4, <2>1, <2>3
  <2>5. Known(steps[n + 1], sofar.next)
    <3>1. Known(steps[n + 1], w.next)
      BY <1>1, <2>2
    <3>2. QED BY <2>4, <3>1 DEF Sound, Allocated, Known
  <2>6. Sound(y, sofar.next)
    BY <2>3, <2>4, <2>5, StepIsSound DEF Sound
  <2>7. x.store = y.store /\ x.next = y.next /\ x.inverse = y.inverse \o sofar.inverse
    BY <2>3 DEF AfterStep, Done
  <2>8. Undo(sofar.inverse, y.next)
    BY <2>4, <2>6, UndoKept DEF Sound, Allocated
  <2>9. Undo(x.inverse, x.next)
    BY <2>6, <2>7, <2>8, UndoBoth DEF Sound
  <2>10. QED BY <2>4, <2>6, <2>7, <2>9 DEF Sound, Allocated
<1> HIDE DEF T
<1>5. Nat \subseteq T
  BY <1>3, <1>4, InductionOverNat
<1>6. QED BY <1>1, <1>2, <1>5 DEF T, Runs

-----------------------------------------------------------------------------
(* Ids are never reused.                                                   *)

\* The ids of both stores, of every store ever published and of every step
\* an inverse would apply are below the allocator, and the allocator of the
\* running transaction is not behind the published one.
IdsInv ==
  /\ Allocated(doc.store, doc.next)
  /\ Allocated(work.store, work.next)
  /\ doc.next <= work.next
  /\ used \subseteq 0..(doc.next - 1)
  /\ Undo(inverse, work.next)

\* The first snapshot has an allocator above its ids.
LEMMA InitIds == Init => IdsInv
BY FirstAllocator, UndoNone DEF Init, IdsInv, Allocated

\* Offered steps bring nothing back.
LEMMA OfferedAreKnown ==
  ASSUME NEW store, NEW s \in Offered(store), NEW next
  PROVE  Known(s, next)
<1>1. PICK op \in Ops : s \in StepsOf(op, store)
  BY DEF Offered
<1>2. op \in OfferedSteps
  BY OpsAreOffered
<1>3. s.op = op
  BY <1>1, <1>2 DEF OfferedSteps, StepsOf, ReplaceTextStep, ReplaceInlineTextStep, AddMarkStep,
     RemoveMarkStep, InsertInlineAtomStep, SetInlineAtomMarksStep, InsertNodeStep,
     SetNodeAttrsStep, SetNodeKindStep, SplitNodeStep, SplitInlineNodeStep, JoinNodesStep, NodeStep
<1>4. QED BY <1>2, <1>3 DEF Known, BroughtBack, AllSteps, OfferedSteps

\* A step, a commit, a rejection and an undo keep the ids below.
LEMMA NextIds == IdsInv /\ [Next]_vars => IdsInv'
<1> SUFFICES ASSUME IdsInv, [Next]_vars PROVE IdsInv'
  OBVIOUS
<1>1. ASSUME NEW s \in Offered(work.store), Step(s) PROVE IdsInv'
  <2>1. PICK r \in Apply(work, s) :
          /\ work' = [store |-> r.store, next |-> r.next]
          /\ inverse' = AfterStep(SoFar, r).inverse
    BY <1>1 DEF Step
  <2>2. Sound(r, work.next)
    BY <2>1, OfferedAreKnown, StepIsSound DEF IdsInv
  <2>3. Undo(SoFar.inverse, work.next)
    BY UndoNone DEF SoFar, Done, IdsInv
  <2>4. Undo(SoFar.inverse, r.next)
    BY <2>2, <2>3, UndoKept DEF Sound, Allocated, IdsInv
  <2>5. Undo(inverse', work.next')
    BY <2>1, <2>2, <2>4, UndoBoth DEF AfterStep, Done, Sound
  <2>6. UNCHANGED <<doc, used>>
    BY <1>1 DEF Step
  <2>7. Undo(inverse, work.next)'
    BY <2>5
  <2>8. QED BY <2>1, <2>2, <2>6, <2>7 DEF IdsInv, Sound, Allocated
<1>2. CASE Commit
  <2>1. /\ doc' = [store |-> work.store, next |-> work.next, revision |-> doc.revision + 1]
        /\ used' = used \cup DOMAIN work.store
        /\ work' = work /\ inverse' = inverse
    BY <1>2 DEF Commit
  <2>2. Undo(inverse, work.next)'
    BY <2>1 DEF IdsInv
  <2>3. used' \subseteq 0..(work.next - 1)
    <3>1. 0..(doc.next - 1) \subseteq 0..(work.next - 1)
      BY DEF IdsInv, Allocated
    <3>2. QED BY <2>1, <3>1 DEF IdsInv, Allocated
  <2>4. doc'.next = work.next /\ doc'.store = work.store
    BY <2>1
  <2>5. Allocated(doc.store, doc.next)' /\ Allocated(work.store, work.next)'
    BY <2>1, <2>4 DEF IdsInv, Allocated
  <2>6. (doc.next <= work.next)'
    BY <2>1, <2>4 DEF IdsInv, Allocated
  <2>7. QED BY <2>2, <2>3, <2>4, <2>5, <2>6 DEF IdsInv
<1>3. CASE Reject
  <2>1. Undo(inverse, work.next)'
    BY <1>3, UndoNone DEF Reject
  <2>2. QED BY <1>3, <2>1 DEF Reject, IdsInv, Allocated
<1>4. CASE ApplyInverse
  <2>1. PICK r \in RunSteps(work, inverse) :
          /\ doc' = [store |-> r.store, next |-> r.next, revision |-> doc.revision + 1]
          /\ work' = [store |-> r.store, next |-> r.next]
          /\ inverse' = r.inverse
          /\ used' = used \cup DOMAIN r.store
    BY <1>4 DEF ApplyInverse
  <2>2. Sound(r, work.next)
    BY <2>1, RunIsSound DEF IdsInv
  <2>3. Undo(inverse, work.next)'
    BY <2>1, <2>2 DEF Sound
  <2>4. /\ doc'.store = r.store /\ doc'.next = r.next
        /\ work'.store = r.store /\ work'.next = r.next
    BY <2>1
  <2>5. used' \subseteq 0..(r.next - 1)
    <3>1. doc.next <= r.next /\ DOMAIN r.store \subseteq 0..(r.next - 1)
      BY <2>2 DEF IdsInv, Sound, Allocated
    <3>2. 0..(doc.next - 1) \subseteq 0..(r.next - 1)
      BY <2>2, <3>1 DEF IdsInv, Sound, Allocated
    <3>3. QED BY <2>1, <3>1, <3>2 DEF IdsInv
  <2>6. Allocated(doc.store, doc.next)' /\ Allocated(work.store, work.next)'
    BY <2>2, <2>4 DEF Sound, Allocated
  <2>7. (doc.next <= work.next)'
    BY <2>4, <2>6 DEF Allocated
  <2>8. QED BY <2>3, <2>4, <2>5, <2>6, <2>7 DEF IdsInv
<1>5. CASE UNCHANGED vars
  <2>1. doc' = doc /\ work' = work /\ used' = used /\ inverse' = inverse
    BY <1>5 DEF vars
  <2>2. Undo(inverse, work.next)'
    BY <2>1 DEF IdsInv
  <2>3. /\ doc'.store = doc.store /\ doc'.next = doc.next
        /\ work'.store = work.store /\ work'.next = work.next
    BY <2>1
  <2>4. used' \subseteq 0..(doc'.next - 1)
    BY <2>1, <2>3 DEF IdsInv
  <2>5. doc'.next <= work'.next
    BY <2>3 DEF IdsInv
  <2>6. Allocated(doc.store, doc.next)' /\ Allocated(work.store, work.next)'
    BY <2>3 DEF IdsInv, Allocated
  <2>7. QED BY <2>2, <2>4, <2>5, <2>6 DEF IdsInv
<1>6. QED BY <1>1, <1>2, <1>3, <1>4, <1>5 DEF Next

\* The published allocator is not ahead of the running one.
LEMMA IdsFromInv == IdsInv => IdsNeverReused
<1> SUFFICES ASSUME IdsInv PROVE IdsNeverReused
  OBVIOUS
<1>1. doc.next \in Nat /\ work.next \in Nat /\ doc.next <= work.next
  BY DEF IdsInv, Allocated
<1>2. 0..(doc.next - 1) \subseteq 0..(work.next - 1)
  BY <1>1
<1>3. QED BY <1>2 DEF IdsInv, IdsNeverReused, Allocated

\* An id a snapshot ever held is below the allocator for good, whatever was
\* removed, restored, joined or rejected in between: no new node takes the
\* identity of a dead one (apply.rs allocate_node, subtree_restore.rs).
THEOREM IdsNeverReusedAlways == Spec => []IdsNeverReused
<1>1. Spec => []IdsInv
  BY InitIds, NextIds, PTL DEF Spec
<1>2. QED BY <1>1, IdsFromInv, PTL

-----------------------------------------------------------------------------
(* Step maps keep the order of the positions of a node.                    *)

InlinePoints(ids) == [node : ids, offset : Nat, index : Nat]
NotBehind(p, q) == p.offset < q.offset \/ (p.offset = q.offset /\ p.index <= q.index)

\* The maps of the inline steps, with the numbers a step records.
InlineMaps(ids) ==
  {InlineTextReplaced(n, start, end, len, seam) :
     n \in ids, start \in Nat, end \in Nat, len \in Nat, seam \in Nat}
  \cup {TextReplaced(n, start, end, len) : n \in ids, start \in Nat, end \in Nat, len \in Nat}
  \cup {InlineAtomInserted(n, offset, index) : n \in ids, offset \in Nat, index \in Nat}
  \cup {InlineAtomRemoved(n, offset, index, atom) :
          n \in ids, offset \in Nat, index \in Nat, atom \in ids}
  \cup {InlineNodeSplit(parent, index, at, new) :
          parent \in ids, index \in Nat, at \in InlinePoints(ids), new \in ids}
  \cup {NodeSplit(parent, index, n, offset, new) :
          parent \in ids, index \in Nat, n \in ids, offset \in Nat, new \in ids}
  \cup {InlineNodeJoined(parent, index, first, second, len, seam) :
          parent \in ids, index \in Nat, first \in ids, second \in ids, len \in Nat, seam \in Nat}
  \cup {NodeJoined(parent, index, first, second, len) :
          parent \in ids, index \in Nat, first \in ids, second \in ids, len \in Nat}

\* What the step that records a map checked of the node: a range is a range,
\* a node is split from and joined to another one, a text edit that deletes
\* finds no atom of its start behind the seam, the text-only one no atom in
\* its range at all, and a point of the first of two joined nodes lies in it
\* (inline.rs, structure.rs).
Checked(m, p) ==
  /\ m.map \in {"TextReplaced", "InlineTextReplaced"} => m.start <= m.end
  /\ m.map = "TextReplaced" /\ p.node = m.node /\ p.offset \in m.start..m.end => p.index = 0
  /\ m.map = "InlineTextReplaced" /\ p.node = m.node /\ m.start < m.end /\ p.offset = m.start =>
       p.index <= m.seam
  /\ m.map \in {"InlineNodeSplit", "NodeSplit"} => m.inserted # m.at.node
  /\ m.map \in {"InlineNodeJoined", "NodeJoined"} => m.first # m.second
  /\ m.map \in {"InlineNodeJoined", "NodeJoined"} /\ p.node = m.first =>
       NotBehind(p, InlinePoint(m.first, m.firstLen, m.seam))

\* p comes first: in one node, or in the first of two nodes about to join.
FirstBefore(m, p, q) ==
  \/ p.node = q.node /\ NotBehind(p, q)
  \/ /\ m.map \in {"InlineNodeJoined", "NodeJoined"}
     /\ p.node = m.first /\ q.node = m.second
\* It still does: in one node, or in the head of one that was split.
FirstAfter(m, p, q) ==
  \/ p.node = q.node /\ NotBehind(p, q)
  \/ /\ m.map \in {"InlineNodeSplit", "NodeSplit"}
     /\ p.node = m.at.node /\ q.node = m.inserted

\* Text-only replacement.
LEMMA TextReplacedKeepsOrder ==
  ASSUME NEW ids, NEW n \in ids, NEW start \in Nat, NEW end \in Nat, NEW len \in Nat,
         NEW p \in InlinePoints(ids), NEW q \in InlinePoints(ids), NEW bias \in Biases,
         NEW m, m = TextReplaced(n, start, end, len),
         Checked(m, p), Checked(m, q), FirstBefore(m, p, q)
  PROVE  FirstAfter(m, MapInlinePoint(m, p, bias), MapInlinePoint(m, q, bias))
<1>1. p.node = q.node /\ NotBehind(p, q) /\ start <= end
  BY DEF FirstBefore, TextReplaced, Checked
<1>2. ASSUME NEW x \in InlinePoints(ids), x.node = n
      PROVE  MapInlinePoint(m, x, bias)
             = [node |-> n, offset |-> OffsetOver(m, x.offset, bias), index |-> x.index]
  <2>1. MapInlinePoint(m, x, bias) = [x EXCEPT !.offset = OffsetOver(m, @, bias)]
    BY <1>2 DEF MapInlinePoint, MapTextPoint, TextReplaced
  <2>2. QED BY <1>2, <2>1 DEF InlinePoints
<1>3. ASSUME NEW x \in InlinePoints(ids), x.node # n
      PROVE  MapInlinePoint(m, x, bias) = x
  BY <1>3 DEF MapInlinePoint, MapTextPoint, TextReplaced
<1>4. CASE p.node # n
  BY <1>1, <1>3, <1>4 DEF FirstAfter
<1>5. CASE p.node = n
  <2>1. OffsetOver(m, p.offset, bias) \in Int /\ OffsetOver(m, q.offset, bias) \in Int
    BY <1>1 DEF OffsetOver, TextReplaced, InlinePoints, Biases
  <2>2. \/ OffsetOver(m, p.offset, bias) < OffsetOver(m, q.offset, bias)
        \/ OffsetOver(m, p.offset, bias) = OffsetOver(m, q.offset, bias) /\ p.index <= q.index
    BY <1>1, <1>5 DEF OffsetOver, TextReplaced, InlinePoints, Checked, NotBehind, Biases
  <2>3. /\ MapInlinePoint(m, p, bias)
             = [node |-> n, offset |-> OffsetOver(m, p.offset, bias), index |-> p.index]
        /\ MapInlinePoint(m, q, bias)
             = [node |-> n, offset |-> OffsetOver(m, q.offset, bias), index |-> q.index]
    BY <1>1, <1>2, <1>5
  <2>4. QED BY <2>2, <2>3 DEF FirstAfter, NotBehind
<1>6. QED BY <1>4, <1>5

\* Replacement at a seam.
LEMMA InlineTextReplacedKeepsOrder ==
  ASSUME NEW ids, NEW n \in ids, NEW start \in Nat, NEW end \in Nat, NEW len \in Nat,
         NEW seam \in Nat,
         NEW p \in InlinePoints(ids), NEW q \in InlinePoints(ids), NEW bias \in Biases,
         NEW m, m = InlineTextReplaced(n, start, end, len, seam),
         Checked(m, p), Checked(m, q), FirstBefore(m, p, q)
  PROVE  FirstAfter(m, MapInlinePoint(m, p, bias), MapInlinePoint(m, q, bias))
<1>1. p.node = q.node /\ NotBehind(p, q) /\ start <= end
  BY DEF FirstBefore, InlineTextReplaced, Checked
<1>2. ASSUME NEW x \in InlinePoints(ids), x.node = n
      PROVE  MapInlinePoint(m, x, bias) = OverSeam(m, x, bias)
  BY <1>2 DEF MapInlinePoint, InlineTextReplaced
<1>3. ASSUME NEW x \in InlinePoints(ids), x.node # n
      PROVE  MapInlinePoint(m, x, bias) = x
  BY <1>3 DEF MapInlinePoint, MapTextPoint, InlineTextReplaced
<1>4. CASE p.node # n
  BY <1>1, <1>3, <1>4 DEF FirstAfter
<1>5. CASE p.node = n
  <2>1. OverSeam(m, p, bias).node = n /\ OverSeam(m, q, bias).node = n
    BY <1>1, <1>5 DEF OverSeam, BehindReplacement, InlineTextReplaced, InlinePoints
  <2>2. NotBehind(OverSeam(m, p, bias), OverSeam(m, q, bias))
    BY <1>1, <1>5 DEF OverSeam, BehindReplacement, InlineTextReplaced, InlinePoints,
       Checked, NotBehind, Biases
  <2>3. QED BY <1>1, <1>2, <1>5, <2>1, <2>2 DEF FirstAfter
<1>6. QED BY <1>4, <1>5

\* An atom comes or goes.
LEMMA AtomMapsKeepOrder ==
  ASSUME NEW ids, NEW n \in ids, NEW offset \in Nat, NEW index \in Nat, NEW atom,
         NEW p \in InlinePoints(ids), NEW q \in InlinePoints(ids), NEW bias \in Biases,
         NEW m,
         \/ m = InlineAtomInserted(n, offset, index)
         \/ m = InlineAtomRemoved(n, offset, index, atom),
         FirstBefore(m, p, q)
  PROVE  FirstAfter(m, MapInlinePoint(m, p, bias), MapInlinePoint(m, q, bias))
<1>1. p.node = q.node /\ NotBehind(p, q)
  BY DEF FirstBefore, InlineAtomInserted, InlineAtomRemoved
<1>2. CASE m = InlineAtomInserted(n, offset, index)
  <2>1. ASSUME NEW x \in InlinePoints(ids)
        PROVE  MapInlinePoint(m, x, bias) =
                 IF x.node = n /\ x.offset = offset
                 THEN IF x.index > index \/ (x.index = index /\ bias = "End")
                      THEN [x EXCEPT !.index = @ + 1] ELSE x
                 ELSE x
    BY <1>2 DEF MapInlinePoint, MapTextPoint, InlineAtomInserted
  <2>2. QED BY <1>1, <2>1 DEF FirstAfter, NotBehind, InlinePoints
<1>3. CASE m = InlineAtomRemoved(n, offset, index, atom)
  <2>1. ASSUME NEW x \in InlinePoints(ids)
        PROVE  MapInlinePoint(m, x, bias) =
                 IF x.node = n /\ x.offset = offset
                 THEN IF x.index > index THEN [x EXCEPT !.index = @ - 1] ELSE x
                 ELSE x
    BY <1>3 DEF MapInlinePoint, MapTextPoint, InlineAtomRemoved
  <2>2. QED BY <1>1, <2>1 DEF FirstAfter, NotBehind, InlinePoints
<1>4. QED BY <1>2, <1>3

\* A node is split, at an offset or at a gap between atoms.
LEMMA SplitKeepsOrder ==
  ASSUME NEW ids, NEW parent, NEW place, NEW at \in InlinePoints(ids), NEW new \in ids,
         NEW p \in InlinePoints(ids), NEW q \in InlinePoints(ids), NEW bias \in Biases,
         NEW m,
         \/ m = InlineNodeSplit(parent, place, at, new)
         \/ m = NodeSplit(parent, place, at.node, at.offset, new),
         Checked(m, p), Checked(m, q), FirstBefore(m, p, q)
  PROVE  FirstAfter(m, MapInlinePoint(m, p, bias), MapInlinePoint(m, q, bias))
<1>1. p.node = q.node /\ NotBehind(p, q) /\ new # at.node
  BY DEF FirstBefore, InlineNodeSplit, NodeSplit, InlinePoint, Checked
<1>2. CASE m = InlineNodeSplit(parent, place, at, new)
  <2>1. ASSUME NEW x \in InlinePoints(ids)
        PROVE  MapInlinePoint(m, x, bias) =
                 IF /\ x.node = at.node
                    /\ \/ AfterGap(x, at)
                       \/ x.offset = at.offset /\ x.index = at.index /\ bias = "End"
                 THEN [node   |-> new,
                       offset |-> x.offset - at.offset,
                       index  |-> IF x.offset = at.offset THEN x.index - at.index ELSE x.index]
                 ELSE x
    BY <1>2 DEF MapInlinePoint, MapTextPoint, InlineNodeSplit
  <2>2. m.map = "InlineNodeSplit" /\ m.at = at /\ m.inserted = new
    BY <1>2 DEF InlineNodeSplit
  <2>3. QED BY <1>1, <2>1, <2>2 DEF FirstAfter, NotBehind, InlinePoints, AfterGap
<1>3. CASE m = NodeSplit(parent, place, at.node, at.offset, new)
  <2> DEFINE Behind(x) == /\ x.node = at.node
                          /\ x.offset > at.offset \/ (x.offset = at.offset /\ bias = "End")
             Image(x) == MapInlinePoint(m, x, bias)
  <2>1. ASSUME NEW x \in InlinePoints(ids)
        PROVE  /\ Image(x).node = IF Behind(x) THEN new ELSE x.node
               /\ Image(x).offset = IF Behind(x) THEN x.offset - at.offset ELSE x.offset
               /\ Image(x).index = x.index
    <3>1. Image(x) = IF Behind(x) THEN [x EXCEPT !.node = new, !.offset = @ - at.offset] ELSE x
      BY <1>3 DEF MapInlinePoint, MapTextPoint, NodeSplit, InlinePoint, TextToTail
    <3> HIDE DEF Behind, Image
    <3>2. QED BY <3>1 DEF InlinePoints
  <2>2. m.map = "NodeSplit" /\ m.at.node = at.node /\ m.inserted = new
    BY <1>3 DEF NodeSplit, InlinePoint
  <2> HIDE DEF Image
  <2>3. FirstAfter(m, Image(p), Image(q))
    BY <1>1, <2>1, <2>2 DEF FirstAfter, NotBehind, InlinePoints
  <2>4. QED BY <2>3 DEF Image
<1>4. QED BY <1>2, <1>3

\* Two nodes are joined.
LEMMA JoinKeepsOrder ==
  ASSUME NEW ids, NEW parent, NEW place, NEW first \in ids, NEW second \in ids,
         NEW len \in Nat, NEW seam \in Nat,
         NEW p \in InlinePoints(ids), NEW q \in InlinePoints(ids), NEW bias \in Biases,
         NEW m,
         \/ m = InlineNodeJoined(parent, place, first, second, len, seam)
         \/ m = NodeJoined(parent, place, first, second, len),
         Checked(m, p), Checked(m, q), FirstBefore(m, p, q)
  PROVE  FirstAfter(m, MapInlinePoint(m, p, bias), MapInlinePoint(m, q, bias))
<1>1. CASE m = InlineNodeJoined(parent, place, first, second, len, seam)
  <2>1. ASSUME NEW x \in InlinePoints(ids)
        PROVE  MapInlinePoint(m, x, bias) =
                 IF x.node = second
                 THEN [node   |-> first,
                       offset |-> len + x.offset,
                       index  |-> IF x.offset = 0 THEN seam + x.index ELSE x.index]
                 ELSE x
    BY <1>1 DEF MapInlinePoint, MapTextPoint, InlineNodeJoined
  <2>2. /\ m.map = "InlineNodeJoined" /\ m.first = first /\ m.second = second
        /\ m.firstLen = len /\ m.seam = seam
    BY <1>1 DEF InlineNodeJoined
  <2>3. QED BY <2>1, <2>2 DEF FirstBefore, FirstAfter, Checked, NotBehind, InlinePoints,
                             InlinePoint
<1>2. CASE m = NodeJoined(parent, place, first, second, len)
  <2> DEFINE Image(x) == MapInlinePoint(m, x, bias)
  <2>1. ASSUME NEW x \in InlinePoints(ids)
        PROVE  /\ Image(x).node = IF x.node = second THEN first ELSE x.node
               /\ Image(x).offset = IF x.node = second THEN x.offset + len ELSE x.offset
               /\ Image(x).index = x.index
    <3>1. Image(x) = IF x.node = second THEN [x EXCEPT !.node = first, !.offset = @ + len] ELSE x
      BY <1>2 DEF MapInlinePoint, MapTextPoint, NodeJoined
    <3> HIDE DEF Image
    <3>2. QED BY <3>1 DEF InlinePoints
  <2>2. /\ m.map = "NodeJoined" /\ m.first = first /\ m.second = second
        /\ m.firstLen = len /\ m.seam = 0
    BY <1>2 DEF NodeJoined
  <2> HIDE DEF Image
  <2>3. FirstAfter(m, Image(p), Image(q))
    BY <2>1, <2>2 DEF FirstBefore, FirstAfter, Checked, NotBehind, InlinePoints, InlinePoint
  <2>4. QED BY <2>3 DEF Image
<1>3. QED BY <1>1, <1>2

\* No inline edit, split or join swaps two positions, whichever bias a caller
\* gives: a range keeps its anchor on the same side of its head through every
\* step (mapping.rs map_text_point, inline_mapping.rs map_inline_point).
THEOREM InlineMapsKeepOrder ==
  ASSUME NEW ids, NEW m \in InlineMaps(ids), NEW bias \in Biases,
         NEW p \in InlinePoints(ids), NEW q \in InlinePoints(ids),
         Checked(m, p), Checked(m, q), FirstBefore(m, p, q)
  PROVE  FirstAfter(m, MapInlinePoint(m, p, bias), MapInlinePoint(m, q, bias))
<1>1. CASE \E n \in ids, start \in Nat, end \in Nat, len \in Nat, seam \in Nat :
             m = InlineTextReplaced(n, start, end, len, seam)
  BY <1>1, InlineTextReplacedKeepsOrder
<1>2. CASE \E n \in ids, start \in Nat, end \in Nat, len \in Nat : m = TextReplaced(n, start, end, len)
  BY <1>2, TextReplacedKeepsOrder
<1>3. CASE \E n \in ids, offset \in Nat, index \in Nat : m = InlineAtomInserted(n, offset, index)
  BY <1>3, AtomMapsKeepOrder
<1>4. CASE \E n \in ids, offset \in Nat, index \in Nat, atom \in ids :
             m = InlineAtomRemoved(n, offset, index, atom)
  BY <1>4, AtomMapsKeepOrder
<1>5. CASE \E parent \in ids, index \in Nat, at \in InlinePoints(ids), new \in ids :
             m = InlineNodeSplit(parent, index, at, new)
  BY <1>5, SplitKeepsOrder
<1>6. CASE \E parent \in ids, index \in Nat, n \in ids, offset \in Nat, new \in ids :
             m = NodeSplit(parent, index, n, offset, new)
  <2>1. PICK parent \in ids, index \in Nat, n \in ids, offset \in Nat, new \in ids :
          m = NodeSplit(parent, index, n, offset, new)
    BY <1>6
  <2> DEFINE at == InlinePoint(n, offset, 0)
  <2>2. at \in InlinePoints(ids) /\ m = NodeSplit(parent, index, at.node, at.offset, new)
    BY <2>1 DEF InlinePoints, InlinePoint
  <2> HIDE DEF at
  <2>3. QED BY <2>2, SplitKeepsOrder
<1>7. CASE \E parent \in ids, index \in Nat, first \in ids, second \in ids, len \in Nat,
             seam \in Nat : m = InlineNodeJoined(parent, index, first, second, len, seam)
  BY <1>7, JoinKeepsOrder
<1>8. CASE \E parent \in ids, index \in Nat, first \in ids, second \in ids, len \in Nat :
             m = NodeJoined(parent, index, first, second, len)
  BY <1>8, JoinKeepsOrder
<1>9. QED BY <1>1, <1>2, <1>3, <1>4, <1>5, <1>6, <1>7, <1>8 DEF InlineMaps
=============================================================================
