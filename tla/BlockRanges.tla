----------------------------- MODULE BlockRanges -----------------------------
(***************************************************************************)
(* Planners over selections of more than one place: deleting from one      *)
(* block into another, marks over a range, whole atomic blocks, images and *)
(* task boxes (crates/xiaomu-runtime/src/session/: cross_block.rs,         *)
(* cross_block_atom.rs, marks.rs, atomic_block.rs, image.rs,               *)
(* task_checked.rs).                                                       *)
(***************************************************************************)
EXTENDS BlockStructure

-----------------------------------------------------------------------------
(* Deleting across blocks: head and tail are gaps of two blocks.           *)

BlocksBetween(store, head, tail) ==
  LET blocks == InlineBlocks(store, Root)
  IN SubSeq(blocks, SelectInSeq(blocks, LAMBDA n : n = head) + 1,
            SelectInSeq(blocks, LAMBDA n : n = tail) - 1)

\* The outermost containers that hold nothing once these blocks are gone; a
\* container that was empty before counts as something.
EmptiedContainers(store, removed) ==
  LET gone[id \in DOMAIN store] ==
        id \in removed \/ (Kids(store[id]) # <<>> /\ \A k \in Range(Kids(store[id])) : gone[k])
      emptied == {id \in DOMAIN store \ (removed \cup {Root}) : gone[id]}
  IN SetToSortSeq({id \in emptied : ParentsOf(store, id) \cap emptied = {}}, <)

ClearedSteps(store, head, tail) ==
  LET middle == BlocksBetween(store, head, tail)
  IN RemoveNodes(middle \o EmptiedContainers(store, Range(middle) \cup {tail}))

\* Without atoms: the tail moves behind the head, loses its prefix and joins.
CrossTextSteps(store, head, tail) ==
  LET len == Len(store[head.node].content.text)
  IN (IF head.offset = len THEN <<>> ELSE <<ReplaceTextStep(head.node, head.offset, len, <<>>)>>)
       \o MoveSteps(store, tail.node, ParentOf(store, head.node), Place(store, head.node) + 1)
       \o (IF tail.offset = 0 THEN <<>> ELSE <<ReplaceTextStep(tail.node, 0, tail.offset, <<>>)>>)
       \o <<JoinNodesStep(head.node, tail.node)>>
       \o ClearedSteps(store, head.node, tail.node)

\* Mutant: an atom at the tail's own boundary keeps its ordinal.
MovedAtomStepsKeepOrdinal(store, head, tail, c, i) ==
  LET p == c.atoms[i]
  IN <<NodeStep("RemoveInlineAtom", p.atom),
       RestoreInlineAtomStep(InlinePoint(head.node, head.offset + p.offset - tail.offset, Ordinal(c, i)),
                             p.atom, store[p.atom])>>

\* An atom behind the tail's gap moves under the head with its identity.
MovedAtomSteps(store, head, tail, c, i) ==
  LET p == c.atoms[i]
      index == IF p.offset = tail.offset THEN head.index + Ordinal(c, i) - tail.index ELSE Ordinal(c, i)
  IN <<NodeStep("RemoveInlineAtom", p.atom),
       RestoreInlineAtomStep(InlinePoint(head.node, head.offset + p.offset - tail.offset, index),
                             p.atom, store[p.atom])>>

\* With atoms: the tail's suffix is written behind the head, letters, marks
\* and atoms, and the tail goes.
CrossAtomSteps(store, head, tail) ==
  LET a == store[head.node].content
      b == store[tail.node].content
      len == Len(b.text)
      kept == AtomsBefore(b, tail.offset, tail.index)
  IN RemoveAtoms(AtomsInsideSpan(a, head, EndOf(a)))
       \o <<ReplaceInlineTextStep(head, Len(a.text), LettersOf(b, tail.offset, len))>>
       \o PushRunMarks(head.node, head.offset, b, tail.offset, len)
       \o FlattenSeq([i \in 1..(Len(b.atoms) - kept) |-> MovedAtomSteps(store, head, tail, b, kept + i)])
       \o <<NodeStep("RemoveNode", tail.node)>>
       \o ClearedSteps(store, head.node, tail.node)

CrossDeletionSteps(store, head, tail) ==
  LET atoms == store[head.node].content.atoms # <<>> \/ store[tail.node].content.atoms # <<>>
  IN IF atoms THEN CrossAtomSteps(store, head, tail) ELSE CrossTextSteps(store, head, tail)
PlanCrossDeletion(w, head, tail) ==
  Planned(CrossDeletionSteps(w.store, head, tail), CaretAt(head))

-----------------------------------------------------------------------------
(* Marks over a range.                                                     *)

Span(store, node, start, end) ==
  [node |-> node, start |-> start.offset, end |-> end.offset,
   atoms |-> AtomsInsideSpan(store[node].content, start, end)]

\* The parts of the blocks from one gap to another, a block in between whole.
SelectedSpans(store, head, tail) ==
  LET middle == IF head.node = tail.node THEN <<>>
                ELSE Append(BlocksBetween(store, head.node, tail.node), tail.node)
      blocks == <<head.node>> \o middle
  IN [i \in DOMAIN blocks |->
        Span(store, blocks[i],
             IF i = 1 THEN head ELSE InlinePoint(blocks[i], 0, 0),
             IF i = Len(blocks) THEN tail ELSE TextEnd(store, blocks[i]))]
WholeSpans(store, top) ==
  LET blocks == InlineBlocks(store, top)
  IN [i \in DOMAIN blocks |->
        Span(store, blocks[i], InlinePoint(blocks[i], 0, 0), TextEnd(store, blocks[i]))]

LetterMarks(store, s) == {store[s.node].content.text[i].marks : i \in (s.start + 1)..s.end}
AtomMarks(store, s) == {store[a].content.marks : a \in Range(s.atoms)}

\* Toggling takes a kind off only where everything carries it.
MarkChange(intent, fully) ==
  CASE intent.intent = "ToggleMark" -> IF fully THEN {} ELSE {intent.mark}
    [] intent.intent = "SetMark" -> {intent.mark}
    [] intent.intent = "RemoveMark" -> {}

PlanMarks(w, spans, intent) ==
  LET kind == intent.mark.kind
      all == UNION {LetterMarks(w.store, s) \cup AtomMarks(w.store, s) : s \in Range(spans)}
      change == MarkChange(intent, \A ms \in all : ms # WithoutKind(ms, kind))
      unchanged(ms) == {m \in ms : m.kind = kind} = change
      text(s) == IF \A ms \in LetterMarks(w.store, s) : unchanged(ms) THEN <<>>
                 ELSE IF change = {} THEN <<RemoveMarkStep(s.node, s.start, s.end, kind)>>
                 ELSE <<AddMarkStep(s.node, s.start, s.end, intent.mark)>>
      marksOf(a) == w.store[a].content.marks
      atoms(s) == SelectSeq(s.atoms, LAMBDA a : ~unchanged(marksOf(a)))
      steps(s) == text(s) \o [i \in DOMAIN atoms(s) |->
                    SetInlineAtomMarksStep(atoms(s)[i], WithoutKind(marksOf(atoms(s)[i]), kind) \cup change)]
  IN IF \A ms \in all : unchanged(ms) THEN NoChange
     ELSE Planned(FlattenSeq([i \in DOMAIN spans |-> steps(spans[i])]),
                  After("MapExisting"))

-----------------------------------------------------------------------------
(* Atomic blocks and tasks.                                                *)

PlanAtomicRemoval(w, node) ==
  Planned(<<NodeStep("RemoveNode", node)>>,
          CaretAtGap(NodeGap(ParentOf(w.store, node), Place(w.store, node))))

PlanInsertImage(w, head) ==
  Planned(<<InsertNodeStep(ParentOf(w.store, head.node), Place(w.store, head.node) + 1,
                           Node("Image", NoAttrs, Atomic))>>,
          After("MapExisting"))

\* Ticking an item it is addressed by; the selection stays exactly.
PlanTaskChecked(w, item, checked) ==
  CASE w.store[item].kind # "TaskItem" -> Refused
    [] w.store[item].kind = "TaskItem" /\ w.store[item].attrs = checked -> NoChange
    [] OTHER -> Planned(<<SetNodeAttrsStep(item, checked)>>, After("Exact"))
=============================================================================
