----------------------------- MODULE BlockPlans -----------------------------
(***************************************************************************)
(* Planners of the session's editing intents over text, atoms and blocks   *)
(* (crates/xiaomu-runtime/src/session/: atom_edit.rs, intent.rs, marks.rs, *)
(* split.rs, structure.rs, structure/join.rs, cross_block.rs,              *)
(* cross_block_atom.rs, atomic_block.rs, image.rs, task_checked.rs).       *)
(*                                                                         *)
(* A planner reads a document w (store, next) and a selection and answers  *)
(* that nothing changes, that the edit is refused, or with what Core made  *)
(* of its transactions and the rule for the selection afterwards.  Core    *)
(* may refuse: then no result.  A staged plan is a chain of transactions,  *)
(* each planned over the result of the one before and each validated.      *)
(* Caret affinity, typing history and the pending marks themselves are     *)
(* left out; an insertion may carry marks of its own.                      *)
(***************************************************************************)
EXTENDS TreeTransaction

ListKinds == {"BulletList", "OrderedList"}

-----------------------------------------------------------------------------
(* The tree, read by the planners.                                         *)

ParentOf(store, id) == CHOOSE p \in ParentsOf(store, id) : TRUE
Place(store, id) == IndexIn(store, ParentOf(store, id), id) - 1

\* A subtree in document order, atoms behind the block that holds them.
Preorder(store, top) ==
  LET below[id \in DOMAIN store] ==
        LET c == store[id].content
            kids == IF c.shape = "inline" THEN [i \in DOMAIN c.atoms |-> c.atoms[i].atom]
                    ELSE Kids(store[id])
        IN <<id>> \o FlattenSeq(<<>> @@ [i \in DOMAIN kids |-> below[kids[i]]])
  IN below[top]

IsInline(store, id) == store[id].content.shape = "inline"
InlineBlocks(store, top) == SelectSeq(Preorder(store, top), LAMBDA id : IsInline(store, id))

\* Nodes without children of their own: text, atomic blocks, empty containers.
Leaves(store, top) ==
  SelectSeq(Preorder(store, top),
            LAMBDA id : store[id].kind \notin AtomKinds /\ Kids(store[id]) = <<>>)

Payload(store, top) == Restrict(store, Range(Preorder(store, top)))

PreviousSibling(store, id) ==
  {Kids(store[p])[Place(store, id)] : p \in {p \in ParentsOf(store, id) : Place(store, id) > 0}}

\* The list item a block is a child of, its list and where they stand.
ListAncestry(store, block) ==
  {a \in UNION {UNION {[item : {i}, list : {l}, parent : ParentsOf(store, l)] :
                        l \in ParentsOf(store, i)} : i \in ParentsOf(store, block)} :
     store[a.item].kind = "ListItem" /\ store[a.list].kind \in ListKinds}

Nested(store, a) == store[a.parent].kind = "ListItem"

TrailingList(store, id) ==
  LET kids == Kids(store[id])
  IN {k \in Range(kids) : k = Last(kids) /\ store[k].kind \in ListKinds}

BlankNode(kind) == Node(kind, NoAttrs, Children(<<>>))
MoveSteps(store, id, parent, index) ==
  <<NodeStep("RemoveNode", id), RestoreSubtreeStep(parent, index, id, Payload(store, id))>>

-----------------------------------------------------------------------------
(* Plans.                                                                  *)

NoChange == [plan |-> "none"]
Refused == [plan |-> "refused"]
\* One transaction for Core to apply, or stages applied already.
Planned(steps, update) == [plan |-> "steps", steps |-> steps, update |-> update]
Staged(done, update) == [plan |-> "stages", done |-> done, update |-> update]

\* The selection after the commit.
CaretAt(point) == [rule |-> "CaretAtInline", point |-> point]
CaretAtText(node, offset) == CaretAt(InlinePoint(node, offset, 0))
CaretAtGap(gap) == [rule |-> "CaretAtGap", gap |-> gap]
CaretAtLastInserted(offset) == [rule |-> "CaretAtLastInserted", offset |-> offset]
After(rule) == [rule |-> rule]   \* MapExisting, PreserveFocus, CaretAtSplitTail, CaretAtJoinSeam

\* One transaction: all its steps and a valid tree, or nothing.
Transact(w, steps) == {r \in RunSteps(w, steps) : ValidTree(r.store)}

\* The next stage of a staged plan.
Onward(r, steps) == {AfterStep(r, n) : n \in Transact(r, steps)}

-----------------------------------------------------------------------------
(* Text and atoms of one block.                                            *)

PointBefore(p, q) == p.offset < q.offset \/ (p.offset = q.offset /\ p.index < q.index)
InOrder(anchor, focus) == IF PointBefore(focus, anchor) THEN <<focus, anchor>> ELSE <<anchor, focus>>

EndOf(c) == [offset |-> Len(c.text), index |-> AtomCountAt(c, Len(c.text))]
TextEnd(store, node) ==
  LET e == EndOf(store[node].content) IN InlinePoint(node, e.offset, e.index)

\* The atoms between two gaps: behind the start's ordinal at its boundary,
\* before the end's at its own.
AtomsInsideSpan(c, start, end) ==
  LET inside == SubSeq(c.atoms, AtomsBefore(c, start.offset, start.index) + 1,
                       AtomsBefore(c, end.offset, end.index))
  IN [i \in DOMAIN inside |-> inside[i].atom]
RemoveAtoms(atoms) == [i \in DOMAIN atoms |-> NodeStep("RemoveInlineAtom", atoms[i])]

\* Every mark off the new text, then exactly these on it.
PushExactMarks(node, start, end, marks) ==
  SetToSeq({RemoveMarkStep(node, start, end, k) : k \in MarkKinds})
    \o SetToSeq({AddMarkStep(node, start, end, m) : m \in marks})
PushRunMarks(node, at, c, start, end) ==
  IF start = end THEN <<>>
  ELSE SetToSeq({RemoveMarkStep(node, at, at + end - start, k) : k \in MarkKinds})
         \o FlattenSeq([i \in DOMAIN SpansWithin(c, start, end) |->
              LET span == SpansWithin(c, start, end)[i]
              IN SetToSeq({AddMarkStep(node, at + span.start - start, at + span.end - start, m) :
                             m \in span.marks})])

\* What follows the gap decides for a range.
RightMarks(store, c, at) ==
  LET seam == AtomsAt(c, at.offset)
      carrying == SelectSeq(SubSeq(seam, at.index + 1, Len(seam)), LAMBDA p : Carries(store, p))
  IN CASE carrying # <<>> -> store[Head(carrying).atom].content.marks
       [] carrying = <<>> /\ at.offset < Len(c.text) -> c.text[at.offset + 1].marks
       [] OTHER -> {}

\* Pending marks win; a range with marked atoms inherits from its right.
InputMarks(store, c, start, end, pending) ==
  CASE pending # {} -> CHOOSE marks \in pending : TRUE
    [] pending = {} /\ start # end /\ (\E a \in DOMAIN c.atoms : Carries(store, c.atoms[a])) ->
         RightMarks(store, c, start)
    [] OTHER -> GapMarks(store, c, start.offset, start.index)

ReplacementSteps(store, start, end, text, marks) ==
  RemoveAtoms(AtomsInsideSpan(store[start.node].content, start, end))
    \o <<ReplaceInlineTextStep(start, end.offset, text)>>
    \o (IF text = <<>> THEN <<>>
        ELSE PushExactMarks(start.node, start.offset, start.offset + Len(text), marks))

TextSteps(start, end, text, pending) ==
  <<ReplaceTextStep(start.node, start.offset, end.offset, text)>>
    \o (IF text = <<>> \/ pending = {} THEN <<>>
        ELSE PushExactMarks(start.node, start.offset, start.offset + Len(text),
                            CHOOSE marks \in pending : TRUE))

\* Typing or pasting text over a range of one block.  Blocks without atoms
\* keep the text-only steps.
TextInputSteps(w, anchor, focus, text, pending) ==
  LET c == w.store[focus.node].content
      start == InOrder(anchor, focus)[1]
      end == InOrder(anchor, focus)[2]
  IN IF c.atoms = <<>> THEN TextSteps(start, end, text, pending)
     ELSE ReplacementSteps(w.store, start, end, text, InputMarks(w.store, c, start, end, pending))
PlanTextInput(w, anchor, focus, text, pending) ==
  LET c == w.store[focus.node].content
      start == InOrder(anchor, focus)[1]
      end == InOrder(anchor, focus)[2]
      caret == IF text = <<>> /\ c.atoms # <<>> THEN CaretAt(start)
               ELSE CaretAtText(focus.node, start.offset + Len(text))
  IN IF c.atoms = <<>> /\ text = <<>> /\ start = end THEN NoChange
     ELSE Planned(TextInputSteps(w, anchor, focus, text, pending), caret)

\* Pasted text takes the marks of its gap, over a range too.
PlanPasteText(w, anchor, focus, text, pending) ==
  LET c == w.store[focus.node].content
      start == InOrder(anchor, focus)[1]
      gap == {GapMarks(w.store, c, start.offset, start.index)}
  IN PlanTextInput(w, anchor, focus, text,
                   IF pending = {} /\ c.atoms # <<>> THEN gap ELSE pending)

\* A composed text names offsets only: atoms at its start stay before it,
\* except at the caret's own gap.
CompositionStart(c, focus, start, end) ==
  InlinePoint(focus.node, start,
              IF start = end /\ focus.offset = start THEN focus.index ELSE AtomCountAt(c, start))
PlanComposition(w, focus, start, end, text, pending) ==
  LET c == w.store[focus.node].content
      at == CompositionStart(c, focus, start, end)
      to == InlinePoint(focus.node, end, 0)
      order == IF start = end THEN <<at, at>> ELSE InOrder(to, at)
      marks == InputMarks(w.store, c, order[1], order[2], pending)
  IN IF c.atoms = <<>>
     THEN PlanTextInput(w, InlinePoint(focus.node, start, 0), to, text, pending)
     ELSE Planned(<<ReplaceInlineTextStep(at, end, text)>>
                    \o (IF text = <<>> THEN <<>>
                        ELSE PushExactMarks(focus.node, start, start + Len(text), marks)),
                  CaretAtText(focus.node, start + Len(text)))

\* One unit towards the start or the end of the block: an atom by its
\* ordinal, else one letter; none at the block's edge.
UnitBefore(c, p) ==
  IF p.index > 0 THEN {[p EXCEPT !.index = @ - 1]}
  ELSE {InlinePoint(p.node, o, AtomCountAt(c, o)) : o \in {p.offset - 1} \cap Nat}
UnitAfter(c, p) ==
  IF p.index < AtomCountAt(c, p.offset) THEN {[p EXCEPT !.index = @ + 1]}
  ELSE {InlinePoint(p.node, o, 0) : o \in {p.offset + 1} \cap 0..Len(c.text)}

DeletionSteps(store, start, end) ==
  LET c == store[start.node].content
      atoms == AtomsInsideSpan(c, start, end)
  IN CASE c.atoms = <<>> -> <<ReplaceTextStep(start.node, start.offset, end.offset, <<>>)>>
       [] c.atoms # <<>> /\ start.offset = end.offset -> RemoveAtoms(atoms)
       [] OTHER -> ReplacementSteps(store, start, end, <<>>, {})
PlanDeletion(w, start, end) ==
  Planned(DeletionSteps(w.store, start, end), CaretAt(start))

\* Backspace and Delete inside one block.
PlanUnitDeletion(w, anchor, focus, units) ==
  LET order == InOrder(anchor, focus) IN
  CASE anchor # focus -> PlanDeletion(w, order[1], order[2])
    [] anchor = focus /\ units = {} -> NoChange
    [] OTHER -> LET u == CHOOSE u \in units : TRUE
                IN PlanDeletion(w, InOrder(u, focus)[1], InOrder(u, focus)[2])
PlanBackspace(w, anchor, focus) ==
  PlanUnitDeletion(w, anchor, focus, UnitBefore(w.store[focus.node].content, focus))
PlanDelete(w, anchor, focus) ==
  PlanUnitDeletion(w, anchor, focus, UnitAfter(w.store[focus.node].content, focus))
=============================================================================
