--------------------------- MODULE TreeTransaction ---------------------------
(***************************************************************************)
(* Core transactions on the document tree: the steps, their inverses and   *)
(* their step maps, and the validation of the snapshot at the end          *)
(* (crates/xiaomu-core/src/transaction/, document/store.rs, snapshot.rs).  *)
(*                                                                         *)
(* A document is a store of nodes under Root and the next id to allocate.  *)
(* A step is refused (no result) or gives the next working state, its maps *)
(* and the group of steps that undoes it.  A transaction is built one step *)
(* at a time, so every prefix of it is a state; the code runs the same     *)
(* steps in one call.  Table steps, whole-document replacement, id         *)
(* exhaustion and the attributes of cells and task items are left out.     *)
(***************************************************************************)
EXTENDS InlineContent, StepMaps

CONSTANTS
  Root, FirstStore, FirstNext,   \* the document the behaviour starts from
  Ops,             \* the operations offered
  Texts,           \* replacement texts
  Marks, MarkKinds,
  InsertedKinds, ChangedKinds, AttrValues, NoAttrs,
  AtomKinds, HardBreak,
  MaxEdits, MaxSteps, MaxRevision   \* bounds: steps offered, per transaction, revisions

\* The steps callers write; the restoring ones are inverse-oriented: callers
\* cannot mint the ids they need.
OfferedSteps ==
  {"ReplaceText", "ReplaceInlineText", "AddMark", "RemoveMark", "InsertInlineAtom",
   "RemoveInlineAtom", "SetInlineAtomMarks", "InsertNode", "RemoveNode", "SetNodeAttrs",
   "SetNodeKind", "SplitNode", "SplitInlineNode", "JoinNodes"}

ASSUME OpsAreOffered == Ops \subseteq OfferedSteps
ASSUME MarksAreFinite == IsFiniteSet(Marks)
\* A snapshot is built with an allocator above every id of its store
\* (snapshot.rs next_id_after).
ASSUME FirstAllocator == FirstNext \in Nat /\ DOMAIN FirstStore \subseteq 0..(FirstNext - 1)

VARIABLES
  doc,      \* the committed document: store, next, revision
  work,     \* ApplyContext: store, next; the document between transactions
  taken,    \* steps of the running transaction
  changes,  \* what the working state came from: the store and the maps since
  inverse,  \* the steps that undo the running or the last transaction
  edits, used   \* steps offered so far; every id a committed store held

vars == <<doc, work, taken, changes, inverse, edits, used>>

-----------------------------------------------------------------------------
(* Nodes and the tree.                                                     *)

Node(kind, attrs, content) == [kind |-> kind, attrs |-> attrs, content |-> content]
Children(kids) == [shape |-> "children", kids |-> kids]
AtomContent(marks) == [shape |-> "atom", marks |-> marks]
Atomic == [shape |-> "atomic"]

Lists == {"BulletList", "OrderedList", "TaskList"}
Containers == {"Document", "Quote", "ListItem", "TaskItem"} \cup Lists
Textual == {"Paragraph", "Heading", "CodeBlock"}

ShapeOf(kind) ==
  CASE kind \in Containers -> "children"
    [] kind \in Textual    -> "inline"
    [] kind \in AtomKinds  -> "atom"
    [] OTHER               -> "atomic"

NodeOK(node) ==
  /\ node.content.shape = ShapeOf(node.kind)
  /\ node.kind = HardBreak => node.attrs = NoAttrs

AllowsChild(parent, child) ==
  CASE parent \in {"BulletList", "OrderedList"} -> child = "ListItem"
    [] parent = "TaskList" -> child = "TaskItem"
    [] parent \in Containers \ Lists ->
         child \notin {"Document", "ListItem", "TaskItem"} \cup AtomKinds
    [] OTHER -> FALSE

\* The content of a node, of the shape an operation asks for, or none.
ContentIn(store, id, shape) ==
  {c \in {store[i].content : i \in {id} \cap DOMAIN store} : c.shape = shape}
InlineOf(store, id) == ContentIn(store, id, "inline")

Kids(node) == IF node.content.shape = "children" THEN node.content.kids ELSE <<>>
Refs(node) ==
  IF node.content.shape = "inline" THEN AtomsOf(node.content) ELSE Range(Kids(node))

\* What is reached from a node in the store.
Subtree(store, top) ==
  LET level[k \in 0..Cardinality(DOMAIN store)] ==
        IF k = 0 THEN {top}
        ELSE LET above == level[k - 1]
             IN above \cup UNION {Refs(store[i]) : i \in above \cap DOMAIN store}
  IN level[Cardinality(DOMAIN store)]

\* The structural parent: inline atoms have none.
ParentsOf(store, id) ==
  {p \in Subtree(store, Root) \cap DOMAIN store : id \in Range(Kids(store[p]))}
IndexIn(store, parent, id) == CHOOSE i \in DOMAIN Kids(store[parent]) : Kids(store[parent])[i] = id

\* The parent of an atom is whichever node places it, reachable or not.
Placings(store, atom) ==
  {at \in (DOMAIN store) \X (1..Cardinality(DOMAIN store)) :
     \E c \in InlineOf(store, at[1]) :
       at[2] \in DOMAIN c.atoms /\ c.atoms[at[2]].atom = atom}

ValidTree(store) ==
  /\ Root \in DOMAIN store
  /\ store[Root].kind = "Document"
  /\ \A id \in DOMAIN store :
       /\ NodeOK(store[id])
       /\ Refs(store[id]) \subseteq DOMAIN store \ {Root}
       /\ \A kid \in Range(Kids(store[id])) : AllowsChild(store[id].kind, store[kid].kind)
       /\ \A c \in InlineOf(store, id), atom \in DOMAIN store :
            atom \in AtomsOf(c) => store[atom].kind \in AtomKinds
       /\ IsInjective(Kids(store[id]))
       /\ \A other \in DOMAIN store \ {id} : Refs(store[id]) \cap Refs(store[other]) = {}
  /\ Subtree(store, Root) = DOMAIN store

\* The letters and marked letters a behaviour can meet.
TextLetters ==
  UNION {Range(t) : t \in Texts}
    \cup UNION {{c.text[i].letter : i \in DOMAIN c.text} :
                 c \in UNION {InlineOf(FirstStore, id) : id \in DOMAIN FirstStore}}
MarkedLetters == [letter : TextLetters, marks : SUBSET Marks]

Placements == [atom : Nat, offset : Nat]
MixedContent(c) ==
  /\ c = Inline(c.text, c.atoms)
  /\ c.text \in Seq(MarkedLetters)
  /\ c.atoms \in Seq(Placements)
  /\ Normalized(c)

\* A node with content of its kind: normalized inline content, children, or
\* the marks of an atom.
WellMade(node) ==
  LET c == node.content IN
  /\ node = Node(node.kind, node.attrs, c)
  /\ NodeOK(node)
  /\ c.shape = "inline" => MixedContent(c)
  /\ c.shape = "children" => c = Children(c.kids) /\ c.kids \in Seq(Nat)
  /\ c.shape = "atom" => c = AtomContent(c.marks) /\ c.marks \subseteq Marks

IsDocument(store) ==
  /\ store = [id \in DOMAIN store |-> store[id]]
  /\ IsFiniteSet(DOMAIN store) /\ DOMAIN store \subseteq Nat
  /\ \A id \in DOMAIN store : WellMade(store[id])
  /\ ValidTree(store)

\* A behaviour starts from a valid document; callers replace text by text;
\* no kind is both an atom and something else (document/kind.rs NodeKind).
ASSUME FirstIsDocument == IsDocument(FirstStore)
ASSUME TextsAreWords == Texts \subseteq Seq(TextLetters)
ASSUME AtomKindsApart == AtomKinds \cap (Containers \cup Textual) = {}
ASSUME BoundsAreNumbers == MaxEdits \in Nat /\ MaxSteps \in Nat /\ MaxRevision \in Nat

\* The marks text inserted at a gap inherits: of the nearest marked atom
\* before it in its seam, else of the run that ends or covers it, else of
\* what follows.
Carries(store, p) == store[p.atom].kind = HardBreak \/ store[p.atom].content.marks # {}
GapMarks(store, c, offset, index) ==
  LET first == AtomsBefore(c, offset, 0) + 1
      last == first + AtomCountAt(c, offset) - 1
      carrying(from, to) == {i \in from..to : Carries(store, c.atoms[i])}
      left == carrying(first, first + index - 1)
      right == carrying(first + index, last)
      marksOf(i) == store[c.atoms[i].atom].content.marks
  IN CASE left # {} -> marksOf(Max(left))
       [] left = {} /\ offset > 0 -> c.text[offset].marks
       [] left = {} /\ offset = 0 /\ right # {} -> marksOf(Min(right))
       [] left = {} /\ offset = 0 /\ right = {} /\ c.text # <<>> -> c.text[1].marks
       [] OTHER -> {}

Rewrite(store, id, content) == [store EXCEPT ![id].content = content]
Insert(store, parent, index, id) ==
  Rewrite(store, parent, Children(InsertAt(Kids(store[parent]), index + 1, id)))
Detach(store, parent, id) ==
  Rewrite(store, parent, Children(RemoveAt(Kids(store[parent]), IndexIn(store, parent, id))))
Without(store, ids) == Restrict(store, DOMAIN store \ ids)
\* Nodes the store does not hold enter it.
With(store, nodes) ==
  [id \in DOMAIN store \cup DOMAIN nodes |-> IF id \in DOMAIN store THEN store[id] ELSE nodes[id]]
WithNode(store, new, node) == With(store, [id \in {new} |-> node])
Ceiling(next, ids) == Max({next} \cup {id + 1 : id \in ids})

\* Mutant: the allocator is counted from the store, as for a loaded document.
DoneRecounted(store, next, maps, undo) ==
  [store |-> store, next |-> Ceiling(0, DOMAIN store), maps |-> maps, inverse |-> undo]

Done(store, next, maps, undo) == [store |-> store, next |-> next, maps |-> maps, inverse |-> undo]

-----------------------------------------------------------------------------
(* Steps.                                                                  *)

TextStep(op, node, start, end) == [op |-> op, node |-> node, start |-> start, end |-> end]
ReplaceTextStep(node, start, end, text) ==
  [op |-> "ReplaceText", node |-> node, start |-> start, end |-> end, text |-> text]
ReplaceInlineTextStep(at, end, text) ==
  [op |-> "ReplaceInlineText", at |-> at, end |-> end, text |-> text]
AddMarkStep(node, start, end, mark) ==
  [op |-> "AddMark", node |-> node, start |-> start, end |-> end, mark |-> mark]
RemoveMarkStep(node, start, end, kind) ==
  [op |-> "RemoveMark", node |-> node, start |-> start, end |-> end, kind |-> kind]
InsertInlineAtomStep(at, kind, attrs, marks) ==
  [op |-> "InsertInlineAtom", at |-> at, kind |-> kind, attrs |-> attrs, marks |-> marks]
NodeStep(op, id) == [op |-> op, node |-> id]
RestoreInlineAtomStep(at, id, node) ==
  [op |-> "RestoreInlineAtom", at |-> at, id |-> id, node |-> node]
SetInlineAtomMarksStep(id, marks) == [op |-> "SetInlineAtomMarks", node |-> id, marks |-> marks]
InsertNodeStep(parent, index, node) ==
  [op |-> "InsertNode", parent |-> parent, index |-> index, node |-> node]
RestoreSubtreeStep(parent, index, top, nodes) ==
  [op |-> "RestoreSubtree", parent |-> parent, index |-> index, top |-> top, nodes |-> nodes]
SetNodeAttrsStep(id, attrs) == [op |-> "SetNodeAttrs", node |-> id, attrs |-> attrs]
SetNodeKindStep(id, kind) == [op |-> "SetNodeKind", node |-> id, kind |-> kind]
SplitInlineNodeStep(at) == [op |-> "SplitInlineNode", at |-> at]
SplitNodeStep(id, offset) == [op |-> "SplitNode", node |-> id, offset |-> offset]
RestoreJoinedNodeStep(at, id, node) ==
  [op |-> "RestoreJoinedNode", at |-> at, id |-> id, node |-> node]
JoinNodesStep(first, second) == [op |-> "JoinNodes", first |-> first, second |-> second]

-----------------------------------------------------------------------------
(* Text and marks.                                                         *)

\* Mutant: the restored text is taken to inherit what the old text carried.
RemarkWithoutStrip(node, start, end, inherited, spans) ==
  FlattenSeq([i \in DOMAIN spans |->
    SetToSeq({AddMarkStep(node, spans[i].start, spans[i].end, m) :
                m \in Marks \cap spans[i].marks})])

\* Undo of a replacement: the old text comes back with whatever it inherits
\* there, loses those marks, and gets the marks of its old spans.
Remark(node, start, end, inherited, spans) ==
  SetToSeq({RemoveMarkStep(node, start, end, m.kind) : m \in Marks \cap inherited})
    \o FlattenSeq([i \in DOMAIN spans |->
         SetToSeq({AddMarkStep(node, spans[i].start, spans[i].end, m) :
                     m \in Marks \cap spans[i].marks})])

ApplyReplaceText(w, s) ==
  {LET next == ReplaceText(c, s.start, s.end, s.text)
   IN Done(Rewrite(w.store, s.node, next), w.next,
           <<TextReplaced(s.node, s.start, s.end, Len(s.text))>>,
           <<ReplaceTextStep(s.node, s.start, s.start + Len(s.text),
                             LettersOf(c, s.start, s.end))>>
             \o (IF s.start = s.end THEN <<>>
                 ELSE Remark(s.node, s.start, s.end, RunMarksAt(next, s.start),
                             SpansWithin(c, s.start, s.end)))) :
     c \in {c \in InlineOf(w.store, s.node) : ReplacesText(c, s.start, s.end)}}

ApplyReplaceInlineText(w, s) ==
  LET node == s.at.node  offset == s.at.offset  index == s.at.index IN
  {LET next == ReplaceInlineText(c, offset, index, s.end, s.text,
                                 GapMarks(w.store, c, offset, index))
   IN Done(Rewrite(w.store, node, next), w.next,
           <<InlineTextReplaced(node, offset, s.end, Len(s.text), index)>>,
           <<ReplaceInlineTextStep(s.at, offset + Len(s.text), LettersOf(c, offset, s.end))>>
             \o (IF offset = s.end THEN <<>>
                 ELSE Remark(node, offset, s.end, GapMarks(w.store, next, offset, index),
                             SpansWithin(c, offset, s.end)))) :
     c \in {c \in InlineOf(w.store, node) : ReplacesInlineText(c, offset, index, s.end)}}

Ranged(w, s) ==
  {c \in InlineOf(w.store, s.node) :
     s.start <= s.end /\ ValidOffset(c, s.start) /\ ValidOffset(c, s.end)}

\* Every old span that carried the kind gets its mark back.
ReviveMarks(node, kind, spans) ==
  FlattenSeq([i \in DOMAIN spans |->
    SetToSeq({AddMarkStep(node, spans[i].start, spans[i].end, m) :
                m \in {m \in Marks \cap spans[i].marks : m.kind = kind}})])

ApplyAddMark(w, s) ==
  {Done(Rewrite(w.store, s.node, AddMark(c, s.start, s.end, s.mark)), w.next, <<>>,
        IF s.start = s.end THEN <<>>
        ELSE <<RemoveMarkStep(s.node, s.start, s.end, s.mark.kind)>>
               \o ReviveMarks(s.node, s.mark.kind, SpansWithin(c, s.start, s.end))) :
     c \in Ranged(w, s)}

ApplyRemoveMark(w, s) ==
  {Done(Rewrite(w.store, s.node, RemoveMark(c, s.start, s.end, s.kind)), w.next, <<>>,
        ReviveMarks(s.node, s.kind, SpansWithin(c, s.start, s.end))) :
     c \in Ranged(w, s)}

-----------------------------------------------------------------------------
(* Inline atoms.                                                           *)

\* Placing a node that is no part of the store at a gap.
PlaceAtom(w, at, id, node, next) ==
  {Done(WithNode(Rewrite(w.store, at.node, AttachAtom(c, at.offset, at.index, id)), id, node), next,
        <<InlineAtomInserted(at.node, at.offset, at.index)>>,
        <<NodeStep("RemoveInlineAtom", id)>>) :
     c \in {c \in InlineOf(w.store, at.node) : ValidGap(c, at.offset, at.index) /\ NodeOK(node)}}

ApplyInsertInlineAtom(w, s) ==
  PlaceAtom(w, s.at, w.next, Node(s.kind, s.attrs, AtomContent(s.marks)), w.next + 1)

ApplyRestoreInlineAtom(w, s) ==
  IF s.id \in DOMAIN w.store \/ s.node.kind \notin AtomKinds THEN {}
  ELSE PlaceAtom(w, s.at, s.id, s.node, Ceiling(w.next, {s.id}))

ApplyRemoveInlineAtom(w, s) ==
  {LET c == w.store[p[1]].content
       at == InlinePoint(p[1], c.atoms[p[2]].offset, Ordinal(c, p[2]))
   IN Done(Without(Rewrite(w.store, p[1], DetachAtom(c, p[2])), {s.node}), w.next,
           <<InlineAtomRemoved(at.node, at.offset, at.index, s.node)>>,
           <<RestoreInlineAtomStep(at, s.node, w.store[s.node])>>) :
     p \in {p \in Placings(w.store, s.node) :
              s.node \in DOMAIN w.store /\ w.store[s.node].kind \in AtomKinds}}

ApplySetInlineAtomMarks(w, s) ==
  {Done(Rewrite(w.store, s.node, AtomContent(s.marks)), w.next, <<>>,
        <<SetInlineAtomMarksStep(s.node, c.marks)>>) : c \in ContentIn(w.store, s.node, "atom")}

-----------------------------------------------------------------------------
(* Nodes.                                                                  *)

\* The kind is checked by the validation of the whole transaction only.
ApplyInsertNode(w, s) ==
  {Done(WithNode(Insert(w.store, s.parent, s.index, w.next), w.next, s.node), w.next + 1,
        <<NodeInserted(s.parent, s.index, w.next)>>, <<NodeStep("RemoveNode", w.next)>>) :
     c \in {c \in ContentIn(w.store, s.parent, "children") :
              s.index \in 0..Len(c.kids) /\ NodeOK(s.node)}}

ApplyRestoreSubtree(w, s) ==
  {Done(With(Insert(w.store, s.parent, s.index, s.top), s.nodes), Ceiling(w.next, DOMAIN s.nodes),
        <<NodeInserted(s.parent, s.index, s.top)>>, <<NodeStep("RemoveNode", s.top)>>) :
     c \in {c \in ContentIn(w.store, s.parent, "children") :
              /\ s.index \in 0..Len(c.kids)
              /\ s.top \in DOMAIN s.nodes
              /\ DOMAIN s.nodes \cap DOMAIN w.store = {}}}

ApplyRemoveNode(w, s) ==
  {LET gone == Subtree(w.store, s.node)
       index == IndexIn(w.store, p, s.node) - 1
   IN Done(Without(Detach(w.store, p, s.node), gone), w.next,
           <<NodeRemoved(p, index, gone)>>,
           <<RestoreSubtreeStep(p, index, s.node, Restrict(w.store, gone \cap DOMAIN w.store))>>) :
     p \in {p \in ParentsOf(w.store, s.node) : s.node # Root}}

ApplySetNodeAttrs(w, s) ==
  {Done([w.store EXCEPT ![id].attrs = s.attrs], w.next, <<>>,
        <<SetNodeAttrsStep(id, w.store[id].attrs)>>) :
     id \in {id \in {s.node} \cap DOMAIN w.store : NodeOK([w.store[id] EXCEPT !.attrs = s.attrs])}}

\* The new kind is checked against the parent of the moment, never against
\* the children.
ApplySetNodeKind(w, s) ==
  {Done([w.store EXCEPT ![s.node].kind = s.kind], w.next, <<>>,
        <<SetNodeKindStep(s.node, w.store[s.node].kind)>>) :
     p \in {p \in ParentsOf(w.store, s.node) :
              /\ s.node \in DOMAIN w.store \ {Root}
              /\ AllowsChild(w.store[p].kind, s.kind)
              /\ NodeOK([w.store[s.node] EXCEPT !.kind = s.kind])}}

-----------------------------------------------------------------------------
(* Splitting and joining.                                                  *)

\* The tail becomes the next sibling.  A map of its own tells a cut that can
\* fall between atoms.
SplitAt(w, at, id, tail, next, mixed) ==
  {LET index == IndexIn(w.store, p, at.node)
       head == HeadOf(w.store[at.node].content, at.offset, at.index)
   IN Done(WithNode(Insert(Rewrite(w.store, at.node, head), p, index, id), id, tail), next,
           <<IF mixed THEN InlineNodeSplit(p, index, at, id)
             ELSE NodeSplit(p, index, at.node, at.offset, id)>>,
           <<JoinNodesStep(at.node, id)>>) :
     p \in ParentsOf(w.store, at.node)}

FreshTail(w, at, mixed) ==
  UNION {SplitAt(w, at, w.next,
                 [w.store[at.node] EXCEPT !.content = TailOf(c, at.offset, at.index)],
                 w.next + 1, mixed) :
           c \in {c \in InlineOf(w.store, at.node) : ValidGap(c, at.offset, at.index)}}

ApplySplitInlineNode(w, s) == FreshTail(w, s.at, TRUE)

\* An offset cannot say which atoms stay: refused when there is any.
ApplySplitNode(w, s) ==
  IF \E c \in InlineOf(w.store, s.node) : c.atoms # <<>> THEN {}
  ELSE FreshTail(w, InlinePoint(s.node, s.offset, 0), FALSE)

\* The saved node brings its kind and attributes back; its content must be
\* the live tail.
ApplyRestoreJoinedNode(w, s) ==
  UNION {SplitAt(w, s.at, s.id, s.node, Ceiling(w.next, {s.id}), c.atoms # <<>>) :
           c \in {c \in InlineOf(w.store, s.at.node) :
                    /\ s.id \notin DOMAIN w.store
                    /\ ValidGap(c, s.at.offset, s.at.index)
                    /\ s.node.content = TailOf(c, s.at.offset, s.at.index)}}

ApplyJoinNodes(w, s) ==
  {LET a == w.store[s.first].content
       b == w.store[s.second].content
       index == IndexIn(w.store, p, s.first)
       at == InlinePoint(s.first, Len(a.text), AtomCountAt(a, Len(a.text)))
   IN Done(Without(Detach(Rewrite(w.store, s.first, Joined(a, b)), p, s.second), {s.second}),
           w.next,
           <<IF a.atoms = <<>> /\ b.atoms = <<>>
             THEN NodeJoined(p, index, s.first, s.second, Len(a.text))
             ELSE InlineNodeJoined(p, index, s.first, s.second, Len(a.text), at.index)>>,
           <<RestoreJoinedNodeStep(at, s.second, w.store[s.second])>>) :
     p \in {p \in ParentsOf(w.store, s.first) :
              /\ InlineOf(w.store, s.first) # {}
              /\ InlineOf(w.store, s.second) # {}
              /\ s.second \in Range(Kids(w.store[p]))
              /\ IndexIn(w.store, p, s.second) = IndexIn(w.store, p, s.first) + 1}}

-----------------------------------------------------------------------------
(* Running steps.                                                          *)

Apply(w, s) ==
  CASE s.op = "ReplaceText"        -> ApplyReplaceText(w, s)
    [] s.op = "ReplaceInlineText"  -> ApplyReplaceInlineText(w, s)
    [] s.op = "AddMark"            -> ApplyAddMark(w, s)
    [] s.op = "RemoveMark"         -> ApplyRemoveMark(w, s)
    [] s.op = "InsertInlineAtom"   -> ApplyInsertInlineAtom(w, s)
    [] s.op = "RestoreInlineAtom"  -> ApplyRestoreInlineAtom(w, s)
    [] s.op = "RemoveInlineAtom"   -> ApplyRemoveInlineAtom(w, s)
    [] s.op = "SetInlineAtomMarks" -> ApplySetInlineAtomMarks(w, s)
    [] s.op = "InsertNode"         -> ApplyInsertNode(w, s)
    [] s.op = "RestoreSubtree"     -> ApplyRestoreSubtree(w, s)
    [] s.op = "RemoveNode"         -> ApplyRemoveNode(w, s)
    [] s.op = "SetNodeAttrs"       -> ApplySetNodeAttrs(w, s)
    [] s.op = "SetNodeKind"        -> ApplySetNodeKind(w, s)
    [] s.op = "SplitNode"          -> ApplySplitNode(w, s)
    [] s.op = "SplitInlineNode"    -> ApplySplitInlineNode(w, s)
    [] s.op = "RestoreJoinedNode"  -> ApplyRestoreJoinedNode(w, s)
    [] s.op = "JoinNodes"          -> ApplyJoinNodes(w, s)

\* Mutant: inverse groups are appended, not prepended.
AfterStepInOrder(sofar, r) ==
  Done(r.store, r.next, sofar.maps \o r.maps, sofar.inverse \o r.inverse)

\* The groups of inverse steps are reversed, the maps are not.
AfterStep(sofar, r) == Done(r.store, r.next, sofar.maps \o r.maps, r.inverse \o sofar.inverse)

\* The steps one after another, each on every result of those before it.
Chained(Then(_, _), start, steps) ==
  LET run[n \in 0..Len(steps)] ==
        IF n = 0 THEN {start} ELSE UNION {Then(sofar, steps[n]) : sofar \in run[n - 1]}
  IN run[Len(steps)]

\* apply_steps: all the steps or none.
RunSteps(w, steps) ==
  Chained(LAMBDA sofar, s : {AfterStep(sofar, r) : r \in Apply(sofar, s)},
          Done(w.store, w.next, <<>>, <<>>), steps)

-----------------------------------------------------------------------------
(* The offered steps: every place of the working document.                 *)

InlineNodes(store) == {n \in DOMAIN store : store[n].content.shape = "inline"}
Offsets(store, node) == 0..Len(store[node].content.text)
GapsOf(store, node) ==
  UNION {{InlinePoint(node, o, i) : i \in 0..AtomCountAt(store[node].content, o)} :
           o \in Offsets(store, node)}
InlineGaps(store) == UNION {GapsOf(store, n) : n \in InlineNodes(store)}
NodeGaps(store) ==
  UNION {{NodeGap(p, i) : i \in 0..Len(Kids(store[p]))} :
           p \in {p \in DOMAIN store : store[p].content.shape = "children"}}
BlankOf(kind) ==
  Node(kind, NoAttrs,
       CASE ShapeOf(kind) = "children" -> Children(<<>>)
         [] ShapeOf(kind) = "inline" -> EmptyInline
         [] ShapeOf(kind) = "atomic" -> Atomic
         [] OTHER -> AtomContent({}))

Ranges(store, node) == {r \in Offsets(store, node) \X Offsets(store, node) : r[1] <= r[2]}
AtomsIn(store) == {a \in DOMAIN store : store[a].kind \in AtomKinds}

StepsOf(op, store) ==
  CASE op = "ReplaceText" ->
         UNION {{ReplaceTextStep(n, r[1], r[2], t) : r \in Ranges(store, n), t \in Texts} :
                  n \in InlineNodes(store)}
    [] op = "ReplaceInlineText" ->
         UNION {{ReplaceInlineTextStep(g, e, t) : e \in g.offset..Len(store[g.node].content.text), t \in Texts} :
                  g \in InlineGaps(store)}
    [] op = "AddMark" ->
         UNION {{AddMarkStep(n, r[1], r[2], m) : r \in Ranges(store, n), m \in Marks} :
                  n \in InlineNodes(store)}
    [] op = "RemoveMark" ->
         UNION {{RemoveMarkStep(n, r[1], r[2], k) : r \in Ranges(store, n), k \in MarkKinds} :
                  n \in InlineNodes(store)}
    [] op = "InsertInlineAtom" ->
         {InsertInlineAtomStep(g, k, NoAttrs, {}) : g \in InlineGaps(store), k \in AtomKinds}
    [] op = "SetInlineAtomMarks" ->
         {SetInlineAtomMarksStep(a, ms) : a \in AtomsIn(store), ms \in {{}} \cup {{m} : m \in Marks}}
    [] op = "InsertNode" ->
         {InsertNodeStep(g.parent, g.index, BlankOf(k)) : g \in NodeGaps(store), k \in InsertedKinds}
    [] op = "SetNodeAttrs" -> {SetNodeAttrsStep(n, a) : n \in DOMAIN store, a \in AttrValues}
    [] op = "SetNodeKind" -> {SetNodeKindStep(n, k) : n \in DOMAIN store, k \in ChangedKinds}
    [] op = "SplitNode" ->
         UNION {{SplitNodeStep(n, o) : o \in Offsets(store, n)} : n \in InlineNodes(store)}
    [] op = "SplitInlineNode" -> {SplitInlineNodeStep(g) : g \in InlineGaps(store)}
    [] op = "JoinNodes" ->
         {JoinNodesStep(a, b) : a \in InlineNodes(store), b \in InlineNodes(store)}
    [] OTHER -> {NodeStep(op, n) : n \in DOMAIN store}    \* RemoveNode, RemoveInlineAtom

Offered(store) == UNION {StepsOf(op, store) : op \in Ops}

-----------------------------------------------------------------------------
(* The machine.                                                            *)

Init ==
  /\ doc = [store |-> FirstStore, next |-> FirstNext, revision |-> 0]
  /\ work = [store |-> FirstStore, next |-> FirstNext]
  /\ taken = 0
  /\ changes = [from |-> FirstStore, maps |-> <<>>]
  /\ inverse = <<>>
  /\ edits = 0
  /\ used = DOMAIN FirstStore

Idle == taken = 0
\* What the transaction did before its next step.
SoFar ==
  IF Idle THEN Done(work.store, work.next, <<>>, <<>>)
  ELSE Done(work.store, work.next, changes.maps, inverse)

\* A step of the transaction is accepted.
Step(s) ==
  /\ taken < MaxSteps /\ edits < MaxEdits /\ doc.revision < MaxRevision
  /\ \E r \in Apply(work, s) :
       LET all == AfterStep(SoFar, r) IN
       /\ work' = [store |-> r.store, next |-> r.next]
       /\ changes' = [from |-> doc.store, maps |-> all.maps]
       /\ inverse' = all.inverse
  /\ taken' = taken + 1
  /\ edits' = edits + 1
  /\ UNCHANGED <<doc, used>>

\* The transaction publishes a snapshot or nothing.
Commit ==
  /\ taken > 0
  /\ ValidTree(work.store)
  /\ doc' = [store |-> work.store, next |-> work.next, revision |-> doc.revision + 1]
  /\ taken' = 0
  /\ used' = used \cup DOMAIN work.store
  /\ UNCHANGED <<work, changes, inverse, edits>>

\* A refused step, or a tree the validation refuses, drops the transaction.
Reject ==
  /\ taken > 0
  /\ ~ValidTree(work.store) \/ {s \in Offered(work.store) : Apply(work, s) = {}} # {}
  /\ work' = [store |-> doc.store, next |-> doc.next]
  /\ taken' = 0
  /\ changes' = [from |-> doc.store, maps |-> <<>>]
  /\ inverse' = <<>>
  /\ UNCHANGED <<doc, edits, used>>

\* The inverse of the last transaction is applied, and then its own inverse.
ApplyInverse ==
  /\ Idle
  /\ inverse # <<>>
  /\ doc.revision < MaxRevision
  /\ \E r \in RunSteps(work, inverse) :
       /\ ValidTree(r.store)
       /\ doc' = [store |-> r.store, next |-> r.next, revision |-> doc.revision + 1]
       /\ work' = [store |-> r.store, next |-> r.next]
       /\ changes' = [from |-> doc.store, maps |-> r.maps]
       /\ inverse' = r.inverse
       /\ used' = used \cup DOMAIN r.store
  /\ UNCHANGED <<taken, edits>>

Next ==
  \/ \E s \in Offered(work.store) : Step(s)
  \/ Commit
  \/ Reject
  \/ ApplyInverse

Spec == Init /\ [][Next]_vars

-----------------------------------------------------------------------------
(* Properties.                                                             *)

\* The working tree is made of well-formed nodes under allocated ids, with
\* placements in order (document/node.rs, content.rs normalize).
TypeOK ==
  /\ taken \in 0..MaxSteps /\ edits \in 0..MaxEdits /\ doc.revision \in 0..MaxRevision
  /\ doc.next \in Nat /\ work.next \in Nat
  /\ \A id \in DOMAIN work.store :
       /\ id \in Nat
       /\ NodeOK(work.store[id])
       /\ \A c \in InlineOf(work.store, id) :
            Normalized(c) /\ \A i \in DOMAIN c.text : c.text[i].marks \subseteq Marks

\* The inverse of the published transaction, applied to its result, is
\* accepted and reproduces the node store exactly; so does the inverse of
\* that inverse (transaction/mod.rs, AppliedTransaction::inverse).
InverseReplays ==
  Idle => \E r \in RunSteps(work, inverse) : r.store = changes.from /\ ValidTree(r.store)

\* An id a snapshot ever held is below the allocator for good, also after its
\* node left, came back and left again: no new node takes the identity of a
\* dead one (apply.rs allocate_node, subtree_restore.rs, structure.rs).
IdsNeverReused == used \cup DOMAIN work.store \subseteq 0..(work.next - 1)

\* Text, mark, atom, split and join steps take a valid tree, its runs and
\* seams normalized, to a valid tree, so the validation at the end never
\* drops such a transaction: no atom is lost, doubled or left behind by an
\* edit around it.
EveryStepKeepsTheTree == TypeOK /\ ValidTree(work.store)

LivePoint(p) ==
  p.node \in InlineNodes(work.store) /\ ValidGap(work.store[p.node].content, p.offset, p.index)

\* Every position of the old document maps to a position of the new one, or
\* is deleted with its node, or with a node the transaction made and moved it
\* into, and never otherwise (mapping.rs, ChangeMap and map_inline_point).
MappedPositionsLive ==
  LET madeAndRemoved ==
        \E m \in Range(changes.maps) :
          m.map = "NodeRemoved" /\ ~(m.removed \subseteq DOMAIN changes.from)
      left(n) == n \notin DOMAIN work.store
      gone(n) == left(n) \/ madeAndRemoved
  IN
  /\ \A bias \in Biases :
       /\ \A p \in InlineGaps(changes.from) :
            LET q == ChangedInlinePoint(changes.maps, p, bias)
                t == ChangedTextPoint(changes.maps, TextPoint(p.node, p.offset), bias)
            IN /\ IF q = Deleted THEN gone(p.node) ELSE LivePoint(q)
               /\ IF t = Deleted THEN gone(p.node) ELSE LivePoint(InlinePoint(t.node, t.offset, 0))
       /\ \A g \in NodeGaps(changes.from) :
            LET h == ChangedNodeGap(changes.maps, g, bias)
            IN IF h = Deleted THEN gone(g.parent) ELSE h \in NodeGaps(work.store)
  /\ \A n \in DOMAIN changes.from :
       ChangedNodeSelection(changes.maps, n) = (IF left(n) THEN Deleted ELSE n)

\* Document order of nodes none of which holds the other, and of gaps.
BeforeIn(store, a, b) ==
  \E p \in DOMAIN store : \E i, j \in DOMAIN Kids(store[p]) :
    i < j /\ a \in Subtree(store, Kids(store[p])[i]) /\ b \in Subtree(store, Kids(store[p])[j])
NotAfter(store, p, q) ==
  IF p.node = q.node
  THEN p.offset < q.offset \/ (p.offset = q.offset /\ p.index <= q.index)
  ELSE BeforeIn(store, p.node, q.node)

\* No two positions are swapped, whichever bias the caller gives: a range
\* stays a range with its anchor on the same side, also when its ends come to
\* lie in different nodes or in one (mapping.rs, map_inline_point).
MappedOrderKept ==
  \A bias \in Biases, p, q \in InlineGaps(changes.from) :
    LET pm == ChangedInlinePoint(changes.maps, p, bias)
        qm == ChangedInlinePoint(changes.maps, q, bias)
    IN NotAfter(changes.from, p, q) /\ Deleted \notin {pm, qm} => NotAfter(work.store, pm, qm)

\* The gap just before an inline atom.
AtomGap(store, atom) ==
  LET at == CHOOSE at \in Placings(store, atom) : TRUE
      c == store[at[1]].content
  IN InlinePoint(at[1], c.atoms[at[2]].offset, Ordinal(c, at[2]))

\* A caret never hops over an atom that survives: mapped with either bias, it
\* stays on its side of it (inline_mapping.rs against inline_atom.rs and
\* structure.rs, which move the atoms).
CaretsKeepTheirSide ==
  \A bias \in Biases, g \in InlineGaps(changes.from),
     a \in AtomsIn(changes.from) \cap AtomsIn(work.store) :
    LET h == ChangedInlinePoint(changes.maps, g, bias) IN
    h # Deleted =>
      (NotAfter(changes.from, g, AtomGap(changes.from, a))
         <=> NotAfter(work.store, h, AtomGap(work.store, a)))

\* No mapped position overtakes another, nor an atom that stays.
NoPositionOvertakes == MappedOrderKept /\ CaretsKeepTheirSide
=============================================================================
