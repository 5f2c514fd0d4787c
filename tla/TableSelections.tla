--------------------------- MODULE TableSelections ---------------------------
(***************************************************************************)
(* Selections over a document with tables and their way through a change   *)
(* (crates/xiaomu-runtime/src/session/selection.rs, selection_node.rs,     *)
(* cell_range.rs, resolve.rs).                                             *)
(*                                                                         *)
(* A selection is one caret (inline or a gap), the range between two       *)
(* cells with a parked caret, or one whole block.  Atoms and caret         *)
(* affinity are left out.                                                  *)
(***************************************************************************)
EXTENDS TableTransaction

Inline(node, offset) == [at |-> "inline", node |-> node, offset |-> offset]
Gap(parent, index) == [at |-> "gap", node |-> parent, offset |-> index]

Caret(position) == [form |-> "caret", caret |-> position]
CellRange(anchor, focus, park) ==
  [form |-> "cells", anchor |-> anchor, focus |-> focus, caret |-> park]
NodeSelection(node, before, after) ==
  [form |-> "node", node |-> node, before |-> before, after |-> after]

ValidPosition(store, p) ==
  /\ p.node \in DOMAIN store
  /\ IF p.at = "inline"
     THEN store[p.node].kind = "Paragraph" /\ p.offset <= TextLen(store[p.node].text)
     ELSE store[p.node].kind # "Paragraph" /\ p.offset <= Len(Kids(store, p.node))

IsCell(store, id) == id \in DOMAIN store /\ store[id].kind \in CellKinds
TableOf(store, cell) == ParentOf(store, ParentOf(store, cell))

\* The whole-block selection of a node in a document; tables and
\* paragraphs can be selected, rows and cells cannot.
NodeSelectionsOf(store, node) ==
  {LET parent == ParentOf(store, n)
       index == Position(Kids(store, parent), n) - 1
   IN NodeSelection(n, Gap(parent, index), Gap(parent, index + 1)) :
     n \in {n \in {node} \cap DOMAIN store : store[n].kind \in {"Paragraph", "Table"}}}

ValidSelection(store, sel) ==
  CASE sel.form = "node"  -> sel \in NodeSelectionsOf(store, sel.node)
    [] sel.form = "caret" -> ValidPosition(store, sel.caret)
    [] sel.form = "cells" ->
         /\ ValidPosition(store, sel.caret)
         /\ IsCell(store, sel.anchor) /\ IsCell(store, sel.focus)
         /\ TableOf(store, sel.anchor) = TableOf(store, sel.focus)

-----------------------------------------------------------------------------
(* Mapping.  What a mapping cannot place is Deleted.                       *)

InlineAt(q) == IF q = Deleted THEN Deleted ELSE Inline(q.node, q.offset)
GapAt(g) == IF g = Deleted THEN Deleted ELSE Gap(g.parent, g.index)

MapPosition(maps, p, bias) ==
  IF p.at = "inline" THEN InlineAt(ChangedTextPoint(maps, TextPoint(p.node, p.offset), bias))
  ELSE GapAt(ChangedNodeGap(maps, NodeGap(p.node, p.offset), bias))

\* The seam where a cell was: inside it, and where its subtree was once it
\* is gone.
SeamLeft(m, g) == IF g = Deleted /\ m.map = "NodeRemoved" THEN NodeGap(m.parent, m.index) ELSE g
MapCellSeam(maps, cell) ==
  GapAt(Through(maps, NodeGap(cell, 0), LAMBDA m, g : SeamLeft(m, MapNodeGap(m, g, "Start"))))

\* A range follows its two cells; it shrinks to the one that is left, and
\* without any it becomes a caret at the seam of the cell it began in.
CellsLeft(anchor, focus, park) ==
  LET left == SelectSeq(<<anchor, focus>>, LAMBDA cell : cell # Deleted)
  IN CASE park = Deleted -> Deleted
       [] park # Deleted /\ left = <<>> -> Caret(park)
       [] OTHER -> CellRange(Head(left), Last(left), park)

OrElse(p, q) == IF p = Deleted THEN q ELSE p
MapCells(maps, sel) ==
  CellsLeft(ChangedNodeSelection(maps, sel.anchor), ChangedNodeSelection(maps, sel.focus),
            OrElse(MapPosition(maps, sel.caret, "Start"), MapCellSeam(maps, sel.anchor)))

\* The bias inward keeps siblings inserted at either side out.
NodeLeft(node, before, after) ==
  IF Deleted \in {node, before, after} THEN Deleted ELSE NodeSelection(node, before, after)
MapNode(maps, sel) ==
  NodeLeft(ChangedNodeSelection(maps, sel.node), MapPosition(maps, sel.before, "End"),
           MapPosition(maps, sel.after, "Start"))

CaretLeft(p) == IF p = Deleted THEN Deleted ELSE Caret(p)

MapThrough(maps, sel) ==
  CASE sel.form = "cells" -> MapCells(maps, sel)
    [] sel.form = "node"  -> MapNode(maps, sel)
    [] OTHER -> CaretLeft(MapPosition(maps, sel.caret, "Start"))

-----------------------------------------------------------------------------
(* The cells of a range.                                                   *)

RangeGrid(store, sel) == Grid(store, TableOf(store, sel.anchor))
LogicalRect(store, sel) == RectBetween(RangeGrid(store, sel), sel.anchor, sel.focus)

\* Cells whose origin lies in the rectangle, in reading order.
UniqueOrigins(store, sel) ==
  LET rect == LogicalRect(store, sel)
      origins == SelectSeq(RangeGrid(store, sel).cells,
                           LAMBDA p : <<p.row, p.column>> \in SlotsOf(rect))
  IN [i \in DOMAIN origins |-> origins[i].cell]

\* The innermost cell around a node, or none.
CellsAround(store, node) ==
  LET up[n \in 0..Cardinality(DOMAIN store)] ==
        IF n = 0 THEN {node}
        ELSE UNION {IF IsCell(store, i) THEN {i} ELSE ParentsOf(store, i) : i \in up[n - 1]}
  IN {i \in up[Cardinality(DOMAIN store)] : IsCell(store, i)}

FocusIsWithin(store, sel, target) == sel.caret.node \in Subtree(store, target)

-----------------------------------------------------------------------------
(* The selection after a committed plan; none when it cannot be resolved.  *)

LastInserted(maps) == Last(SelectSeq(maps, LAMBDA m : m.map = "NodeInserted")).inserted

\* The first paragraph below a node.
LeadingText(store, node) ==
  Head(SelectSeq(PreOrder(store, node), LAMBDA i : store[i].kind = "Paragraph"))

\* The last paragraph of the document: the code looks from the back.
DocumentEnd(store) ==
  LET texts == SelectSeq(PreOrder(store, Root), LAMBDA i : store[i].kind = "Paragraph")
  IN IF texts = <<>> THEN Gap(Root, Len(Kids(store, Root)))
     ELSE Inline(Last(texts), TextLen(store[Last(texts)].text))

Answer(update, maps, sel, store) ==
  CASE update.rule = "MapExisting"       -> MapThrough(maps, sel)
    [] update.rule = "PreserveSelection" -> sel
    [] update.rule = "CaretAt"           -> Caret(update.position)
    [] update.rule = "CaretAtDocumentEnd" -> Caret(DocumentEnd(store))
    [] update.rule = "CaretAtLastInsertedOffset" ->
         Caret(Inline(LastInserted(maps), update.offset))
    [] update.rule = "CaretAtStartOfLastInsertedSubtree" ->
         Caret(Inline(LeadingText(store, LastInserted(maps)), 0))

Resolve(update, maps, sel, store) ==
  {a \in {Answer(update, maps, sel, store)} : a # Deleted /\ ValidSelection(store, a)}

MapExisting == [rule |-> "MapExisting"]
PreserveSelection == [rule |-> "PreserveSelection"]
CaretAt(position) == [rule |-> "CaretAt", position |-> position]
CaretAtDocumentEnd == [rule |-> "CaretAtDocumentEnd"]
CaretAtLastInsertedOffset(offset) == [rule |-> "CaretAtLastInsertedOffset", offset |-> offset]
CaretAtStartOfLastInsertedSubtree == [rule |-> "CaretAtStartOfLastInsertedSubtree"]
=============================================================================
