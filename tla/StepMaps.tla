------------------------------ MODULE StepMaps ------------------------------
(***************************************************************************)
(* Position mapping across one transaction step and across a transaction   *)
(* (crates/xiaomu-core/src/mapping.rs, inline_mapping.rs).                 *)
(*                                                                         *)
(* A step map is pure arithmetic on coordinates: it never looks at a       *)
(* document.  A position whose node left maps to Deleted; a position with  *)
(* two defensible images is decided by the caller's bias.  Affinity is     *)
(* carried along unchanged and left out.                                   *)
(***************************************************************************)
EXTENDS Integers, SequencesExt

CONSTANT Deleted    \* MappedPosition::Deleted

\* No position and no node is taken for a deleted one (mapping.rs
\* MappedPosition).
ASSUME DeletedIsNoPosition ==
  Deleted \notin [node : Nat, offset : Nat, index : Nat] \cup [node : Nat, offset : Nat]
                   \cup [parent : Nat, index : Nat] \cup Nat

Biases == {"Start", "End"}

TextPoint(node, offset) == [node |-> node, offset |-> offset]
InlinePoint(node, offset, index) == [node |-> node, offset |-> offset, index |-> index]
NodeGap(parent, index) == [parent |-> parent, index |-> index]

TextReplaced(node, start, end, len) ==
  [map |-> "TextReplaced", node |-> node, start |-> start, end |-> end, len |-> len]
InlineTextReplaced(node, start, end, len, seam) ==
  [map |-> "InlineTextReplaced", node |-> node, start |-> start, end |-> end, len |-> len,
   seam |-> seam]
InlineAtomInserted(parent, offset, index) ==
  [map |-> "InlineAtomInserted", parent |-> parent, offset |-> offset, index |-> index]
InlineAtomRemoved(parent, offset, index, atom) ==
  [map |-> "InlineAtomRemoved", parent |-> parent, offset |-> offset, index |-> index,
   removed |-> {atom}]
NodeInserted(parent, index, inserted) ==
  [map |-> "NodeInserted", parent |-> parent, index |-> index, inserted |-> inserted]
NodeRemoved(parent, index, removed) ==
  [map |-> "NodeRemoved", parent |-> parent, index |-> index, removed |-> removed]
NodeSplit(parent, index, node, at, inserted) ==
  [map |-> "NodeSplit", parent |-> parent, index |-> index,
   at |-> InlinePoint(node, at, 0), inserted |-> inserted]
InlineNodeSplit(parent, index, at, inserted) ==
  [map |-> "InlineNodeSplit", parent |-> parent, index |-> index, at |-> at,
   inserted |-> inserted]
NodeJoined(parent, index, first, second, firstLen) ==
  [map |-> "NodeJoined", parent |-> parent, index |-> index, first |-> first,
   second |-> second, firstLen |-> firstLen, seam |-> 0, removed |-> {second}]
InlineNodeJoined(parent, index, first, second, firstLen, seam) ==
  [map |-> "InlineNodeJoined", parent |-> parent, index |-> index, first |-> first,
   second |-> second, firstLen |-> firstLen, seam |-> seam, removed |-> {second}]
NodeReparented(node, oldParent, oldIndex, newParent, newIndex) ==
  [map |-> "NodeReparented", node |-> node, oldParent |-> oldParent, oldIndex |-> oldIndex,
   newParent |-> newParent, newIndex |-> newIndex]
TableCellMerged(row, index, survivor, removed, at, count) ==
  [map |-> "TableCellMerged", row |-> row, index |-> index, survivor |-> survivor,
   removed |-> {removed}, at |-> at, count |-> count]
TableCellRestored(row, index, survivor, restored, at, count) ==
  [map |-> "TableCellRestored", row |-> row, index |-> index, survivor |-> survivor,
   restored |-> restored, at |-> at, count |-> count]

-----------------------------------------------------------------------------
(* Text points.                                                            *)

\* An offset across a replaced range.  The end of a range moves with the
\* text behind it; inside the range, and at a pure insertion, the bias
\* decides.
OffsetOver(m, old, bias) ==
  CASE old < m.start \/ (m.start = m.end /\ old = m.start) ->
         IF m.start = m.end /\ old = m.start /\ bias = "End" THEN m.start + m.len ELSE old
    [] old > m.end \/ (old = m.end /\ old > m.start) -> old - (m.end - m.start) + m.len
    [] OTHER -> IF bias = "Start" THEN m.start ELSE m.start + m.len

\* A text point is the gap before every atom of its offset: at a later gap
\* of a mixed split it stays before the split whatever the bias.
TextToTail(m, old, bias) ==
  \/ old > m.at.offset
  \/ old = m.at.offset /\ bias = "End" /\ (m.map = "InlineNodeSplit" => m.at.index = 0)

MapTextPoint(m, p, bias) ==
  CASE m.map \in {"TextReplaced", "InlineTextReplaced"} /\ p.node = m.node ->
         [p EXCEPT !.offset = OffsetOver(m, @, bias)]
    [] m.map \in {"NodeSplit", "InlineNodeSplit"} /\ p.node = m.at.node ->
         IF TextToTail(m, p.offset, bias)
         THEN [p EXCEPT !.node = m.inserted, !.offset = @ - m.at.offset] ELSE p
    [] m.map \in {"NodeJoined", "InlineNodeJoined"} /\ p.node = m.second ->
         [p EXCEPT !.node = m.first, !.offset = @ + m.firstLen]
    [] m.map = "NodeRemoved" /\ p.node \in m.removed -> Deleted
    [] OTHER -> p

-----------------------------------------------------------------------------
(* Mixed-inline points.                                                    *)

\* Mutant: the atoms of the cut's own offset are not told apart.
AfterOffset(p, at) == p.offset > at.offset

AfterGap(p, at) == p.offset > at.offset \/ (p.offset = at.offset /\ p.index > at.index)

\* The gap the edit happened at: after the replacement when there is one.
BehindReplacement(m, p) ==
  IF m.len > 0 THEN [p EXCEPT !.offset = m.start + m.len, !.index = 0]
  ELSE [p EXCEPT !.offset = m.start, !.index = m.seam]

\* Mutant: gaps at the end of a deleted range keep their ordinals.
OverSeamKeepsOrdinal(m, p, bias) ==
  CASE p.offset < m.start \/ (p.offset = m.start /\ p.index < m.seam) -> p
    [] p.offset = m.start /\ p.index = m.seam ->
         IF m.len > 0 /\ bias = "End" THEN [p EXCEPT !.offset = m.start + m.len, !.index = 0]
         ELSE p
    [] p.offset = m.start /\ p.index > m.seam ->
         IF m.len > 0 THEN [p EXCEPT !.offset = @ + m.len, !.index = @ - m.seam] ELSE p
    [] m.start < p.offset /\ p.offset < m.end ->
         IF bias = "Start" THEN [p EXCEPT !.offset = m.start, !.index = m.seam]
         ELSE BehindReplacement(m, p)
    [] OTHER -> [p EXCEPT !.offset = @ - (m.end - m.start) + m.len]

\* A point across an atom-aware replacement: gaps before the seam stay, the
\* edited gap and the inside of the range follow the bias, gaps behind the
\* seam go with the atoms that moved behind the replacement.
OverSeam(m, p, bias) ==
  CASE p.offset < m.start \/ (p.offset = m.start /\ p.index < m.seam) -> p
    [] p.offset = m.start /\ p.index = m.seam ->
         IF m.len > 0 /\ bias = "End" THEN [p EXCEPT !.offset = m.start + m.len, !.index = 0]
         ELSE p
    [] p.offset = m.start /\ p.index > m.seam ->
         IF m.len > 0 THEN [p EXCEPT !.offset = @ + m.len, !.index = @ - m.seam] ELSE p
    [] m.start < p.offset /\ p.offset < m.end ->
         IF bias = "Start" THEN [p EXCEPT !.offset = m.start, !.index = m.seam]
         ELSE BehindReplacement(m, p)
    [] m.start < p.offset /\ p.offset = m.end ->
         IF m.len > 0 THEN [p EXCEPT !.offset = m.start + m.len]
         ELSE [p EXCEPT !.offset = m.start, !.index = m.seam + @]
    [] OTHER -> [p EXCEPT !.offset = @ - (m.end - m.start) + m.len]

MapInlinePoint(m, p, bias) ==
  CASE m.map = "InlineAtomInserted" /\ p.node = m.parent /\ p.offset = m.offset ->
         IF p.index > m.index \/ (p.index = m.index /\ bias = "End")
         THEN [p EXCEPT !.index = @ + 1] ELSE p
    [] m.map = "InlineAtomRemoved" /\ p.node = m.parent /\ p.offset = m.offset ->
         IF p.index > m.index THEN [p EXCEPT !.index = @ - 1] ELSE p
    [] m.map = "InlineNodeSplit" /\ p.node = m.at.node ->
         IF AfterGap(p, m.at) \/ (p.offset = m.at.offset /\ p.index = m.at.index /\ bias = "End")
         THEN [node   |-> m.inserted,
               offset |-> p.offset - m.at.offset,
               index  |-> IF p.offset = m.at.offset THEN p.index - m.at.index ELSE p.index]
         ELSE p
    [] m.map = "InlineNodeJoined" /\ p.node = m.second ->
         [node   |-> m.first,
          offset |-> m.firstLen + p.offset,
          index  |-> IF p.offset = 0 THEN m.seam + p.index ELSE p.index]
    [] m.map = "InlineTextReplaced" /\ p.node = m.node -> OverSeam(m, p, bias)
    [] OTHER -> MapTextPoint(m, p, bias)

-----------------------------------------------------------------------------
(* Structural gaps and node selections.                                    *)

\* An index over an insertion: the gap at the insertion follows the bias.
OverInsertion(index, at, count, bias) ==
  IF index > at \/ (index = at /\ bias = "End") THEN index + count ELSE index

\* A moved child leaves its old list, then enters the new one.
GapOverMove(m, g, bias) ==
  LET left == IF g.parent = m.oldParent /\ g.index > m.oldIndex
              THEN [g EXCEPT !.index = @ - 1] ELSE g
  IN IF g.parent = m.newParent
     THEN [left EXCEPT !.index = OverInsertion(@, m.newIndex, 1, bias)] ELSE left

\* Mutant: the gaps of an absorbed cell are not moved behind the survivor's.
GapOverMergeInPlace(m, g, bias) ==
  CASE g.parent \in m.removed -> NodeGap(m.survivor, g.index)
    [] g.parent = m.survivor  -> [g EXCEPT !.index = OverInsertion(@, m.at, m.count, bias)]
    [] g.parent = m.row /\ g.index > m.index -> [g EXCEPT !.index = @ - 1]
    [] OTHER -> g

\* The blocks of an absorbed cell, and the gaps between them, enter the
\* survivor at one place.
GapOverMerge(m, g, bias) ==
  CASE g.parent \in m.removed -> NodeGap(m.survivor, m.at + g.index)
    [] g.parent = m.survivor /\ OverInsertion(g.index, m.at, m.count, bias) # g.index ->
         [g EXCEPT !.index = @ + m.count]
    [] g.parent = m.row /\ g.index > m.index -> [g EXCEPT !.index = @ - 1]
    [] OTHER -> g

\* The gaps at the ends of the returned blocks belong to either cell.
GapOverRestore(m, g, bias) ==
  LET end == m.at + m.count
      inside == \/ g.index > m.at /\ g.index < end
                \/ g.index = m.at /\ bias = "End"
                \/ g.index = end /\ bias = "Start"
  IN CASE g.parent = m.survivor /\ inside -> NodeGap(m.restored, g.index - m.at)
       [] g.parent = m.survivor /\ ~inside /\ g.index >= end ->
            [g EXCEPT !.index = @ - m.count]
       [] g.parent = m.row -> [g EXCEPT !.index = OverInsertion(@, m.index, 1, bias)]
       [] OTHER -> g

MapNodeGap(m, g, bias) ==
  CASE m.map \in {"NodeInserted", "NodeSplit", "InlineNodeSplit"} /\ g.parent = m.parent ->
         [g EXCEPT !.index = OverInsertion(@, m.index, 1, bias)]
    [] m.map \in {"NodeRemoved", "NodeJoined", "InlineNodeJoined"} ->
         IF g.parent \in m.removed THEN Deleted
         ELSE IF g.parent = m.parent /\ g.index > m.index THEN [g EXCEPT !.index = @ - 1]
         ELSE g
    [] m.map = "NodeReparented" -> GapOverMove(m, g, bias)
    [] m.map = "TableCellMerged" -> GapOverMerge(m, g, bias)
    [] m.map = "TableCellRestored" -> GapOverRestore(m, g, bias)
    [] OTHER -> g

MapNodeSelection(m, node) ==
  CASE m.map = "TableCellMerged" /\ node \in m.removed -> m.survivor
    [] /\ m.map \in {"NodeRemoved", "NodeJoined", "InlineNodeJoined", "InlineAtomRemoved"}
       /\ node \in m.removed -> Deleted
    [] OTHER -> node

-----------------------------------------------------------------------------
(* ChangeMap: positions fold through the maps of a transaction; once       *)
(* deleted they stay deleted.                                              *)

Through(maps, position, step(_, _)) ==
  LET image[n \in 0..Len(maps)] ==
        IF n = 0 THEN position
        ELSE IF image[n - 1] = Deleted THEN Deleted ELSE step(maps[n], image[n - 1])
  IN image[Len(maps)]

ChangedTextPoint(maps, p, bias) ==
  Through(maps, p, LAMBDA m, q : MapTextPoint(m, q, bias))
ChangedInlinePoint(maps, p, bias) ==
  Through(maps, p, LAMBDA m, q : MapInlinePoint(m, q, bias))
ChangedNodeGap(maps, g, bias) ==
  Through(maps, g, LAMBDA m, h : MapNodeGap(m, h, bias))
ChangedNodeSelection(maps, node) ==
  Through(maps, node, LAMBDA m, n : MapNodeSelection(m, n))
=============================================================================
