------------------------------ MODULE TableSteps ------------------------------
(***************************************************************************)
(* The table steps of Core transactions and their exact inverses           *)
(* (crates/xiaomu-core/src/transaction/apply/table*.rs, table_restore.rs). *)
(*                                                                         *)
(* A step takes a working store and the next id and is refused (no result) *)
(* or gives the new ones, its maps and the steps that undo it.  Merges,    *)
(* splits and the logical row and column edits are staged as one exchange  *)
(* of nodes; their inverse is the exchange the other way, which demands    *)
(* the nodes and their parents exactly as the edit left them.              *)
(*                                                                         *)
(* Id exhaustion and the byte budgets of payloads are left out.            *)
(***************************************************************************)
EXTENDS TableGrid, StepMaps

Context(store, next) == [store |-> store, next |-> next]

Done(store, next, maps, inverse) ==
  [store |-> store, next |-> next, maps |-> maps, inverse |-> inverse]

Without(store, ids) == [id \in DOMAIN store \ ids |-> store[id]]
Over(store, new) == new @@ store

WithKids(store, id, kids) == [store[id] EXCEPT !.kids = kids]

RemoveNodeStep(node) == [op |-> "RemoveNode", node |-> node]
RestoreSubtreeStep(parent, index, top, nodes) ==
  [op |-> "RestoreSubtree", parent |-> parent, index |-> index, top |-> top, nodes |-> nodes]

\* The table is given no room of its own: what it needs is asked for next
\* to every other table of the document.
Affordable(c, others, rows, columns, cells) ==
  Within(Total(c.store, others), Usage(rows * columns, cells))

-----------------------------------------------------------------------------
(* The staged exchange.                                                    *)

\* The parents, up to the table, of the nodes an exchange touches; none
\* when one of them is outside the table.
ParentChains(store, table, ids) ==
  LET inside == Subtree(store, table)
      above[k \in 0..Cardinality(inside)] ==
        IF k = 0 THEN ids
        ELSE LET below == above[k - 1]
             IN below \cup UNION {ParentsOf(store, i) : i \in below \ {table}}
      chain == above[Cardinality(inside)] \ {table}
  IN IF ids \subseteq inside /\ table \in DOMAIN store /\ store[table].kind = "Table"
     THEN {[i \in chain |-> ParentOf(store, i)]} ELSE {}

TableCellRestore(table, expected, parents, replacement, maps, back) ==
  [op |-> "RestoreTableCells", table |-> table, expected |-> expected, parents |-> parents,
   replacement |-> replacement, maps |-> maps, back |-> back]

Exchanges(c, expected, replacement) ==
  /\ DOMAIN expected \subseteq DOMAIN c.store
  /\ \A id \in DOMAIN expected : c.store[id] = expected[id]
  /\ (DOMAIN replacement \ DOMAIN expected) \cap DOMAIN c.store = {}

\* commit_table_edit: the exchange, and the inverse that swaps its sides.
Exchange(c, table, expected, replacement, maps, back, next) ==
  LET store == Over(Without(c.store, DOMAIN expected), replacement)
  IN {Done(store, next, maps,
           <<TableCellRestore(table, replacement, parents, expected, back, maps)>>) :
        parents \in IF Exchanges(c, expected, replacement)
                    THEN ParentChains(store, table, DOMAIN replacement) ELSE {}}

\* An edit that rewrites some nodes, drops others and adds fresh ones.  The
\* exchange always covers the list of rows of the table as well.
Edited(c, table, new, gone, maps, back, next) ==
  LET touched == ({table} \cup DOMAIN new \cup gone) \cap DOMAIN c.store
  IN Exchange(c, table, Restrict(c.store, touched),
              Over(Restrict(c.store, {table} \ gone), new), maps, Reverse(back), next)

Restore(c, s) ==
  {r \in Exchange(c, s.table, s.expected, s.replacement, s.maps, s.back,
                  Max({c.next} \cup {i + 1 : i \in DOMAIN s.replacement})) :
     /\ s.table \in DOMAIN c.store /\ GridOK(c.store, s.table)
     /\ ParentChains(c.store, s.table, DOMAIN s.expected) = {s.parents}}

-----------------------------------------------------------------------------
(* Fresh cells.  A cell and its empty paragraph take two ids.              *)

FreshCell(kind, attrs, cell, paragraph) ==
  cell :> Node(kind, attrs, <<paragraph>>, "") @@ paragraph :> EmptyParagraph

\* The children of a row with fresh cells entered by column.  "entries" is
\* a sequence of [cell, column] in column order.
EnterByColumn(g, kids, entries) ==
  LET put(row, e) ==
        LET before == {i \in DOMAIN row :
                         row[i].column < e.column}
        IN InsertAt(row, Cardinality(before) + 1, e)
      old == [i \in DOMAIN kids |->
                [cell |-> kids[i], column |-> PlacementOf(g, kids[i]).column]]
      merged == FoldLeft(put, old, entries)
  IN [i \in DOMAIN merged |-> merged[i].cell]

\* The maps of the fresh cells of one row, by position in its new children.
EntryMaps(row, kids, entries) ==
  [i \in DOMAIN entries |->
     LET e == entries[i] IN NodeInserted(row, Position(kids, e.cell) - 1, e.cell)]
EntryBacks(row, kids, entries) ==
  [i \in DOMAIN entries |->
     LET e == entries[i]
     IN NodeRemoved(row, Position(kids, e.cell) - 1, {e.cell, e.paragraph})]

SetSpan(attrs, rows, columns) ==
  [attrs EXCEPT
     !.rowspan = IF Effective(@) = rows THEN @ ELSE rows,
     !.colspan = IF Effective(@) = columns THEN @ ELSE columns]

-----------------------------------------------------------------------------
(* Merging and splitting.                                                  *)

MergedAttrs(attrs, rows, columns) ==
  LET w == attrs.widths
  IN [SetSpan(attrs, rows, columns) EXCEPT
        !.widths = IF w.is = "list"
                   THEN Widths([i \in 1..columns |->
                                  IF i <= Len(w.list) THEN w.list[i] ELSE 0])
                   ELSE w]

\* The blocks of a list of cells, in reading order of their origins.
BlocksOf(c, cells) == FlattenSeq([i \in DOMAIN cells |-> Kids(c.store, cells[i].cell)])

MergeTableCells(c, s, g) ==
  LET cells == UniqueCellsIn(g, s.rect)
      survivor == cells[1].cell
      absorbed == {cells[i].cell : i \in 2..Len(cells)}
      \* Index of a cell once the absorbed cells before it have left its row.
      index(i) == cells[i].index - Cardinality({j \in 2..i - 1 : cells[j].row_id = cells[i].row_id})
      at(i) == Len(BlocksOf(c, SubSeq(cells, 1, i - 1)))
      count(i) == Len(Kids(c.store, cells[i].cell))
      thinned == [r \in {cells[i].row_id : i \in 2..Len(cells)} |->
                    WithKids(c.store, r, SelectSeq(Kids(c.store, r), LAMBDA k : k \notin absorbed))]
      merged == [WithKids(c.store, survivor, BlocksOf(c, cells)) EXCEPT
                   !.attrs = MergedAttrs(@, s.rect.bottom - s.rect.top, s.rect.right - s.rect.left)]
      maps == [i \in 1..Len(cells) - 1 |->
                 TableCellMerged(cells[i + 1].row_id, index(i + 1), survivor, cells[i + 1].cell,
                                 at(i + 1), count(i + 1))]
      back == [i \in 1..Len(cells) - 1 |->
                 TableCellRestored(cells[i + 1].row_id, index(i + 1), survivor, cells[i + 1].cell,
                                   at(i + 1), count(i + 1))]
  IN IF /\ IsClosedRect(g, s.rect)
        /\ Len(cells) >= 2
        /\ cells[1].row = s.rect.top /\ cells[1].column = s.rect.left
     THEN Exchange(c, s.table,
                   Restrict(c.store, {survivor} \cup absorbed \cup DOMAIN thinned),
                   (survivor :> merged) @@ thinned, maps, Reverse(back), c.next)
     ELSE {}

SplitAttrs(attrs, column, rows, columns) ==
  [attrs EXCEPT !.rowspan = IF rows = 1 THEN @ ELSE 1,
                !.colspan = IF columns = 1 THEN @ ELSE 1,
                !.widths = IF @.is = "list" THEN Widths(<<@.list[column + 1]>>) ELSE @]

\* The table has room for the cells a split adds.
SplitAffordable(c, s, g, p) ==
  Affordable(c, TablesOf(c.store) \ {s.table}, Len(g.rows), g.columns,
             Len(g.cells) + p.rowspan * p.colspan - 1)

\* Every slot but the first of the cell gets a fresh cell; ids are taken in
\* reading order, the paragraph first.
SplitTableCell(c, s, g) ==
  LET p == PlacementOf(g, s.cell)
      attrs(column) == SplitAttrs(c.store[s.cell].attrs, column, p.rowspan, p.colspan)
      entries(r) == LET skip == IF r = 0 THEN 1 ELSE 0
                    IN [i \in 1..p.colspan - skip |->
                          LET n == r * p.colspan + i - 1 + skip - 1
                          IN [cell |-> c.next + 2 * n + 1, paragraph |-> c.next + 2 * n,
                              column |-> p.column + i - 1 + skip]]
      changed == {r \in 0..p.rowspan - 1 : entries(r) # <<>>}
      row(r) == g.rows[p.row + r + 1]
      kids(r) == EnterByColumn(g, Kids(c.store, row(r)), entries(r))
      all == FlattenSeq([r \in 1..p.rowspan |-> entries(r - 1)])
      fresh == [id \in c.next..c.next + 2 * Len(all) - 1 |->
                  LET e == all[(id - c.next) \div 2 + 1]
                  IN FreshCell(c.store[s.cell].kind, attrs(e.column - p.column),
                               e.cell, e.paragraph)[id]]
      rows == [id \in {row(r) : r \in changed} |->
                 WithKids(c.store, id, kids(Position(g.rows, id) - 1 - p.row))]
      new == (s.cell :> [c.store[s.cell] EXCEPT !.attrs = attrs(0)]) @@ rows @@ fresh
      each(f(_)) == FlattenSeq([r \in 1..p.rowspan |-> f(r - 1)])
      maps == each(LAMBDA r : EntryMaps(row(r), kids(r), entries(r)))
      back == each(LAMBDA r : EntryBacks(row(r), kids(r), entries(r)))
  IN IF /\ HoldsCell(g, s.cell)
        /\ p.rowspan * p.colspan > 1
        /\ SplitAffordable(c, s, g, p)
     THEN Exchange(c, s.table,
                   Restrict(c.store, {s.cell} \cup {row(r) : r \in changed}),
                   new, maps, Reverse(back), c.next + 2 * Len(all))
     ELSE {}

-----------------------------------------------------------------------------
(* Logical rows and columns.                                               *)

Resized(c, p, span, size) ==
  IF span = "rowspan" THEN [c.store[p.cell] EXCEPT !.attrs.rowspan = size]
  ELSE [c.store[p.cell] EXCEPT !.attrs.colspan = size]

Crosses(from, span, index) == from < index /\ from + span > index

InsertRowLogical(c, s, g) ==
  LET crossing == {i \in DOMAIN g.cells : Crosses(g.cells[i].row, g.cells[i].rowspan, s.index)}
      covered(column) ==
        /\ s.index > 0 /\ s.index < Len(g.rows)
        /\ SlotAt(g, s.index - 1, column) = SlotAt(g, s.index, column)
      free == SelectSeq([i \in 1..g.columns |-> i - 1], LAMBDA column : ~covered(column))
      added == g.columns - MapThenSumSet(LAMBDA i : g.cells[i].colspan, crossing)
      cell(i) == c.next + 2 * i - 1
      row == c.next + 2 * Len(free)
      stretched == [id \in {g.cells[i].cell : i \in crossing} |->
                      LET p == PlacementOf(g, id) IN Resized(c, p, "rowspan", p.rowspan + 1)]
      fresh == [id \in c.next..row - 1 |->
                  FreshCell("TableCell", NoAttrs, cell((id - c.next) \div 2 + 1),
                            cell((id - c.next) \div 2 + 1) - 1)[id]]
      new == (row :> Node("TableRow", NoAttrs, [i \in DOMAIN free |-> cell(i)], ""))
             @@ (s.table :> WithKids(c.store, s.table, InsertAt(g.rows, s.index + 1, row)))
             @@ stretched @@ fresh
  IN IF /\ s.index \in 0..Len(g.rows)
        /\ Affordable(c, TablesOf(c.store) \ {s.table}, Len(g.rows) + 1, g.columns,
                      Len(g.cells) + added)
     THEN Edited(c, s.table, new, {}, <<NodeInserted(s.table, s.index, row)>>,
                 <<NodeRemoved(s.table, s.index, c.next..row)>>, row + 1)
     ELSE {}

\* A width of zero enters the list of a stretched cell.
WiderAttrs(attrs, columns, at) ==
  [attrs EXCEPT !.colspan = columns,
                !.widths = IF @.is = "list" THEN Widths(InsertAt(@.list, at + 1, 0)) ELSE @]

InsertColumnLogical(c, s, g) ==
  LET crossing == {i \in DOMAIN g.cells :
                     Crosses(g.cells[i].column, g.cells[i].colspan, s.index)}
      covered(row) ==
        /\ s.index > 0 /\ s.index < g.columns
        /\ SlotAt(g, row, s.index - 1) = SlotAt(g, row, s.index)
      free == SelectSeq([i \in DOMAIN g.rows |-> i - 1], LAMBDA row : ~covered(row))
      added == Len(g.rows) - MapThenSumSet(LAMBDA i : g.cells[i].rowspan, crossing)
      cell(i) == c.next + 2 * i - 1
      fresh == [id \in c.next..c.next + 2 * Len(free) - 1 |->
                  FreshCell("TableCell", NoAttrs, cell((id - c.next) \div 2 + 1),
                            cell((id - c.next) \div 2 + 1) - 1)[id]]
      stretched == [id \in {g.cells[i].cell : i \in crossing} |->
                      LET p == PlacementOf(g, id)
                      IN [c.store[id] EXCEPT
                            !.attrs = WiderAttrs(@, p.colspan + 1, s.index - p.column)]]
      row(i) == g.rows[free[i] + 1]
      place(i) == Len(SelectSeq(Kids(c.store, row(i)),
                                LAMBDA k : PlacementOf(g, k).column < s.index))
      rows == [id \in {row(i) : i \in DOMAIN free} |->
                 LET i == CHOOSE i \in DOMAIN free : row(i) = id
                 IN WithKids(c.store, id, InsertAt(Kids(c.store, id), place(i) + 1, cell(i)))]
      maps == [i \in DOMAIN free |-> NodeInserted(row(i), place(i), cell(i))]
      back == [i \in DOMAIN free |-> NodeRemoved(row(i), place(i), {cell(i), cell(i) - 1})]
  IN IF /\ s.index \in 0..g.columns
        /\ Affordable(c, TablesOf(c.store) \ {s.table}, Len(g.rows), g.columns + 1,
                      Len(g.cells) + added)
     THEN Edited(c, s.table, stretched @@ rows @@ fresh, {}, maps, back,
                 c.next + 2 * Len(free))
     ELSE {}

Overlap(from, span, start, end) ==
  LET low == Max({from, start})
      high == Min({from + span, end})
  IN IF high > low THEN high - low ELSE 0

\* The whole range never goes: a table keeps a row and a column.
DeletesLess(start, end, size) == start < end /\ end <= size /\ end - start # size

\* Mutant: a cell that starts in a deleted row goes with the row.
DeletesByOrigin(p, from, span, start, end) == from \in start..end - 1

DeletesCell(p, from, span, start, end) == Overlap(from, span, start, end) = span

DeleteRowsLogical(c, s, g) ==
  LET hit == {i \in DOMAIN g.cells :
                Overlap(g.cells[i].row, g.cells[i].rowspan, s.start, s.end) > 0}
      dead == {i \in hit : DeletesCell(g.cells[i], g.cells[i].row, g.cells[i].rowspan,
                                       s.start, s.end)}
      kept == hit \ dead
      \* Cells whose origin row goes but which own slots below it.
      moved == {i \in kept : g.cells[i].row >= s.start}
      goneWith(row) ==
        {row} \cup UNION {Subtree(c.store, g.cells[i].cell) :
                            i \in {i \in dead : g.cells[i].row_id = row}}
      deletedRows == SubSeq(g.rows, s.start + 1, s.end)
      shrunk == [id \in {g.cells[i].cell : i \in kept} |->
                   LET p == PlacementOf(g, id)
                   IN Resized(c, p, "rowspan",
                              p.rowspan - Overlap(p.row, p.rowspan, s.start, s.end))]
      destination == g.rows[s.end + 1]
      movers == SelectSeq(g.cells, LAMBDA p : \E i \in moved : g.cells[i] = p)
      byColumn == SortSeq(movers, LAMBDA a, b : a.column < b.column)
      arrived == EnterByColumn(g, Kids(c.store, destination), byColumn)
      left(i) == byColumn[i].index
                 - Cardinality({j \in 1..i - 1 : byColumn[j].row_id = byColumn[i].row_id})
      to(i) == Position(arrived, byColumn[i].cell) - 1
      moves == [i \in DOMAIN byColumn |->
                  NodeReparented(byColumn[i].cell, byColumn[i].row_id, left(i), destination, to(i))]
      moveBacks == [i \in DOMAIN byColumn |->
                  NodeReparented(byColumn[i].cell, destination, to(i), byColumn[i].row_id, left(i))]
      new == (s.table :> WithKids(c.store, s.table,
                SubSeq(g.rows, 1, s.start) \o SubSeq(g.rows, s.end + 1, Len(g.rows))))
             @@ (IF moved = {} THEN <<>>
                 ELSE destination :> WithKids(c.store, destination, arrived))
             @@ shrunk
  IN IF DeletesLess(s.start, s.end, Len(g.rows))
     THEN Edited(c, s.table, new, UNION {goneWith(r) : r \in Range(deletedRows)},
                 moves \o [i \in DOMAIN deletedRows |->
                             NodeRemoved(s.table, s.start, goneWith(deletedRows[i]))],
                 moveBacks \o [i \in DOMAIN deletedRows |->
                             NodeInserted(s.table, s.start, deletedRows[i])],
                 c.next)
     ELSE {}

NarrowerAttrs(attrs, columns, from, to) ==
  [attrs EXCEPT
     !.colspan = columns,
     !.widths = IF @.is = "list"
                THEN Widths(SubSeq(@.list, 1, from) \o SubSeq(@.list, to + 1, Len(@.list)))
                ELSE @]

DeleteColumnsLogical(c, s, g) ==
  LET hit == {i \in DOMAIN g.cells :
                Overlap(g.cells[i].column, g.cells[i].colspan, s.start, s.end) > 0}
      dead == {i \in hit : DeletesCell(g.cells[i], g.cells[i].column, g.cells[i].colspan,
                                       s.start, s.end)}
      deadCells == {g.cells[i].cell : i \in dead}
      kept == {g.cells[i].cell : i \in hit \ dead}
      shrunk == [id \in kept |->
                   LET p == PlacementOf(g, id)
                       right == Min({p.column + p.colspan, s.end})
                       from == IF s.start > p.column THEN s.start - p.column ELSE 0
                   IN [c.store[id] EXCEPT
                         !.attrs = NarrowerAttrs(@,
                            p.colspan - Overlap(p.column, p.colspan, s.start, s.end),
                            from, right - p.column)]]
      losers == SelectSeq(g.cells, LAMBDA p : p.cell \in deadCells)
      index(i) == losers[i].index
                  - Cardinality({j \in 1..i - 1 : losers[j].row_id = losers[i].row_id})
      rows == [r \in {losers[i].row_id : i \in DOMAIN losers} |->
                 WithKids(c.store, r, SelectSeq(Kids(c.store, r), LAMBDA k : k \notin deadCells))]
  IN IF DeletesLess(s.start, s.end, g.columns)
     THEN Edited(c, s.table, shrunk @@ rows,
                 UNION {Subtree(c.store, k) : k \in deadCells},
                 [i \in DOMAIN losers |->
                    NodeRemoved(losers[i].row_id, index(i), Subtree(c.store, losers[i].cell))],
                 [i \in DOMAIN losers |->
                    NodeInserted(losers[i].row_id, index(i), losers[i].cell)],
                 c.next)
     ELSE {}

-----------------------------------------------------------------------------
(* Isolating a rectangle: cells that cross its boundary are cut into at    *)
(* most five strips, the first of which keeps the cell.                    *)

Fragments(p, rect) ==
  LET o == Footprint(p)
      top == Max({o.top, rect.top})
      bottom == Min({o.bottom, rect.bottom})
      strips ==
        << Rect(o.top, o.left, rect.top, o.right),
           Rect(top, o.left, bottom, rect.left),
           Rect(top, Max({o.left, rect.left}), bottom, Min({o.right, rect.right})),
           Rect(top, rect.right, bottom, o.right),
           Rect(rect.bottom, o.left, o.bottom, o.right) >>
  IN IF Intersects(o, rect)
     THEN SelectSeq(strips, LAMBDA f : f.top < f.bottom /\ f.left < f.right)
     ELSE <<o>>

\* Widths that are all unspecified become an explicit null.
SlicedWidths(widths, from, columns) ==
  LET list == SubSeq(widths.list, from + 1, from + columns)
  IN CASE widths.is # "list" -> widths
       [] widths.is = "list" /\ Range(list) \subseteq {0} -> NullWidths
       [] OTHER -> Widths(list)

FragmentAttrs(attrs, p, f) ==
  LET columns == f.right - f.left
  IN [SetSpan(attrs, f.bottom - f.top, columns) EXCEPT
        !.widths = IF columns = p.colspan THEN @
                   ELSE SlicedWidths(@, f.left - p.column, columns)]

\* The fresh strips, cell after cell.
Pieces(g, rect) ==
  FlattenSeq([i \in DOMAIN g.cells |->
    LET strips == Fragments(g.cells[i], rect)
    IN [j \in 1..Len(strips) - 1 |->
          [of |-> g.cells[i], first |-> strips[1], strip |-> strips[j + 1]]]])

\* The cells for them; the paragraph takes the first id.
PieceCells(pieces, next) ==
  [n \in DOMAIN pieces |-> [cell |-> next + 2 * n - 1, paragraph |-> next + 2 * n - 2,
                            column |-> pieces[n].strip.left, row |-> pieces[n].strip.top]]
InRow(entries, r) ==
  SortSeq(SelectSeq(entries, LAMBDA e : e.row = r), LAMBDA a, b : a.column < b.column)

Isolated(c, s, g, pieces, entries) ==
  LET kids(r) == EnterByColumn(g, Kids(c.store, g.rows[r + 1]), InRow(entries, r))
      rows == [id \in {g.rows[e.row + 1] : e \in Range(entries)} |->
                 WithKids(c.store, id, kids(Position(g.rows, id) - 1))]
      originals == [id \in {piece.of.cell : piece \in Range(pieces)} |->
                      LET piece == CHOOSE piece \in Range(pieces) : piece.of.cell = id
                      IN [c.store[id] EXCEPT !.attrs = FragmentAttrs(@, piece.of, piece.first)]]
      fresh == [id \in c.next..c.next + 2 * Len(pieces) - 1 |->
                  LET n == (id - c.next) \div 2 + 1
                      node == c.store[pieces[n].of.cell]
                  IN FreshCell(node.kind,
                               FragmentAttrs(node.attrs, pieces[n].of, pieces[n].strip),
                               entries[n].cell, entries[n].paragraph)[id]]
      each(f(_, _, _)) == FlattenSeq([r \in DOMAIN g.rows |->
                                       f(g.rows[r], kids(r - 1), InRow(entries, r - 1))])
  IN CASE \/ ~InGrid(g, s.rect)
          \/ /\ pieces # <<>>
             /\ ~Affordable(c, TablesOf(c.store) \ {s.table}, Len(g.rows), g.columns,
                            Len(g.cells) + Len(pieces)) -> {}
       [] InGrid(g, s.rect) /\ pieces = <<>> -> {Done(c.store, c.next, <<>>, <<>>)}
       [] OTHER -> Edited(c, s.table, originals @@ rows @@ fresh, {}, each(EntryMaps),
                          each(EntryBacks), c.next + 2 * Len(pieces))

IsolateTableRect(c, s, g) ==
  Isolated(c, s, g, Pieces(g, s.rect), PieceCells(Pieces(g, s.rect), c.next))
=============================================================================
