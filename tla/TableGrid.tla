------------------------------ MODULE TableGrid ------------------------------
(***************************************************************************)
(* The checked logical occupancy of a table, spans included                *)
(* (crates/xiaomu-core/src/document/table_grid.rs, table_attrs.rs), over   *)
(* stores that hold tables (document/snapshot.rs, kind.rs).                *)
(*                                                                         *)
(* Coordinates count from zero, as in the code.  A span of zero is an      *)
(* attribute that is absent; a null span never validates and is left out.  *)
(* Blocks other than tables are paragraphs, and a text is one value.       *)
(***************************************************************************)
EXTENDS Integers, SequencesExt

CONSTANTS
  MaxSlots,   \* TABLE_MAX_LOGICAL_SLOTS
  MaxCells    \* TABLE_MAX_PHYSICAL_CELLS

ASSUME BudgetAssumption == MaxSlots \in Nat /\ MaxCells \in Nat

CellKinds == {"TableCell", "TableHeader"}

NoWidths == [is |-> "missing", list |-> <<>>]
NullWidths == [is |-> "null", list |-> <<>>]
Widths(list) == [is |-> "list", list |-> list]

CellAttrs(rowspan, colspan, widths) ==
  [rowspan |-> rowspan, colspan |-> colspan, widths |-> widths]
NoAttrs == CellAttrs(0, 0, NoWidths)

Node(kind, attrs, kids, text) == [kind |-> kind, attrs |-> attrs, kids |-> kids, text |-> text]
Paragraph(text) == Node("Paragraph", NoAttrs, <<>>, text)
EmptyParagraph == Paragraph("")

AllowsChild(parent, child) ==
  CASE parent = "Table"     -> child = "TableRow"
    [] parent = "TableRow"  -> child \in CellKinds
    [] parent \in {"Document"} \cup CellKinds -> child \in {"Paragraph", "Table"}
    [] OTHER -> FALSE

Kids(store, id) == store[id].kids
Position(seq, x) == CHOOSE i \in DOMAIN seq : seq[i] = x

\* The nodes below one that are reached in the store, itself included.
Subtree(store, top) ==
  LET level[k \in 0..Cardinality(DOMAIN store)] ==
        IF k = 0 THEN {top}
        ELSE LET below == level[k - 1]
             IN below \cup UNION {Range(Kids(store, i)) : i \in below \cap DOMAIN store}
  IN level[Cardinality(DOMAIN store)]

ParentsOf(store, id) == {p \in DOMAIN store : id \in Range(Kids(store, p))}
ParentOf(store, id) == CHOOSE p \in DOMAIN store : id \in Range(Kids(store, p))

-----------------------------------------------------------------------------
(* Attributes of a cell.                                                   *)

Effective(span) == IF span = 0 THEN 1 ELSE span

GeometryOK(attrs) ==
  attrs.widths.is = "list" => Len(attrs.widths.list) = Effective(attrs.colspan)

-----------------------------------------------------------------------------
(* Rectangles: [top, bottom) by [left, right).                             *)

Rect(top, left, bottom, right) ==
  [top |-> top, left |-> left, bottom |-> bottom, right |-> right]

Footprint(p) == Rect(p.row, p.column, p.row + p.rowspan, p.column + p.colspan)

Intersects(a, b) ==
  a.top < b.bottom /\ b.top < a.bottom /\ a.left < b.right /\ b.left < a.right

Covers(a, b) ==
  a.top <= b.top /\ a.left <= b.left /\ a.bottom >= b.bottom /\ a.right >= b.right

SlotsOf(rect) == (rect.top..rect.bottom - 1) \X (rect.left..rect.right - 1)

-----------------------------------------------------------------------------
(* The grid.  Every cell takes the first slot of its row that no earlier   *)
(* cell covers; a cell that leaves the table or meets a covered slot, and  *)
(* a slot nobody covers, make the table invalid.                           *)

RowsWellFormed(store, table) ==
  /\ store[table].kind = "Table"
  /\ Kids(store, table) # <<>>
  /\ \A row \in Range(Kids(store, table)) :
       /\ row \in DOMAIN store
       /\ store[row].kind = "TableRow"
       /\ \A cell \in Range(Kids(store, row)) :
            /\ cell \in DOMAIN store
            /\ store[cell].kind \in CellKinds
            /\ Kids(store, cell) # <<>>
            /\ GeometryOK(store[cell].attrs)

\* The first row decides the number of columns.
ColumnsOf(store, table) ==
  LET first == Kids(store, Kids(store, table)[1])
      sum[i \in 0..Len(first)] ==
        IF i = 0 THEN 0 ELSE sum[i - 1] + Effective(store[first[i]].attrs.colspan)
  IN sum[Len(first)]

\* Every cell with the row it is written in, in reading order.
Written(store, table) ==
  LET rows == Kids(store, table)
  IN FlattenSeq([r \in DOMAIN rows |->
       LET cells == Kids(store, rows[r])
       IN [i \in DOMAIN cells |->
             [cell |-> cells[i], row |-> r - 1, row_id |-> rows[r], index |-> i - 1]]])

FirstFree(covered, row, columns) ==
  LET free == {c \in 0..columns - 1 : <<row, c>> \notin covered}
  IN IF free = {} THEN columns ELSE Min(free)

\* One cell: its placement, the slots covered so far, and whether it fitted.
Place(store, g, w) ==
  LET attrs == store[w.cell].attrs
      p == [cell |-> w.cell, row |-> w.row, column |-> FirstFree(g.covered, w.row, g.columns),
            rowspan |-> Effective(attrs.rowspan), colspan |-> Effective(attrs.colspan),
            row_id |-> w.row_id, index |-> w.index]
      slots == SlotsOf(Footprint(p))
  IN [g EXCEPT !.cells = Append(@, p),
               !.covered = @ \cup slots,
               !.fits = /\ @
                        /\ slots \cap g.covered = {}
                        /\ p.row + p.rowspan <= Len(g.rows)
                        /\ p.column + p.colspan <= g.columns]

Grid(store, table) ==
  LET written == Written(store, table)
      start == [table |-> table, rows |-> Kids(store, table),
                columns |-> ColumnsOf(store, table), cells |-> <<>>, covered |-> {},
                fits |-> TRUE]
      fill[i \in 0..Len(written)] ==
        IF i = 0 THEN start ELSE Place(store, fill[i - 1], written[i])
  IN fill[Len(written)]

GridOK(store, table) ==
  /\ RowsWellFormed(store, table)
  /\ LET g == Grid(store, table)
     IN /\ g.columns > 0
        /\ g.fits
        /\ g.covered = SlotsOf(Rect(0, 0, Len(g.rows), g.columns))

PlacementOf(g, cell) == g.cells[CHOOSE i \in DOMAIN g.cells : g.cells[i].cell = cell]
HoldsCell(g, cell) == \E i \in DOMAIN g.cells : g.cells[i].cell = cell
SlotAt(g, row, column) ==
  g.cells[CHOOSE i \in DOMAIN g.cells :
            <<row, column>> \in SlotsOf(Footprint(g.cells[i]))].cell

HasSpans(g) == \E i \in DOMAIN g.cells : g.cells[i].rowspan # 1 \/ g.cells[i].colspan # 1

RectBetween(g, a, b) ==
  LET p == Footprint(PlacementOf(g, a))
      q == Footprint(PlacementOf(g, b))
  IN Rect(Min({p.top, q.top}), Min({p.left, q.left}),
          Max({p.bottom, q.bottom}), Max({p.right, q.right}))

InGrid(g, rect) == rect.bottom <= Len(g.rows) /\ rect.right <= g.columns

IsClosedRect(g, rect) ==
  /\ InGrid(g, rect)
  /\ \A i \in DOMAIN g.cells :
       LET cell == Footprint(g.cells[i]) IN Intersects(rect, cell) => Covers(rect, cell)

UniqueCellsIn(g, rect) ==
  SelectSeq(g.cells, LAMBDA p : Intersects(rect, Footprint(p)))

-----------------------------------------------------------------------------
(* One budget for all the tables of a snapshot, nested ones included.      *)

Usage(slots, cells) == [slots |-> slots, cells |-> cells]
UsageOf(store, table) ==
  LET g == Grid(store, table) IN Usage(Len(g.rows) * g.columns, Len(g.cells))

TablesOf(store) == {id \in DOMAIN store : store[id].kind = "Table"}

Sum(a, b) == Usage(a.slots + b.slots, a.cells + b.cells)
Total(store, tables) ==
  MapThenFoldSet(Sum, Usage(0, 0), LAMBDA t : UsageOf(store, t), LAMBDA ts : CHOOSE t \in ts : TRUE, tables)

Within(a, b) == a.slots + b.slots <= MaxSlots /\ a.cells + b.cells <= MaxCells

-----------------------------------------------------------------------------
(* The validation of a whole snapshot.                                     *)

ValidDocument(store, root) ==
  /\ store[root].kind = "Document"
  /\ \A id \in DOMAIN store :
       /\ Range(Kids(store, id)) \subseteq DOMAIN store \ {root}
       /\ IsInjective(Kids(store, id))
       /\ \A kid \in Range(Kids(store, id)) : AllowsChild(store[id].kind, store[kid].kind)
       /\ store[id].kind = "Table" => GridOK(store, id)
       /\ store[id].kind \in CellKinds => Kids(store, id) # <<>>
       /\ \A other \in DOMAIN store \ {id} :
            Range(Kids(store, id)) \cap Range(Kids(store, other)) = {}
  /\ Subtree(store, root) = DOMAIN store
  /\ Within(Total(store, TablesOf(store)), Usage(0, 0))
=============================================================================
