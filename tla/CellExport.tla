------------------------------ MODULE CellExport ------------------------------
(***************************************************************************)
(* Copying a range of cells as a table of its own                          *)
(* (crates/xiaomu-runtime/src/clipboard/cell_export.rs,                    *)
(* cell_export/clipped.rs, projection.rs, fragment.rs, export.rs).         *)
(*                                                                         *)
(* An export is the document the fragment is validated as.  Its nodes keep *)
(* the ids they were captured from, and the fresh paragraph of a cleared   *)
(* cell has an id after those, so that both can be compared; the code      *)
(* keeps no ids.  An operator over a table is given its grid g.  Resource  *)
(* budgets, text projections and the cut, which is refused for cells       *)
(* before anything is read, are left out.                                  *)
(***************************************************************************)
EXTENDS TableSession

CONSTANT ExportSamples   \* documents to copy from, besides the session's

ExportModes == {"Unit", "Closed", "Clipped"}

FreshBase(s) == Max(DOMAIN s) + 1

\* A table with the rows of a rectangle, whatever cells are left in them.
CarriedTable(s, table, g, rect, lines, below) ==
  LET rows == SubSeq(g.rows, rect.top + 1, rect.bottom)
      wrappers == [r \in Range(rows) |-> [s[r] EXCEPT !.kids = lines[Position(rows, r)]]]
  IN [nodes |-> below @@ wrappers @@ (table :> [s[table] EXCEPT !.kids = rows])
                  @@ (Root :> Node("Document", NoAttrs, <<table>>, "")),
      root_form |-> IF rect = Rect(0, 0, Len(g.rows), g.columns) THEN "Table" ELSE "Rows"]

\* Whole cells only: those whose origin lies in the columns.
CapturedRect(s, table, g, rect) ==
  LET line(row) == SelectSeq(Kids(s, row),
                     LAMBDA c : PlacementOf(g, c).column \in rect.left..rect.right - 1)
      lines == [k \in 1..rect.bottom - rect.top |-> line(g.rows[rect.top + k])]
      cells == UNION {Range(lines[k]) : k \in DOMAIN lines}
  IN CarriedTable(s, table, g, rect, lines, Restrict(s, UNION {Subtree(s, c) : c \in cells}))

\* The cells of a range in a table of unit cells, by their places in the rows.
UnitCells(s, range) ==
  LET rows == Kids(s, TableOf(s, range.anchor))
      row(c) == Position(rows, ParentOf(s, c))
      at(c) == Position(Kids(s, ParentOf(s, c)), c)
      of(a, b) == Min({a, b})..Max({a, b})
      columns == of(at(range.anchor), at(range.focus))
  IN [r \in of(row(range.anchor), row(range.focus)) |->
        SubSeq(Kids(s, rows[r]), Min(columns), Max(columns))]

\* The copy without an export policy.
SliceCellRange(s, range, g) ==
  LET table == TableOf(s, range.anchor)
      cells == UnitCells(s, range)
      first == Min(DOMAIN cells)
      lines == [k \in 1..Cardinality(DOMAIN cells) |-> cells[first + k - 1]]
      rect == Rect(first - 1, 0, Max(DOMAIN cells), 0)
      picked == UNION {Range(cells[r]) : r \in DOMAIN cells}
  IN IF HasSpans(g) THEN {}
     ELSE {CarriedTable(s, table, g, rect, lines,
                        Restrict(s, UNION {Subtree(s, c) : c \in picked})).nodes}

-----------------------------------------------------------------------------
(* Clipping at the exact rectangle.                                        *)

\* Mutant: a cell that enters from the left keeps its content.
EntersFromAbove(f, rect) == f.top < rect.top

\* A cell that begins outside leaves its content there.
EntersRect(f, rect) == f.top < rect.top \/ f.left < rect.left

\* What of a cell lies in the rectangle.
PartOf(p, rect) ==
  LET f == Footprint(p)
      kept == Rect(Max({f.top, rect.top}), Max({f.left, rect.left}),
                   Min({f.bottom, rect.bottom}), Min({f.right, rect.right}))
  IN [source |-> p.cell, row |-> kept.top - rect.top, column |-> kept.left - rect.left,
      rowspan |-> kept.bottom - kept.top, colspan |-> kept.right - kept.left,
      left_trim |-> kept.left - f.left,
      crop_rows |-> kept.bottom - kept.top # p.rowspan,
      crop_columns |-> kept.right - kept.left # p.colspan,
      clear_content |-> EntersRect(f, rect)]

Parts(g, rect) ==
  SetToSortSeq({PartOf(p, rect) : p \in {p \in Range(g.cells) : Intersects(rect, Footprint(p))}},
               LAMBDA a, b : a.row < b.row \/ (a.row = b.row /\ a.column < b.column))

\* Widths go with the columns; nothing but zeros left is no width.
CroppedWidths(widths, part) ==
  LET list == SubSeq(widths.list, part.left_trim + 1, part.left_trim + part.colspan)
  IN CASE widths.is # "list" \/ ~part.crop_columns -> widths
       [] OTHER -> IF \E i \in DOMAIN list : list[i] > 0 THEN Widths(list) ELSE NullWidths
CroppedAttrs(attrs, part) ==
  CellAttrs(IF part.crop_rows THEN part.rowspan ELSE attrs.rowspan,
            IF part.crop_columns THEN part.colspan ELSE attrs.colspan,
            CroppedWidths(attrs.widths, part))

ClippedParts(s, table, g, rect, parts) ==
  LET fresh(part) == FreshBase(s) + part.source
      kids(part) == IF part.clear_content THEN <<fresh(part)>> ELSE Kids(s, part.source)
      cells == [c \in {parts[i].source : i \in DOMAIN parts} |->
                  LET part == CHOOSE q \in Range(parts) : q.source = c
                  IN [s[c] EXCEPT !.attrs = CroppedAttrs(@, part), !.kids = kids(part)]]
      cleared == {i \in DOMAIN parts : parts[i].clear_content}
      below == UNION {Subtree(s, parts[i].source) : i \in DOMAIN parts \ cleared}
      lines == [k \in 1..rect.bottom - rect.top |->
                  LET of == SelectSeq(parts, LAMBDA part : part.row = k - 1)
                  IN [i \in DOMAIN of |-> of[i].source]]
  IN CarriedTable(s, table, g, rect, lines,
                  cells @@ Restrict(s, below) @@ [n \in {fresh(parts[i]) : i \in cleared} |-> EmptyParagraph])
ClippedRect(s, table, g, rect) == ClippedParts(s, table, g, rect, Parts(g, rect))

-----------------------------------------------------------------------------
(* The export, none when it is refused, and its plain text.                *)

Exported(s, table, g, rect, mode) ==
  LET unit == mode = "Unit" => ~HasSpans(g)
      made == CASE mode = "Clipped" -> {ClippedRect(s, table, g, rect)}
                [] mode # "Clipped" /\ unit /\ IsClosedRect(g, rect) ->
                     {CapturedRect(s, table, g, rect)}
                [] OTHER -> {}
  IN {e \in made : ValidDocument(e.nodes, Root)}

\* from_table: the texts of a cell at its origin, nothing at covered slots.
TextRows(s, g) ==
  LET texts(cell) == LET ps == SelectSeq(PreOrder(s, cell), LAMBDA i : s[i].kind = "Paragraph")
                     IN [i \in DOMAIN ps |-> s[ps[i]].text]
      slot(r, k) == LET p == PlacementOf(g, SlotAt(g, r, k))
                    IN IF p.row = r /\ p.column = k THEN texts(p.cell) ELSE <<"">>
  IN [r \in 1..Len(g.rows) |-> [k \in 1..g.columns |-> slot(r - 1, k - 1)]]

-----------------------------------------------------------------------------
(* Properties.                                                             *)

WidthAt(s, g, slot) ==
  LET p == PlacementOf(g, SlotAt(g, slot[1], slot[2]))
      widths == s[p.cell].attrs.widths
  IN IF widths.is = "list" THEN widths.list[slot[2] - p.column + 1] ELSE 0

ShowsTheRect(s, g, source, e, clip, rect) ==
  LET there(slot) == <<slot[1] - rect.top, slot[2] - rect.left>>
      blocks(cell) == [i \in DOMAIN Kids(e, cell) |-> e[Kids(e, cell)[i]]]
  IN /\ Len(clip.rows) = rect.bottom - rect.top /\ clip.columns = rect.right - rect.left
     /\ \A slot \in SlotsOf(rect) :
          LET p == PlacementOf(g, SlotAt(g, slot[1], slot[2]))
          IN /\ SlotAt(clip, there(slot)[1], there(slot)[2]) = p.cell
             /\ WidthAt(e, clip, there(slot)) = WidthAt(s, g, slot)
             /\ e[p.cell].kind = s[p.cell].kind
             /\ IF <<p.row, p.column>> \in SlotsOf(rect)
                THEN \A n \in Subtree(s, p.cell) \ {p.cell} : e[n] = s[n]
                ELSE blocks(p.cell) = <<EmptyParagraph>>
     /\ TextRows(e, clip) =
          [r \in 1..rect.bottom - rect.top |-> SubSeq(source[rect.top + r], rect.left + 1, rect.right)]

CrossesEdge(p, rect) ==
  LET slots == SlotsOf(Footprint(p))
  IN slots \cap SlotsOf(rect) # {} /\ slots \ SlotsOf(rect) # {}

ExportsAreExact(s, range, table, g, rect, exports) ==
  LET whole == IF \E p \in Range(g.cells) : CrossesEdge(p, rect) THEN {} ELSE exports["Clipped"]
  IN /\ exports["Clipped"] # {}
     /\ exports["Closed"] = whole
     /\ exports["Unit"] = IF HasSpans(g) THEN {} ELSE whole
     /\ SliceCellRange(s, range, g) = {e.nodes : e \in exports["Unit"]}
     /\ \A e \in exports["Clipped"] :
          ShowsTheRect(s, g, TextRows(s, g), e.nodes, Grid(e.nodes, table), rect)

RangeOfGrid(s, range, table, g, rect) ==
  ExportsAreExact(s, range, table, g, rect,
                  [mode \in ExportModes |-> Exported(s, table, g, rect, mode)])
RangeIsExact(s, range) ==
  RangeOfGrid(s, range, TableOf(s, range.anchor), RangeGrid(s, range), LogicalRect(s, range))

RangesOf(s) == {range \in SelectionsOf(s) : range.form = "cells" /\ ValidSelection(s, range)}
Opened == edits = 0 /\ past = <<>> /\ sel = Caret(DocumentEnd(store))

\* Whatever cells cross its edge, a clipped copy of a range is a valid table
\* of the rectangle's size: every slot shows the cell it shows in the source,
\* at its column's width, with the cell's content if the cell begins in the
\* rectangle and one empty paragraph if not, and its text is that part of the
\* table's text.  A copy of whole cells exists just when no cell crosses the
\* edge and is then the clipped one, and the one made without a policy
\* (cell_export.rs, clipped.rs, projection.rs, fragment.rs).
ClipsAreExact ==
  \A s \in {store} \union ExportSamples :
    LET ranges == CASE s = store -> {x \in {sel} : x.form = "cells"}
                    [] s # store /\ Opened -> RangesOf(s)
                    [] OTHER -> {}
    IN \A range \in ranges : RangeIsExact(s, range)
=============================================================================
