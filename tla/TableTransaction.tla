--------------------------- MODULE TableTransaction ---------------------------
(***************************************************************************)
(* Core transactions over documents with tables: the unit-grid steps, the  *)
(* plain block steps that table commands are made of, and the application  *)
(* of a sequence of steps with one validation at the end                   *)
(* (crates/xiaomu-core/src/transaction/apply.rs, apply/table.rs).          *)
(*                                                                         *)
(* Root is the id of the document node.  A text is one value, so a text    *)
(* edit replaces the whole of it.                                          *)
(***************************************************************************)
EXTENDS TableTemplates

CONSTANT Root

TextLen(text) == IF text = "" THEN 0 ELSE 1

InsertNode(c, s) ==
  IF s.parent \in DOMAIN c.store /\ s.index <= Len(Kids(c.store, s.parent))
  THEN {Done(Over(c.store,
               c.next :> Node(s.kind, NoAttrs, <<>>, s.text)
               @@ s.parent :> WithKids(c.store, s.parent,
                                InsertAt(Kids(c.store, s.parent), s.index + 1, c.next))),
             c.next + 1, <<NodeInserted(s.parent, s.index, c.next)>>, <<RemoveNodeStep(c.next)>>)}
  ELSE {}

RemoveNode(c, s) ==
  LET gone == Subtree(c.store, s.node)
      parent == ParentOf(c.store, s.node)
      index == Position(Kids(c.store, parent), s.node) - 1
  IN IF s.node # Root /\ ParentsOf(c.store, s.node) # {}
     THEN {Done(Over(Without(c.store, gone),
                     parent :> WithKids(c.store, parent, Remove(Kids(c.store, parent), s.node))),
                c.next, <<NodeRemoved(parent, index, gone)>>,
                <<RestoreSubtreeStep(parent, index, s.node, Restrict(c.store, gone))>>)}
     ELSE {}

RestoreSubtree(c, s) ==
  IF /\ DOMAIN s.nodes \cap DOMAIN c.store = {}
     /\ s.parent \in DOMAIN c.store
     /\ s.index <= Len(Kids(c.store, s.parent))
  THEN {Done(Over(Over(c.store, s.nodes),
                  s.parent :> WithKids(c.store, s.parent,
                    InsertAt(Kids(c.store, s.parent), s.index + 1, s.top))),
             Max({c.next} \cup {i + 1 : i \in DOMAIN s.nodes}),
             <<NodeInserted(s.parent, s.index, s.top)>>, <<RemoveNodeStep(s.top)>>)}
  ELSE {}

\* Mutant: the attributes are not given back.
KindBack(s, old) == [s EXCEPT !.kind = old.kind]

CellBack(s, old) == [s EXCEPT !.kind = old.kind, !.attrs = old.attrs]

SetCell(c, s) ==
  {Done(Over(c.store, s.node :> [c.store[s.node] EXCEPT !.kind = s.kind, !.attrs = s.attrs]),
        c.next, <<>>, <<CellBack(s, c.store[s.node])>>) : x \in {s.node} \cap DOMAIN c.store}

SetText(c, s) ==
  {Done(Over(c.store, s.node :> [c.store[s.node] EXCEPT !.text = s.text]), c.next,
        <<TextReplaced(s.node, 0, TextLen(c.store[s.node].text), TextLen(s.text))>>,
        <<[s EXCEPT !.text = c.store[s.node].text]>>) : x \in {s.node} \cap DOMAIN c.store}

-----------------------------------------------------------------------------
(* Whole tables, rows and columns of unit cells.                           *)

\* Mutant: growth is asked of the budget one table at a time.
GrowsAlone(c, rows, columns, cells) == Within(Usage(rows * columns, cells), Usage(0, 0))

Grows(c, rows, columns, cells) ==
  Within(Total(c.store, TablesOf(c.store)), Usage(rows * columns, cells))

\* Cells of one row take two ids each: the cell, then its paragraph.
InsertTable(c, s) ==
  LET stride == 2 * s.columns + 1
      cell(r, k) == c.next + stride * (r - 1) + 2 * (k - 1)
      row(r) == c.next + stride * r - 1
      table == c.next + stride * s.rows
      fresh == [id \in c.next..table |->
                  LET r == (id - c.next) \div stride + 1
                      k == (id - c.next) % stride
                  IN CASE id = table -> Node("Table", NoAttrs, [i \in 1..s.rows |-> row(i)], "")
                       [] id # table /\ k = stride - 1 ->
                            Node("TableRow", NoAttrs, [i \in 1..s.columns |-> cell(r, i)], "")
                       [] id # table /\ k < stride - 1 /\ k % 2 = 0 ->
                            Node("TableCell", NoAttrs, <<id + 1>>, "")
                       [] OTHER -> EmptyParagraph]
  IN IF /\ s.rows > 0 /\ s.columns > 0
        /\ Grows(c, s.rows, s.columns, s.rows * s.columns)
        /\ s.parent \in DOMAIN c.store
        /\ s.index <= Len(Kids(c.store, s.parent))
     THEN {Done(Over(Over(c.store, fresh),
                     s.parent :> WithKids(c.store, s.parent,
                       InsertAt(Kids(c.store, s.parent), s.index + 1, table))),
                table + 1, <<NodeInserted(s.parent, s.index, table)>>, <<RemoveNodeStep(table)>>)}
     ELSE {}

\* All the cells of the row first, then their paragraphs, then the row.
InsertTableRow(c, s, g) ==
  LET columns == g.columns
      row == c.next + 2 * columns
      fresh == [id \in c.next..row |->
                  CASE id = row -> Node("TableRow", NoAttrs, [k \in 1..columns |-> c.next + k - 1], "")
                    [] id < c.next + columns -> Node("TableCell", NoAttrs, <<id + columns>>, "")
                    [] OTHER -> EmptyParagraph]
  IN IF /\ ~HasSpans(g)
        /\ s.index <= Len(Kids(c.store, s.table))
        /\ Grows(c, 1, columns, columns)
     THEN {Done(Over(Over(c.store, fresh),
                     s.table :> WithKids(c.store, s.table,
                       InsertAt(Kids(c.store, s.table), s.index + 1, row))),
                row + 1, <<NodeInserted(s.table, s.index, row)>>, <<RemoveNodeStep(row)>>)}
     ELSE {}

InsertTableColumn(c, s, g) ==
  LET rows == Kids(c.store, s.table)
      cell(i) == c.next + 2 * (i - 1)
      fresh == [id \in c.next..c.next + 2 * Len(rows) - 1 |->
                  IF (id - c.next) % 2 = 0 THEN Node("TableCell", NoAttrs, <<id + 1>>, "")
                  ELSE EmptyParagraph]
      wider == [id \in Range(rows) |->
                  WithKids(c.store, id,
                    InsertAt(Kids(c.store, id), s.index + 1, cell(Position(rows, id))))]
  IN IF /\ ~HasSpans(g)
        /\ s.index <= g.columns
        /\ Grows(c, Len(rows), 1, Len(rows))
     THEN {Done(Over(c.store, fresh @@ wider), c.next + 2 * Len(rows),
                [i \in DOMAIN rows |-> NodeInserted(rows[i], s.index, cell(i))],
                Reverse([i \in DOMAIN rows |-> RemoveNodeStep(cell(i))]))}
     ELSE {}

-----------------------------------------------------------------------------
(* The engine.                                                             *)

\* Steps that read the grid of their table.
ApplyToGrid(c, s, g) ==
  CASE s.op = "InsertTableRow"       -> InsertTableRow(c, s, g)
    [] s.op = "InsertTableColumn"    -> InsertTableColumn(c, s, g)
    [] s.op = "ReplaceTableRect"     -> ReplaceTableRect(c, s, g)
    [] s.op = "InsertRowLogical"     -> InsertRowLogical(c, s, g)
    [] s.op = "InsertColumnLogical"  -> InsertColumnLogical(c, s, g)
    [] s.op = "DeleteRowsLogical"    -> DeleteRowsLogical(c, s, g)
    [] s.op = "DeleteColumnsLogical" -> DeleteColumnsLogical(c, s, g)
    [] s.op = "IsolateTableRect"     -> IsolateTableRect(c, s, g)
    [] s.op = "MergeTableCells"      -> MergeTableCells(c, s, g)
    [] s.op = "SplitTableCell"       -> SplitTableCell(c, s, g)

Apply(c, s) ==
  CASE s.op = "ReplaceDocument"      -> ReplaceDocument(c, s)
    [] s.op = "RestoreDocument"      -> RestoreDocument(c, s)
    [] s.op = "InsertNode"           -> InsertNode(c, s)
    [] s.op = "RemoveNode"           -> RemoveNode(c, s)
    [] s.op = "RestoreSubtree"       -> RestoreSubtree(c, s)
    [] s.op = "SetCell"              -> SetCell(c, s)
    [] s.op = "SetText"              -> SetText(c, s)
    [] s.op = "InsertTable"          -> InsertTable(c, s)
    [] s.op = "InsertTableTree"      -> InsertTableTree(c, s)
    [] s.op = "RestoreTableCells"    -> Restore(c, s)
    [] OTHER -> IF s.table \in DOMAIN c.store /\ GridOK(c.store, s.table)
                THEN ApplyToGrid(c, s, Grid(c.store, s.table)) ELSE {}

Then(done, r) ==
  Done(r.store, r.next, done.maps \o r.maps, r.inverse \o done.inverse)

Unvalidated(store, next, steps) ==
  FoldLeft(LAMBDA done, s :
             UNION {{Then(d, r) : r \in Apply(Context(d.store, d.next), s)} : d \in done},
           {Done(store, next, <<>>, <<>>)}, steps)

\* A transaction: its steps on intermediate stores, then one validation.
ApplySteps(store, next, steps) ==
  {d \in Unvalidated(store, next, steps) : ValidDocument(d.store, Root)}
=============================================================================
