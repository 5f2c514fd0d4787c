----------------------------- MODULE TableSession -----------------------------
(***************************************************************************)
(* Table commands of the document session: the intents that plan table     *)
(* steps from the selection, host plans, and undo and redo                 *)
(* (crates/xiaomu-runtime/src/session/table.rs, table_commands.rs,         *)
(* cell_edit.rs, paste_table.rs, commit.rs).                               *)
(*                                                                         *)
(* A call that fails leaves the session alone and is not a step, but for a *)
(* host step that passes its own checks: its outcome is recorded.  Typing  *)
(* groups, marks, policies and listeners are in Session.                   *)
(***************************************************************************)
EXTENDS TableSelections

CONSTANTS
  FirstStores,      \* the documents a session may open
  HostOps,          \* the table steps host plans use
  Commands,         \* the intents used
  Later,            \* bound: those of both that follow a first edit
  MaxEdits,         \* bound: commits after the open
  Letter            \* the text typed

VARIABLES
  store, next,      \* the document
  sel,
  past, future,     \* history entries
  edits,
  outcome,          \* of the last call: "ok", or "invalid" at the validation
  last,             \* the document and maps of the last commit
  seen,             \* the documents of past and future entries
  views             \* what LogicalTable sees of all of them, and the ids used

vars == <<store, next, sel, past, future, edits, outcome, last, seen, views>>

-----------------------------------------------------------------------------
(* The pages of LogicalTable.                                              *)

Listed(s, kids) == [i \in DOMAIN kids |-> [id |-> kids[i], text |-> s[kids[i]].text]]
Matrix(g) == [r \in 1..Len(g.rows) |-> [k \in 1..g.columns |-> SlotAt(g, r - 1, k - 1)]]
PageOf(s) ==
  [top |-> Listed(s, Kids(s, Root)),
   tables |-> [t \in TablesOf(s) |-> Matrix(Grid(s, t))],
   blocks |-> [c \in {i \in DOMAIN s : IsCell(s, i)} |-> Listed(s, Kids(s, c))]]

Logical == INSTANCE LogicalTable
             WITH page <- views.page, past <- views.past,
                  future <- views.future, used <- views.used

Entry(undo, redo, before, after) ==
  [undo |-> undo, redo |-> redo, before |-> before, after |-> after]

Init ==
  /\ store \in FirstStores
  /\ next = Max(DOMAIN store) + 1
  /\ sel = Caret(DocumentEnd(store))
  /\ past = <<>> /\ future = <<>>
  /\ edits = 0
  /\ outcome = "ok"
  /\ last = [before |-> store, maps |-> <<>>]
  /\ seen = [past |-> <<>>, future |-> <<>>]
  /\ views = [page |-> PageOf(store), past |-> <<>>, future |-> <<>>,
              used |-> Logical!Idents(PageOf(store))]

Intents == IF edits = 0 THEN Commands ELSE Commands \cap Later
HostSteps == IF edits = 0 THEN HostOps ELSE HostOps \cap Later

-----------------------------------------------------------------------------
(* Plans and their publication.  The stages of a plan are transactions, a  *)
(* selection that maps goes through each of them, and their inverses join. *)

Plan(before, stages, update) == [before |-> before, stages |-> stages, update |-> update]
StepsPlan(steps, update) == Plan(sel, <<steps>>, update)

\* Every stage but the last is validated before the next begins.
Staged(stages) ==
  FoldLeft(LAMBDA done, steps :
             UNION {{Then(d, r) : r \in Unvalidated(d.store, d.next, steps)} :
                      d \in {d \in done : ValidDocument(d.store, Root)}},
           {Done(store, next, <<>>, <<>>)}, stages)

Publish(d, before, after, redo) ==
  /\ store' = d.store /\ next' = d.next
  /\ sel' = after
  /\ past' = Append(past, Entry(d.inverse, redo, before, after))
  /\ future' = <<>>
  /\ edits' = edits + 1
  /\ outcome' = "ok"
  /\ last' = [before |-> store, maps |-> d.maps]
  /\ seen' = [past |-> Append(seen.past, store), future |-> <<>>]
  /\ \E page \in {PageOf(d.store)} :
       views' = [page |-> page, past |-> Append(views.past, views.page), future |-> <<>>,
                 used |-> views.used \cup Logical!Idents(page)]

\* Refused in the checks of a step (no result), refused by the validation of
\* the whole document, or published.
Commit(plan) ==
  /\ edits < MaxEdits
  /\ \E d \in Staged(plan.stages) :
       IF ValidDocument(d.store, Root)
       THEN \E after \in Resolve(plan.update, d.maps, plan.before, d.store),
               redo \in ApplySteps(d.store, d.next, d.inverse) :
              Publish(d, plan.before, after, redo.inverse)
       ELSE /\ outcome' = "invalid"
            /\ UNCHANGED <<store, next, sel, past, future, edits, last, seen, views>>

-----------------------------------------------------------------------------
(* Host plans of one table step, through apply_plan.                       *)

Rects(g) ==
  {r \in [top : 0..Len(g.rows) - 1, left : 0..g.columns - 1,
          bottom : 1..Len(g.rows), right : 1..g.columns] : r.top < r.bottom /\ r.left < r.right}

StepsOf(op, table, g) ==
  CASE op \in {"InsertRowLogical", "InsertColumnLogical"} ->
         [op : {op}, table : {table}, index : 0..(IF op = "InsertRowLogical" THEN Len(g.rows)
                                                 ELSE g.columns)]
    [] op \in {"DeleteRowsLogical", "DeleteColumnsLogical"} ->
         [op : {op}, table : {table}, start : 0..Max({Len(g.rows), g.columns}) - 1,
          end : 1..Max({Len(g.rows), g.columns})]
    [] op = "IsolateTableRect" ->
         [op : {op}, table : {table}, rect : {r \in Rects(g) : ~IsClosedRect(g, r)}]
    [] op = "MergeTableCells" -> [op : {op}, table : {table}, rect : Rects(g)]
    [] op = "SplitTableCell"  -> [op : {op}, table : {table},
                                  cell : {g.cells[i].cell : i \in DOMAIN g.cells}]
    [] op = "ReplaceTableRect" ->
         UNION {[op : {op}, table : {table},
                 rect : {r \in Rects(g) : /\ r.bottom - r.top = Len(Kids(store, t))
                                          /\ r.right - r.left = Grid(store, t).columns},
                 tree : {Capture(store, t)}] : t \in TablesOf(store)}
    [] op = "InsertTableTree" ->
         [op : {op}, parent : {Root}, index : {Len(Kids(store, Root))}, tree : {Capture(store, table)}]
    [] OTHER -> {}

HostPlans ==
  UNION {{StepsPlan(<<step>>, MapExisting) : step \in StepsOf(op, table, Grid(store, table))} :
           op \in HostSteps, table \in TablesOf(store)}

\* The whole document gives way to a copy of itself.
ReplaceDocumentPlans ==
  {StepsPlan(<<[op |-> "ReplaceDocument", root |-> Root, tree |-> Capture(store, Root)]>>,
             CaretAtDocumentEnd) : op \in HostSteps \cap {"ReplaceDocument"}}

-----------------------------------------------------------------------------
(* Selection.                                                              *)

\* Placed on the document as opened: what follows maps it.
SetCellRangeSelection ==
  /\ edits = 0 /\ past = <<>> /\ future = <<>>
  /\ \E anchor, focus \in {i \in DOMAIN store : IsCell(store, i)} :
       LET row == ParentOf(store, anchor)
           range == CellRange(anchor, focus, Gap(row, Position(Kids(store, row), anchor) - 1))
       IN ValidSelection(store, range) /\ sel' = range
  /\ UNCHANGED <<store, next, past, future, edits, outcome, last, seen, views>>

PlaceCaret ==
  /\ edits = 0 /\ past = <<>> /\ future = <<>>
  /\ \E node \in DOMAIN store :
       store[node].kind = "Paragraph" /\ sel' = Caret(Inline(node, 0))
  /\ UNCHANGED <<store, next, past, future, edits, outcome, last, seen, views>>

-----------------------------------------------------------------------------
(* Moving between the cells of a unit table.  A cell range first collapses *)
(* to a caret in the cell it began in, and stays so when there is nowhere  *)
(* to go; behind the last cell a row is appended.                          *)

CaretIn(cell) == Caret(Inline(LeadingText(store, cell), 0))
Collapsed == IF sel.form = "cells" THEN CaretIn(sel.anchor) ELSE sel

UnitTable(table) == ~HasSpans(Grid(store, table))
FocusedTableCell ==
  {cell \in IF Collapsed.caret.at = "inline" THEN CellsAround(store, Collapsed.caret.node) ELSE {} :
     "MoveCell" \in Intents /\ UnitTable(TableOf(store, cell))}

Neighbour(cell, by) ==
  LET table == TableOf(store, cell)
      order == FlattenSeq([r \in DOMAIN Kids(store, table) |-> Kids(store, Kids(store, table)[r])])
      i == Position(order, cell) + by
  IN IF i \in DOMAIN order THEN {order[i]} ELSE {}

InstallSelection(selection) ==
  /\ sel' = selection
  /\ UNCHANGED <<store, next, past, future, edits, outcome, last, seen, views>>

MoveToPreviousCell ==
  \E cell \in FocusedTableCell :
    \/ Neighbour(cell, -1) = {} /\ InstallSelection(Collapsed)
    \/ \E to \in Neighbour(cell, -1) : InstallSelection(CaretIn(to))

MoveToNextCell ==
  \E cell \in FocusedTableCell :
    \E to \in Neighbour(cell, 1) : InstallSelection(CaretIn(to))

AppendRowPlans ==
  {LET table == TableOf(store, cell)
   IN Plan(Collapsed,
           << <<[op |-> "InsertTableRow", table |-> table, index |-> Len(Kids(store, table))]>> >>,
           CaretAtStartOfLastInsertedSubtree) :
     cell \in {cell \in FocusedTableCell : Neighbour(cell, 1) = {}}}

-----------------------------------------------------------------------------
(* Commands on the selected cells.                                         *)

OverCells(intent) == intent \in Intents /\ sel.form = "cells"
CaretInText(intent) == intent \in Intents /\ sel.form = "caret" /\ sel.caret.at = "inline"

MergeCells ==
  IF /\ OverCells("MergeTableCells")
     /\ IsClosedRect(RangeGrid(store, sel), LogicalRect(store, sel))
     /\ Len(UniqueOrigins(store, sel)) >= 2
  THEN {StepsPlan(<<[op |-> "MergeTableCells", table |-> TableOf(store, sel.anchor),
                     rect |-> LogicalRect(store, sel)]>>, MapExisting)}
  ELSE {}

SplitCell ==
  LET cells == CASE OverCells("SplitTableCell")   -> {sel.anchor} \cap {sel.focus}
                 [] CaretInText("SplitTableCell") -> CellsAround(store, sel.caret.node)
                 [] OTHER -> {}
      spans(cell) == LET p == PlacementOf(Grid(store, TableOf(store, cell)), cell)
                     IN p.rowspan * p.colspan > 1
  IN {StepsPlan(<<[op |-> "SplitTableCell", table |-> TableOf(store, cell), cell |-> cell]>>,
                PreserveSelection) : cell \in {cell \in cells : spans(cell)}}

AlreadyEmpty(cell) ==
  Len(Kids(store, cell)) = 1 /\ store[Kids(store, cell)[1]] = EmptyParagraph

\* Every cell of the range is left with one paragraph; the one of the cell
\* the range began in is made last and takes the text.
CellContent(cells, text) ==
  LET order == SelectSeq(cells, LAMBDA c : c # sel.anchor) \o SelectSeq(cells, LAMBDA c : c = sel.anchor)
      steps(cell) ==
        <<[op |-> "InsertNode", parent |-> cell, index |-> 0, kind |-> "Paragraph",
           text |-> IF cell = sel.anchor THEN text ELSE ""]>>
        \o [i \in DOMAIN Kids(store, cell) |-> RemoveNodeStep(Kids(store, cell)[i])]
  IN FlattenSeq([i \in DOMAIN order |-> steps(order[i])])

EraseCells ==
  IF OverCells("Backspace") /\ ~\A cell \in Range(UniqueOrigins(store, sel)) : AlreadyEmpty(cell)
  THEN {StepsPlan(CellContent(UniqueOrigins(store, sel), ""), MapExisting)} ELSE {}

TypeOverCells ==
  IF OverCells("InsertText")
  THEN {StepsPlan(CellContent(UniqueOrigins(store, sel), Letter), CaretAtLastInsertedOffset(1))} ELSE {}

\* Text at a caret, in a paragraph that has none.
TypeAtCaret ==
  IF CaretInText("InsertText") /\ store[sel.caret.node].text = ""
  THEN {StepsPlan(<<[op |-> "SetText", node |-> sel.caret.node, text |-> Letter]>>,
                  CaretAt(Inline(sel.caret.node, 1)))}
  ELSE {}

-----------------------------------------------------------------------------
(* Tables, rows and columns by address; unit tables only.                  *)

InsertTableAfterBlock ==
  IF CaretInText("InsertTable")
  THEN LET parent == ParentOf(store, sel.caret.node)
       IN {StepsPlan(<<[op |-> "InsertTable", parent |-> parent, rows |-> 1, columns |-> 2,
                        index |-> Position(Kids(store, parent), sel.caret.node)]>>, MapExisting)}
  ELSE {}

UnitTables(intent) == {t \in TablesOf(store) : intent \in Intents /\ UnitTable(t)}

InsertLines(intent) ==
  UNION {{StepsPlan(<<[op |-> intent, table |-> table, index |-> index]>>, MapExisting) :
            index \in 0..(IF intent = "InsertTableRow" THEN Len(Kids(store, table))
                          ELSE Grid(store, table).columns)} : table \in UnitTables(intent)}

\* A caret inside what goes ends in the gap it leaves; a range shrinks.
DeleteLine(nodes, gaps) ==
  StepsPlan([i \in DOMAIN nodes |-> RemoveNodeStep(nodes[i])],
            IF sel.form # "cells" /\ gaps # {} THEN CaretAt(CHOOSE g \in gaps : TRUE)
            ELSE MapExisting)

DeleteTableRow ==
  UNION {LET rows == Kids(store, table)
             gaps(i) == {Gap(table, i - 1) : r \in {r \in {rows[i]} : FocusIsWithin(store, sel, r)}}
         IN {DeleteLine(<<rows[i]>>, gaps(i)) : i \in {i \in DOMAIN rows : Len(rows) > 1}} :
           table \in UnitTables("DeleteTableRow")}

DeleteTableColumn ==
  UNION {LET rows == Kids(store, table)
             kth(k) == [r \in DOMAIN rows |-> Kids(store, rows[r])[k]]
             gaps(k) == {Gap(row, k - 1) : row \in {row \in Range(rows) :
                           FocusIsWithin(store, sel, Kids(store, row)[k])}}
             columns == Grid(store, table).columns
         IN {DeleteLine(kth(k), gaps(k)) : k \in {k \in 1..columns : columns > 1}} :
           table \in UnitTables("DeleteTableColumn")}

-----------------------------------------------------------------------------
(* Pasting a table: a stage for every block that comes, a last one for the *)
(* cells' kinds and attributes and for the blocks that go.  The table      *)
(* pasted is a copy of one in the document, of unit cells and plain text.  *)

Arrivals(cell, source, index) ==
  [i \in DOMAIN Kids(store, source) |->
     <<[op |-> "InsertNode", parent |-> cell, index |-> index + i - 1, kind |-> "Paragraph",
        text |-> store[Kids(store, source)[i]].text]>>]

PlainTables ==
  {t \in TablesOf(store) : UnitTable(t) /\ Subtree(store, t) \cap TablesOf(store) = {t}}

OverCellsPlan(targets, copied) ==
  LET arrive == FlattenSeq([i \in DOMAIN targets |-> Arrivals(targets[i], copied[i].cell, 0)])
      settle == [i \in DOMAIN targets |->
                   [op |-> "SetCell", node |-> targets[i], kind |-> store[copied[i].cell].kind,
                    attrs |-> store[copied[i].cell].attrs]]
      leave == FlattenSeq([i \in DOMAIN targets |->
                 [k \in DOMAIN Kids(store, targets[i]) |-> RemoveNodeStep(Kids(store, targets[i])[k])]])
  IN Plan(sel, arrive \o <<settle \o leave>>, MapExisting)

FitsSelection(source) ==
  LET rect == LogicalRect(store, sel)
      from == Grid(store, source)
  IN rect.bottom - rect.top = Len(from.rows) /\ rect.right - rect.left = from.columns

PasteTableOverCells ==
  IF OverCells("PasteTable") /\ UnitTable(TableOf(store, sel.anchor))
  THEN {OverCellsPlan(UniqueOrigins(store, sel), Grid(store, source).cells) :
          source \in {t \in PlainTables : FitsSelection(t)}}
  ELSE {}

\* At a caret in a cell: the blocks of a table of one cell of its kind,
\* behind the block of the caret.
PasteTableAtCaret ==
  IF CaretInText("PasteTable")
  THEN UNION {LET copied == Grid(store, source).cells[1].cell
              IN {Plan(sel, Arrivals(cell, copied, Position(Kids(store, cell), sel.caret.node)),
                       MapExisting) :
                    cell \in {c \in CellsAround(store, sel.caret.node) :
                                UnitTable(TableOf(store, c)) /\ store[c].kind = store[copied].kind}} :
                source \in {t \in PlainTables : Len(Grid(store, t).cells) = 1}}
  ELSE {}

\* At a caret outside a table: a table of that size behind the block, its
\* cells' attributes, the blocks one by one, and its own paragraphs go last.
BesideBlock(source, g) ==
  LET stride == 2 * g.columns + 1
      block == sel.caret.node
      cell(p) == next + stride * p.row + 2 * p.column
      cells == g.cells
      insert == [op |-> "InsertTable", parent |-> ParentOf(store, block),
                 index |-> Position(Kids(store, ParentOf(store, block)), block),
                 rows |-> Len(g.rows), columns |-> g.columns]
      settle == [i \in DOMAIN cells |->
                   [op |-> "SetCell", node |-> cell(cells[i]),
                    kind |-> store[cells[i].cell].kind, attrs |-> store[cells[i].cell].attrs]]
      seeds == [i \in DOMAIN cells |-> RemoveNodeStep(cell(cells[i]) + 1)]
      arrive == [i \in DOMAIN cells |-> Arrivals(cell(cells[i]), cells[i].cell, 0)]
  IN Plan(sel, << <<insert>>, settle >> \o FlattenSeq(arrive) \o <<seeds>>, MapExisting)

PasteTableBesideBlock ==
  IF CaretInText("PasteTable") /\ CellsAround(store, sel.caret.node) = {}
  THEN {BesideBlock(source, Grid(store, source)) : source \in PlainTables}
  ELSE {}

Plans ==
  HostPlans \cup ReplaceDocumentPlans
  \cup AppendRowPlans \cup MergeCells \cup SplitCell \cup EraseCells
  \cup TypeOverCells \cup TypeAtCaret \cup InsertTableAfterBlock
  \cup InsertLines("InsertTableRow") \cup InsertLines("InsertTableColumn")
  \cup DeleteTableRow \cup DeleteTableColumn
  \cup PasteTableOverCells \cup PasteTableAtCaret \cup PasteTableBesideBlock

-----------------------------------------------------------------------------
(* History.                                                                *)

\* apply_history_transaction: both stacks move by one entry.
Replay(steps, selection) ==
  \E d \in ApplySteps(store, next, steps) :
    /\ ValidSelection(d.store, selection)
    /\ store' = d.store /\ next' = d.next /\ sel' = selection
    /\ outcome' = "ok"
    /\ UNCHANGED <<edits, last>>

Undone(old, current) ==
  [old EXCEPT !.past = Front(@), !.future = Append(@, current)]
Redone(old, current) == [old EXCEPT !.future = Front(@), !.past = Append(@, current)]

Undo ==
  /\ past' = Front(past) /\ future' = Append(future, Last(past))
  /\ seen' = Undone(seen, store)
  /\ views' = [Undone(views, views.page) EXCEPT !.page = PageOf(store')]

Redo ==
  /\ future' = Front(future) /\ past' = Append(past, Last(future))
  /\ seen' = Redone(seen, store)
  /\ views' = [Redone(views, views.page) EXCEPT !.page = PageOf(store')]

\* The entry undo and the entry redo would replay, with the document each
\* is to give.
ReplayableEntries ==
  {[move |-> "undo", steps |-> past[n].undo, selection |-> past[n].before,
    document |-> seen.past[n]] : n \in {Len(past)} \cap DOMAIN past}
  \cup {[move |-> "redo", steps |-> future[n].redo, selection |-> future[n].after,
         document |-> seen.future[n]] : n \in {Len(future)} \cap DOMAIN future}

History ==
  \E e \in ReplayableEntries :
    /\ Replay(e.steps, e.selection)
    /\ \/ e.move = "undo" /\ Undo
       \/ e.move = "redo" /\ Redo

Next ==
  \/ \E plan \in Plans : Commit(plan)
  \/ SetCellRangeSelection \/ PlaceCaret
  \/ MoveToPreviousCell \/ MoveToNextCell
  \/ History

Spec == Init /\ [][Next]_vars

-----------------------------------------------------------------------------
(* Properties.                                                             *)

\* Every table command, host step, undo and redo is an edit LogicalTable
\* promises on the matrix of slots, with no id that an earlier document held:
\* rows of cells, spans, exchanges and step order are not to be seen.
LogicalRefinement == Logical!Spec

\* A table step that passes its own checks (grid, rectangle, budget) leaves
\* a document the validation accepts: the checks before and after agree.
ChecksAgree == outcome # "invalid"

\* The next undo and the next redo are accepted and give back the document
\* node for node, attributes and widths included, and the selection then.
HistoryReplays ==
  \A e \in ReplayableEntries :
    \E d \in ApplySteps(store, next, e.steps) :
      d.store = e.document /\ ValidSelection(d.store, e.selection)

SelectionsOf(s) ==
  UNION {
    {Caret(Gap(n, i)) : n \in {n \in DOMAIN s : s[n].kind # "Paragraph"},
                        i \in 0..Max({Len(Kids(s, n)) : n \in DOMAIN s})},
    {Caret(Inline(n, i)) : n \in {n \in DOMAIN s : s[n].kind = "Paragraph"}, i \in 0..1},
    UNION {NodeSelectionsOf(s, n) : n \in DOMAIN s},
    {CellRange(a, b, Gap(ParentOf(s, a), Position(Kids(s, ParentOf(s, a)), a) - 1)) :
       a, b \in {i \in DOMAIN s : IsCell(s, i)}}}

\* Any selection of the document before the last commit has a place after
\* it: a cell range always, as a range, the cell that is left, or a caret at
\* the seam; a block or caret as long as its node is there.
SelectionsSurvive ==
  \A s \in SelectionsOf(last.before) :
    ValidSelection(last.before, s) =>
      LET mapped == MapThrough(last.maps, s)
          kept == CASE s.form = "cells" -> TRUE
                    [] s.form = "node"  -> s.node \in DOMAIN store
                    [] s.form = "caret" -> s.caret.node \in DOMAIN store
          afterCommit == past # <<>> /\ future = <<>> /\ Last(seen.past) = last.before
      IN afterCommit =>
           IF mapped = Deleted THEN ~kept ELSE ValidSelection(store, mapped)
=============================================================================
