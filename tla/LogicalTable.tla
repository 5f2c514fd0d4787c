----------------------------- MODULE LogicalTable -----------------------------
(***************************************************************************)
(* What table editing promises, without rows of cells, spans or exchanges: *)
(* a table is a matrix of slots, each holding the cell that covers it, and *)
(* a cell is a list of blocks.  Inserting a line shifts the others,        *)
(* merging keeps every block in reading order, dividing a cell leaves its  *)
(* blocks in its first slot, and undo is the document before the edit.     *)
(*                                                                         *)
(* An edit may take new cells, blocks and tables, and never one that any   *)
(* document before it held.                                                *)
(***************************************************************************)
EXTENDS Integers, SequencesExt

VARIABLES
  page,           \* [top, tables, blocks]: the document
  past, future,   \* the documents undo and redo lead to
  used            \* every id a document held

view == <<page, past, future, used>>

Rows(matrix) == DOMAIN matrix
Columns(matrix) == DOMAIN matrix[1]
Slots(matrix) == Rows(matrix) \X Columns(matrix)
At(matrix, slot) == matrix[slot[1]][slot[2]]
CellsOf(matrix) == UNION {Range(matrix[r]) : r \in Rows(matrix)}
SlotsHeld(matrix, cell) == {slot \in Slots(matrix) : At(matrix, slot) = cell}
FirstSlot(matrix, cell) ==
  CHOOSE slot \in SlotsHeld(matrix, cell) :
    \A other \in SlotsHeld(matrix, cell) : slot[1] <= other[1] /\ slot[2] <= other[2]
Transposed(matrix) == [k \in Columns(matrix) |-> [r \in Rows(matrix) |-> matrix[r][k]]]

IsRectangle(slots) ==
  /\ slots # {}
  /\ slots = {s[1] : s \in slots} \X {s[2] : s \in slots}
  /\ \A s, u \in slots : s[1]..u[1] \subseteq {x[1] : x \in slots}
                         /\ s[2]..u[2] \subseteq {x[2] : x \in slots}

Ids(list) == {b.id : b \in Range(list)}
Idents(p) == DOMAIN p.tables \cup DOMAIN p.blocks \cup Ids(p.top)
             \cup UNION {Ids(p.blocks[c]) : c \in DOMAIN p.blocks}
Blank(list) == Len(list) = 1 /\ list[1].text = ""

\* Cells fill rectangles of one table each; every table is a block of the
\* page or of one cell.
WellFormed(p) ==
  /\ DOMAIN p.blocks = UNION {CellsOf(p.tables[t]) : t \in DOMAIN p.tables}
  /\ \A t \in DOMAIN p.tables, cell \in DOMAIN p.blocks :
       cell \in CellsOf(p.tables[t]) =>
         /\ IsRectangle(SlotsHeld(p.tables[t], cell))
         /\ \A u \in DOMAIN p.tables \ {t} : cell \notin CellsOf(p.tables[u])
  /\ \A cell \in DOMAIN p.blocks : p.blocks[cell] # <<>>
  /\ DOMAIN p.tables \subseteq Ids(p.top) \cup UNION {Ids(p.blocks[c]) : c \in DOMAIN p.blocks}

-----------------------------------------------------------------------------
(* Edits, as relations between the page before (p) and after (q).          *)

New(p, q) == Idents(q) \ Idents(p)

\* Everything but one table and some cells stays as long as it is there.
KeepsTheRest(p, q, table, cells) ==
  /\ q.top = p.top
  /\ \A t \in DOMAIN q.tables \ {table} : t \in DOMAIN p.tables /\ q.tables[t] = p.tables[t]
  /\ \A c \in DOMAIN q.blocks \ cells : c \in DOMAIN p.blocks /\ q.blocks[c] = p.blocks[c]

\* A new line between "line" and the next: a cell that covers both covers
\* the new line as well, other slots get blank cells of their own.
LineInserted(old, new, line) ==
  /\ line <= Len(old) /\ Len(new) = Len(old) + 1
  /\ \A r \in Rows(old) : new[IF r <= line THEN r ELSE r + 1] = old[r]
  /\ \A k \in Columns(old) :
       IF line \in 1..Len(old) - 1 /\ old[line][k] = old[line + 1][k]
       THEN new[line + 1][k] = old[line][k]
       ELSE /\ new[line + 1][k] \notin CellsOf(old)
            /\ Cardinality(SlotsHeld(new, new[line + 1][k])) = 1

InsertLine(p, q, t) ==
  LET fresh == CellsOf(q.tables[t]) \ CellsOf(p.tables[t])
  IN /\ \E line \in 0..Len(p.tables[t]) + Len(p.tables[t][1]) :
          \/ LineInserted(p.tables[t], q.tables[t], line)
          \/ LineInserted(Transposed(p.tables[t]), Transposed(q.tables[t]), line)
     /\ KeepsTheRest(p, q, t, fresh)
     /\ \A c \in fresh : Blank(q.blocks[c])

LinesDeleted(old, new, from, to) ==
  to <= Len(old) /\ new = SubSeq(old, 1, from - 1) \o SubSeq(old, to + 1, Len(old))

DeleteLines(p, q, t) ==
  /\ \E from \in 1..Len(p.tables[t]) + Len(p.tables[t][1]) :
       \E to \in from..Len(p.tables[t]) + Len(p.tables[t][1]) :
         \/ LinesDeleted(p.tables[t], q.tables[t], from, to)
         \/ LinesDeleted(Transposed(p.tables[t]), Transposed(q.tables[t]), from, to)
  /\ KeepsTheRest(p, q, t, {})

\* Some cells of a matrix, each once, by their first slots.
ReadingOrder(matrix, cells) ==
  LET all == FlattenSeq(matrix)
      firsts == SelectSeq([i \in DOMAIN all |-> i],
                  LAMBDA i : all[i] \in cells /\ \A j \in 1..i - 1 : all[j] # all[i])
  IN [n \in DOMAIN firsts |-> all[firsts[n]]]

\* The cells of a rectangle become the one in its first slot, which takes
\* the blocks of all of them in reading order.
Merge(p, q, t) ==
  /\ Slots(p.tables[t]) = Slots(q.tables[t])
  /\ \E kept \in CellsOf(q.tables[t]) \cap CellsOf(p.tables[t]) :
    LET old == p.tables[t]
        area == SlotsHeld(q.tables[t], kept)
        merged == {At(old, s) : s \in area}
        inOrder == ReadingOrder(old, merged)
    IN /\ Cardinality(merged) > 1
       /\ Head(inOrder) = kept
       /\ \A s \in Slots(old) : At(q.tables[t], s) = IF At(old, s) \in merged THEN kept ELSE At(old, s)
       /\ q.blocks[kept] = FlattenSeq([i \in DOMAIN inOrder |-> p.blocks[inOrder[i]]])
       /\ KeepsTheRest(p, q, t, {kept})

\* Cells fall apart: each old one keeps its first slot and its blocks, the
\* other parts are blank.
Divide(p, q, t) ==
  LET old == p.tables[t]
      new == q.tables[t]
      fresh == CellsOf(new) \ CellsOf(old)
  IN /\ fresh # {}
     /\ Slots(new) = Slots(old)
     /\ \A s, u \in Slots(old) : At(new, s) = At(new, u) => At(old, s) = At(old, u)
     /\ \A c \in CellsOf(old) : At(new, FirstSlot(old, c)) = c
     /\ KeepsTheRest(p, q, t, fresh)
     /\ \A c \in fresh : Blank(q.blocks[c])

\* The cells of a rectangle give way to others.
ReplaceRect(p, q, t) ==
  LET old == p.tables[t]
      new == q.tables[t]
      fresh == CellsOf(new) \ CellsOf(old)
      area == UNION {SlotsHeld(new, c) : c \in fresh}
      inside == UNION {Ids(q.blocks[c]) : c \in fresh}
      nested == DOMAIN q.tables \ DOMAIN p.tables
  IN /\ Slots(new) = Slots(old)
     /\ IsRectangle(area)
     /\ \A s \in Slots(old) : s \notin area => At(new, s) = At(old, s)
     /\ {At(old, s) : s \in area} \cap CellsOf(new) = {}
     /\ inside \subseteq New(p, q)
     /\ q.top = p.top
     /\ \A u \in DOMAIN p.tables \ {t} : u \in DOMAIN q.tables => q.tables[u] = p.tables[u]
     /\ \A c \in DOMAIN p.blocks \cap DOMAIN q.blocks : q.blocks[c] = p.blocks[c]
     /\ nested \subseteq New(p, q)

\* Blocks of some cells of one table, or of the page, come, go or change.
\* What stays keeps its order, and what comes is new.
Rewritten(old, new, fresh) ==
  /\ Ids(new) \subseteq Ids(old) \cup fresh
  /\ SelectSeq([i \in DOMAIN new |-> new[i].id], LAMBDA x : x \in Ids(old))
     = SelectSeq([i \in DOMAIN old |-> old[i].id], LAMBDA x : x \in Ids(new))

Write(p, q) ==
  LET changed == {c \in DOMAIN p.blocks \cap DOMAIN q.blocks : q.blocks[c] # p.blocks[c]}
      fresh == New(p, q)
  IN /\ \A t \in DOMAIN p.tables \cap DOMAIN q.tables : q.tables[t] = p.tables[t]
     /\ \A c \in changed : Rewritten(p.blocks[c], q.blocks[c], fresh)
     /\ Rewritten(p.top, q.top, fresh)
     /\ changed = {} \/ (q.top = p.top /\ \E t \in DOMAIN p.tables : changed \subseteq CellsOf(p.tables[t]))
     /\ (DOMAIN q.tables \cup DOMAIN q.blocks) \ (DOMAIN p.tables \cup DOMAIN p.blocks) \subseteq fresh

ReplaceEverything(p, q) == Idents(p) \cap Idents(q) = {}

Edit(p, q) ==
  \/ \E t \in DOMAIN p.tables \cap DOMAIN q.tables :
       \/ InsertLine(p, q, t) \/ DeleteLines(p, q, t) \/ Merge(p, q, t)
       \/ Divide(p, q, t) \/ ReplaceRect(p, q, t)
  \/ Write(p, q) \/ ReplaceEverything(p, q)

-----------------------------------------------------------------------------
Init ==
  /\ WellFormed(page)
  /\ past = <<>> /\ future = <<>>
  /\ used = Idents(page)

Change ==
  /\ WellFormed(page')
  /\ Edit(page, page')
  /\ New(page, page') \cap used = {}
  /\ past' = Append(past, page) /\ future' = <<>>
  /\ used' = used \cup Idents(page')

Undo ==
  /\ past # <<>>
  /\ page' = Last(past)
  /\ past' = Front(past) /\ future' = Append(future, page)
  /\ UNCHANGED used

Redo ==
  /\ future # <<>>
  /\ page' = Last(future)
  /\ future' = Front(future) /\ past' = Append(past, page)
  /\ UNCHANGED used

Next == Change \/ Undo \/ Redo
Spec == Init /\ [][Next]_view
=============================================================================
