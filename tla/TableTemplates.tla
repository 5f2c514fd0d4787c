---------------------------- MODULE TableTemplates ----------------------------
(***************************************************************************)
(* Whole trees as values: what the code captures of a table or a document  *)
(* without its identities, and the steps that give such a tree fresh ones  *)
(* (crates/xiaomu-core/src/transaction/forest/mod.rs, apply/table_tree.rs, *)
(* apply/table_rect.rs, apply/document.rs).                                *)
(*                                                                         *)
(* The byte and step budgets of captures are left out.                     *)
(***************************************************************************)
EXTENDS TableSteps

\* The nodes below "top" in the order the code visits them.
PreOrder(store, top) ==
  LET walk[n \in 0..Cardinality(Subtree(store, top))] ==
        IF n = 0 THEN [seen |-> <<>>, pending |-> <<top>>]
        ELSE LET w == walk[n - 1]
             IN [seen |-> Append(w.seen, Head(w.pending)),
                 pending |-> Kids(store, Head(w.pending)) \o Tail(w.pending)]
  IN walk[Cardinality(Subtree(store, top))].seen

\* A template: its nodes in that order, children by position, and the room
\* its tables take.  The first node is the root of the tree.
Capture(store, top) ==
  LET order == PreOrder(store, top)
      tables == Range(order) \cap TablesOf(store)
      isTable == top \in tables
  IN [nodes |-> [i \in DOMAIN order |->
                   LET n == store[order[i]]
                   IN [n EXCEPT !.kids = [k \in DOMAIN @ |-> Position(order, @[k])]]],
      columns |-> IF isTable THEN Grid(store, top).columns ELSE 0,
      own |-> IF isTable THEN UsageOf(store, top) ELSE Usage(0, 0),
      nested |-> Total(store, tables \ {top})]

\* Retained nodes take consecutive ids in template order.
FreshLocals(tree, kept, next) ==
  [i \in kept |-> next + Cardinality({j \in kept : j < i})]

\* The retained nodes under their ids; "ids" also names nodes that exist.
Materialized(tree, kept, ids) ==
  [id \in {ids[i] : i \in kept} |->
     LET n == tree.nodes[CHOOSE i \in kept : ids[i] = id]
     IN [n EXCEPT !.kids = [k \in DOMAIN @ |-> ids[@[k]]]]]

-----------------------------------------------------------------------------
(* A table tree as a fresh child, and in place of a closed rectangle.      *)

InsertTableTree(c, s) ==
  LET kept == DOMAIN s.tree.nodes
      ids == FreshLocals(s.tree, kept, c.next)
      room == Usage(s.tree.own.slots + s.tree.nested.slots, s.tree.own.cells + s.tree.nested.cells)
  IN IF /\ s.parent \in DOMAIN c.store
        /\ AllowsChild(c.store[s.parent].kind, "Table")
        /\ s.index <= Len(Kids(c.store, s.parent))
        /\ s.tree.nodes[1].kind = "Table"
        /\ Within(Total(c.store, TablesOf(c.store)), room)
     THEN {Done(Over(Over(c.store, Materialized(s.tree, kept, ids)),
                     s.parent :> WithKids(c.store, s.parent,
                       InsertAt(Kids(c.store, s.parent), s.index + 1, ids[1]))),
                c.next + Cardinality(kept),
                <<NodeInserted(s.parent, s.index, ids[1])>>, <<RemoveNodeStep(ids[1])>>)}
     ELSE {}

\* The rows of a template that fits a rectangle, or none.
FittingRows(tree, rect) ==
  {rows \in {tree.nodes[1].kids} :
     /\ tree.nodes[1].kind = "Table"
     /\ Len(rows) = rect.bottom - rect.top
     /\ tree.columns = rect.right - rect.left}

\* The room after the exchange: the table with other cells, the tables of the
\* template below its own, and every table that stays.
RectAffordable(c, s, g, removed, removedIds) ==
  Within(Total(c.store, TablesOf(c.store) \ ({s.table} \cup removedIds)),
         Usage(Len(g.rows) * g.columns + s.tree.nested.slots,
               Len(g.cells) - Len(removed) + s.tree.own.cells + s.tree.nested.cells))

\* Each row of the rectangle loses its cells and takes those of the row of
\* the template in their place; the table and rows of the template are
\* dropped and take no id.
ReplaceTableRect(c, s, g) ==
  LET nodes == s.tree.nodes
      rows == nodes[1].kids
      kept == DOMAIN nodes \ ({1} \cup Range(rows))
      ids == FreshLocals(s.tree, kept, c.next)
      new == Materialized(s.tree, kept, ids)
      removed == UniqueCellsIn(g, s.rect)
      removedCells == {removed[i].cell : i \in DOMAIN removed}
      gone(cell) == Subtree(c.store, cell)
      removedIds == UNION {gone(cell) : cell \in removedCells}
      row(i) == g.rows[s.rect.top + i]
      kids(i) == Kids(c.store, row(i))
      start(i) == Len(SelectSeq(kids(i), LAMBDA k : PlacementOf(g, k).column < s.rect.left))
      out(i) == SelectSeq(kids(i), LAMBDA k : k \in removedCells)
      in(i) == [k \in DOMAIN nodes[rows[i]].kids |-> ids[nodes[rows[i]].kids[k]]]
      changed(i) == SubSeq(kids(i), 1, start(i)) \o in(i)
                    \o SubSeq(kids(i), start(i) + Len(out(i)) + 1, Len(kids(i)))
      maps(i) == [k \in DOMAIN out(i) |-> NodeRemoved(row(i), start(i), gone(out(i)[k]))]
                 \o [k \in DOMAIN in(i) |-> NodeInserted(row(i), start(i) + k - 1, in(i)[k])]
      backs(i) == [k \in DOMAIN out(i) |-> NodeInserted(row(i), start(i), out(i)[k])]
                  \o [k \in DOMAIN in(i) |->
                        NodeRemoved(row(i), start(i) + k - 1, Subtree(new, in(i)[k]))]
      touched == {s.table} \cup removedIds \cup {row(i) : i \in DOMAIN rows}
  IN IF /\ IsClosedRect(g, s.rect)
        /\ FittingRows(s.tree, s.rect) # {}
        /\ RectAffordable(c, s, g, removed, removedIds)
     THEN Exchange(c, s.table, Restrict(c.store, touched),
                   new @@ s.table :> c.store[s.table]
                       @@ [id \in {row(i) : i \in DOMAIN rows} |->
                             WithKids(c.store, id, changed(Position(g.rows, id) - s.rect.top))],
                   FlattenSeq([i \in DOMAIN rows |-> maps(i)]),
                   Reverse(FlattenSeq([i \in DOMAIN rows |-> backs(i)])),
                   c.next + Cardinality(kept))
     ELSE {}
-----------------------------------------------------------------------------
(* A whole document.  The root keeps its id; its old children leave from   *)
(* the front and the new ones enter in order.  The inverse demands the     *)
(* very store the replacement left and an allocator at least as far.       *)

ReplacementMaps(root, old, new) ==
  [i \in DOMAIN Kids(old, root) |-> NodeRemoved(root, 0, Subtree(old, Kids(old, root)[i]))]
  \o [i \in DOMAIN Kids(new, root) |-> NodeInserted(root, i - 1, Kids(new, root)[i])]

DocumentRestore(root, expected, replacement, atLeast) ==
  [op |-> "RestoreDocument", root |-> root, expected |-> expected,
   replacement |-> replacement, atLeast |-> atLeast]

ReplaceDocument(c, s) ==
  LET kept == 2..Len(s.tree.nodes)
      ids == FreshLocals(s.tree, kept, c.next) @@ 1 :> s.root
      new == Materialized(s.tree, DOMAIN s.tree.nodes, ids)
      next == c.next + Cardinality(kept)
  IN {Done(new, next, ReplacementMaps(s.root, c.store, new),
           <<DocumentRestore(s.root, new, c.store, next)>>)}

RestoreDocument(c, s) ==
  LET next == Max({c.next} \cup {i + 1 : i \in DOMAIN s.replacement})
  IN IF c.next >= s.atLeast /\ c.store = s.expected
     THEN {Done(s.replacement, next, ReplacementMaps(s.root, c.store, s.replacement),
                <<DocumentRestore(s.root, s.replacement, c.store, next)>>)}
     ELSE {}
=============================================================================
