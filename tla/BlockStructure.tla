--------------------------- MODULE BlockStructure ---------------------------
(***************************************************************************)
(* Planners that move block boundaries: joining with what precedes,        *)
(* turning into another kind, list indentation and lifting, and splitting  *)
(* (crates/xiaomu-runtime/src/session/: structure.rs, structure/join.rs,   *)
(* split.rs).                                                              *)
(***************************************************************************)
EXTENDS BlockPlans

RemoveNodes(ids) == [i \in DOMAIN ids |-> NodeStep("RemoveNode", ids[i])]
RestoreNodes(store, ids, parent, index) ==
  [i \in DOMAIN ids |-> RestoreSubtreeStep(parent, index + i - 1, ids[i], Payload(store, ids[i]))]

-----------------------------------------------------------------------------
(* Joining.                                                                *)

\* The list item that goes when its only block does.
EmptiedItem(store, node) ==
  {p \in ParentsOf(store, node) : store[p].kind = "ListItem" /\ Kids(store[p]) = <<node>>}

\* Without atoms the text is appended; otherwise the block moves beside the
\* target and Core joins the two.
JoinIntoTail(w, node, target) ==
  LET source == w.store[node].content
      tail == w.store[target].content
      seam == Len(tail.text)
      dissolve == SetToSeq({NodeStep("RemoveNode", p) : p \in EmptiedItem(w.store, node)})
  IN IF source.atoms = <<>> /\ tail.atoms = <<>>
     THEN Planned(<<ReplaceTextStep(target, seam, seam, LettersOf(source, 0, Len(source.text))),
                    NodeStep("RemoveNode", node)>> \o dissolve,
                  CaretAtText(target, seam))
     ELSE Planned(MoveSteps(w.store, node, ParentOf(w.store, target),
                            Place(w.store, target) + 1)
                    \o <<JoinNodesStep(target, node)>> \o dissolve,
                  After("CaretAtJoinSeam"))

PlanJoinIntoContainer(w, node, container) ==
  LET blocks == InlineBlocks(w.store, container)
  IN IF blocks = <<>> THEN NoChange ELSE JoinIntoTail(w, node, Last(blocks))

PlanJoinWithPrevious(w, node) ==
  LET before(kinds) ==
        {p \in PreviousSibling(w.store, node) : w.store[p].kind \in kinds}
      joinable == {p \in PreviousSibling(w.store, node) : IsInline(w.store, p)}
  IN CASE joinable # {} ->
            Planned(<<JoinNodesStep(CHOOSE p \in joinable : TRUE, node)>>,
                    After("CaretAtJoinSeam"))
       [] joinable = {} /\ before(ListKinds) # {} ->
            PlanJoinIntoContainer(w, node, CHOOSE p \in before(ListKinds) : TRUE)
       [] OTHER -> NoChange

PlanMergeIntoPrevious(w, node, a) ==
  LET previous == PreviousSibling(w.store, a.item)
  IN IF previous = {} THEN NoChange
     ELSE PlanJoinIntoContainer(w, node, CHOOSE p \in previous : TRUE)

-----------------------------------------------------------------------------
(* Lists.                                                                  *)

\* Under the previous item: at the end of the list it ends with, or in a new
\* list of the same kind.
PlanIndent(w, a) ==
  LET previous == CHOOSE p \in PreviousSibling(w.store, a.item) : TRUE
      inner == TrailingList(w.store, previous)
      grow == Transact(w, <<InsertNodeStep(previous, Len(Kids(w.store[previous])),
                                           BlankNode(w.store[a.list].kind))>>)
      into(r, list) == MoveSteps(r.store, a.item, list, Len(Kids(r.store[list])))
  IN CASE PreviousSibling(w.store, a.item) = {} -> NoChange
       [] PreviousSibling(w.store, a.item) # {} /\ inner # {} ->
            Planned(into(w, CHOOSE l \in inner : TRUE), After("PreserveFocus"))
       [] OTHER -> Staged(UNION {Onward(r, into(r, Last(Kids(r.store[previous])))) : r \in grow},
                             After("PreserveFocus"))

\* Behind the item its list is nested in; an emptied list goes.
PlanOutdent(w, a) ==
  LET outer == {l \in ParentsOf(w.store, a.parent) : w.store[l].kind \in ListKinds}
      emptied == IF Len(Kids(w.store[a.list])) = 1 THEN <<a.list>> ELSE <<>>
  IN IF ~Nested(w.store, a) \/ outer = {} THEN NoChange
     ELSE Planned(MoveSteps(w.store, a.item, CHOOSE l \in outer : TRUE,
                            Place(w.store, a.parent) + 1)
                    \o RemoveNodes(emptied),
                  After("PreserveFocus"))

\* The item's blocks go beside the list, its followers into a list of their
\* own behind them.
PlanLift(w, a) ==
  LET blocks == Kids(w.store[a.item])
      items == Kids(w.store[a.list])
      index == Place(w.store, a.item)
      followers == SubSeq(items, index + 2, Len(items))
      at == Place(w.store, a.list) + (IF index > 0 THEN 1 ELSE 0)
      emptied == IF Len(items) = 1 THEN <<a.item, a.list>> ELSE <<a.item>>
      lifted == Transact(w, RemoveNodes(blocks) \o RestoreNodes(w.store, blocks, a.parent, at)
                              \o RemoveNodes(emptied))
      listed == UNION {Onward(r, <<InsertNodeStep(a.parent, at + Len(blocks),
                                                  BlankNode(w.store[a.list].kind))>>) : r \in lifted}
      moved(r) == FlattenSeq([i \in DOMAIN followers |->
                    MoveSteps(r.store, followers[i], Kids(r.store[a.parent])[at + Len(blocks) + 1], i - 1)])
  IN IF blocks = <<>> THEN NoChange
     ELSE Staged(IF followers = <<>> THEN lifted ELSE UNION {Onward(r, moved(r)) : r \in listed},
                    After("PreserveFocus"))

\* A list of the kind and an item are made behind the block, which then
\* moves into the item.
WrapStages(w, node, kind) ==
  LET parent == ParentOf(w.store, node)
      at == Place(w.store, node) + 1
      listed == Transact(w, <<InsertNodeStep(parent, at, BlankNode(kind))>>)
      list(r) == Kids(r.store[parent])[at + 1]
      withItem == UNION {Onward(r, <<InsertNodeStep(list(r), 0, BlankNode("ListItem"))>>) : r \in listed}
  IN UNION {Onward(r, MoveSteps(r.store, node, Kids(r.store[list(r)])[1], 0)) : r \in withItem}

PlanIntoList(w, node, kind) ==
  LET within == ListAncestry(w.store, node)
      list == (CHOOSE a \in within : TRUE).list
  IN CASE within = {} -> Staged(WrapStages(w, node, kind), After("PreserveFocus"))
       [] within # {} /\ w.store[list].kind = kind -> NoChange
       [] OTHER -> Planned(<<SetNodeKindStep(list, kind)>>, After("MapExisting"))

PlanTurnInto(w, node, kind) ==
  LET within == ListAncestry(w.store, node)
  IN CASE kind \in ListKinds -> PlanIntoList(w, node, kind)
       [] kind = "Paragraph" /\ within # {} -> PlanLift(w, CHOOSE a \in within : TRUE)
       [] /\ kind \notin ListKinds /\ (kind = "Paragraph" => within = {})
          /\ w.store[node].kind = kind -> NoChange
       [] OTHER -> Planned(<<SetNodeKindStep(node, kind)>>, After("MapExisting"))

\* Backspace at the start of a block: join, else merge the item into the one
\* before it, else leave the list level.
PlanBackspaceAtStart(w, node) ==
  LET join == PlanJoinWithPrevious(w, node)
      within == ListAncestry(w.store, node)
      a == CHOOSE a \in within : TRUE
  IN CASE join # NoChange \/ within = {} -> join
       [] join = NoChange /\ within # {} /\ Place(w.store, a.item) > 0 -> PlanMergeIntoPrevious(w, node, a)
       [] OTHER -> IF Nested(w.store, a) THEN PlanOutdent(w, a) ELSE PlanLift(w, a)

-----------------------------------------------------------------------------
(* Splitting.                                                              *)

\* A selected range is deleted first.
SplitSteps(store, anchor, focus) ==
  LET c == store[focus.node].content
      start == InOrder(anchor, focus)[1]
      end == InOrder(anchor, focus)[2]
      cut == CASE anchor = focus -> <<>>
               [] c.atoms = <<>> /\ anchor # focus ->
                    <<ReplaceTextStep(start.node, start.offset, end.offset, <<>>)>>
               [] OTHER -> RemoveAtoms(AtomsInsideSpan(c, start, end))
                             \o <<ReplaceInlineTextStep(start, end.offset, <<>>)>>
  IN Append(cut, IF c.atoms = <<>> THEN SplitNodeStep(start.node, start.offset)
                 ELSE SplitInlineNodeStep(start))

\* The tail becomes the first block of an item behind this one.
SplitItemStages(w, anchor, focus, a) ==
  LET index == Place(w.store, a.item) + 1
      split == Transact(w, SplitSteps(w.store, anchor, focus))
      listed == UNION {Onward(r, <<InsertNodeStep(a.list, index, BlankNode("ListItem"))>>) : r \in split}
      tail(r) == Kids(r.store[a.item])[Place(r.store, focus.node) + 2]
  IN UNION {Onward(r, MoveSteps(r.store, tail(r), Kids(r.store[a.list])[index + 1], 0)) : r \in listed}

PlanSplit(w, anchor, focus) ==
  LET within == ListAncestry(w.store, focus.node)
      a == CHOOSE a \in within : TRUE
      blank == anchor = focus /\ w.store[focus.node].content = EmptyInline
  IN CASE within = {} -> Planned(SplitSteps(w.store, anchor, focus),
                                 After("CaretAtSplitTail"))
       [] within # {} /\ blank -> IF Nested(w.store, a) THEN PlanOutdent(w, a) ELSE PlanLift(w, a)
       [] OTHER -> Staged(SplitItemStages(w, anchor, focus, a), After("CaretAtSplitTail"))
=============================================================================
