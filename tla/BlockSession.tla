---------------------------- MODULE BlockSession ----------------------------
(***************************************************************************)
(* A session that edits blocks, text and atoms: the selection, the default *)
(* dispatch of an intent to its planner, the commit with its selection     *)
(* afterwards, and the selection-only moves (crates/xiaomu-runtime/src/    *)
(* session/: selection.rs, selection_node.rs, dispatch.rs, resolve.rs,     *)
(* commit.rs, caret.rs).                                                   *)
(*                                                                         *)
(* Core is TreeTransaction: doc is the session's document, taken stays 0   *)
(* between calls.  History, pending marks, options and host policies are   *)
(* in Session; cell ranges and tables in TableSession.                     *)
(***************************************************************************)
EXTENDS BlockPaste

CONSTANTS Scenes,           \* the documents a behaviour may start from
          Slices,           \* slices from elsewhere
          MaxMoves, Later   \* bounds: selection moves; intents offered after the first edit

VARIABLES selection, clipboard, scene, moves, last

sessionVars == <<selection, clipboard, scene, moves, last, doc, work, taken, changes, inverse, edits, used>>

-----------------------------------------------------------------------------
(* The selection.  A position is an inline gap, a gap between blocks or an *)
(* atomic block.                                                           *)

AtomicAt(node) == [atomic |-> node]
IsInlineAt(p) == "offset" \in DOMAIN p
IsGap(p) == "parent" \in DOMAIN p
IsAtomicAt(p) == "atomic" \in DOMAIN p

Selection(anchor, focus) == [anchor |-> anchor, focus |-> focus, node |-> {}]
Collapsed(p) == Selection(p, p)
AllOf(store) == Selection(NodeGap(Root, 0), NodeGap(Root, Len(Kids(store[Root]))))

IsCollapsed(sel) == sel.anchor = sel.focus
SameBlock(sel) ==
  IsInlineAt(sel.anchor) /\ IsInlineAt(sel.focus) /\ sel.anchor.node = sel.focus.node
AtomicNode(sel) == IF IsCollapsed(sel) /\ IsAtomicAt(sel.focus) THEN {sel.focus.atomic} ELSE {}

\* A whole block, selected by identity.
NodeSelectable == {"Paragraph", "Heading", "Quote", "CodeBlock", "Rule", "Image"} \cup Lists
NodeSelections(store, node) ==
  {[anchor |-> NodeGap(p, Place(store, node)), focus |-> NodeGap(p, Place(store, node) + 1),
    node |-> {node}] :
     p \in {p \in ParentsOf(store, node) : store[node].kind \in NodeSelectable}}

ValidPosition(store, p) ==
  CASE IsInlineAt(p) ->
         \E c \in InlineOf(store, p.node) : ValidGap(c, p.offset, p.index)
    [] IsGap(p) -> \E c \in ContentIn(store, p.parent, "children") : p.index \in 0..Len(c.kids)
    [] IsAtomicAt(p) -> p.atomic \in DOMAIN store /\ store[p.atomic].content.shape = "atomic"
ValidSelection(store, sel) ==
  IF sel.node = {} THEN ValidPosition(store, sel.anchor) /\ ValidPosition(store, sel.focus)
  ELSE \A n \in sel.node : n \in DOMAIN store /\ sel \in NodeSelections(store, n)

\* Every node and every gap between blocks in document order; the gap before
\* a first child shares its parent's slot.
Slots(store) ==
  LET gap(id, i) == {NodeGap(id, i)}
      walk[id \in DOMAIN store] ==
        LET kids == Kids(store[id])
            step(i) == (IF i = 1 THEN <<>> ELSE <<gap(id, i - 1)>>) \o walk[kids[i]]
        IN IF store[id].content.shape # "children" THEN <<{AtomicAt(id)}>>
           ELSE <<{AtomicAt(id)} \cup IF kids = <<>> THEN {} ELSE gap(id, 0)>>
                  \o FlattenSeq(<<>> @@ [i \in DOMAIN kids |-> step(i)]) \o <<gap(id, Len(kids))>>
  IN walk[Root]
SlotOf(slots, p) ==
  SelectInSeq(slots, LAMBDA s : (IF IsInlineAt(p) THEN AtomicAt(p.node) ELSE p) \in s)
Ordered(store, sel) ==
  LET slots == Slots(store)
      a == SlotOf(slots, sel.anchor)
      f == SlotOf(slots, sel.focus)
      backward == f < a \/ (a = f /\ SameBlock(sel) /\ PointBefore(sel.focus, sel.anchor))
  IN IF backward THEN <<sel.focus, sel.anchor>> ELSE <<sel.anchor, sel.focus>>

MapPosition(maps, p, bias) ==
  CASE IsInlineAt(p) -> ChangedInlinePoint(maps, p, bias)
    [] IsGap(p) -> ChangedNodeGap(maps, p, bias)
    [] IsAtomicAt(p) ->
         LET n == ChangedNodeSelection(maps, p.atomic)
         IN IF n = Deleted THEN Deleted ELSE AtomicAt(n)

\* The head stays at an insertion, the tail goes behind it.
MapThrough(maps, store, sel) ==
  LET head == Ordered(store, sel)[1]
      mapped(p) == MapPosition(maps, p, IF p = head THEN "Start" ELSE "End")
      next == Selection(mapped(sel.anchor), mapped(sel.focus))
  IN IF Deleted \in {next.anchor, next.focus} THEN {} ELSE {next}

-----------------------------------------------------------------------------
(* The selection after a commit: none when it cannot be had.               *)

LastMap(maps, kinds) ==
  LET of == SelectSeq(maps, LAMBDA m : m.map \in kinds)
  IN IF of = <<>> THEN {} ELSE {Last(of)}

SelectionAfter(update, r, store, sel) ==
  CASE update.rule = "CaretAtInline" -> {Collapsed(update.point)}
    [] update.rule = "CaretAtGap" -> {Collapsed(update.gap)}
    [] update.rule = "MapExisting" -> MapThrough(r.maps, store, sel)
    [] update.rule = "PreserveFocus" -> {Collapsed(p) : p \in {p \in {sel.focus} : IsInlineAt(p)}}
    [] update.rule = "Exact" -> {sel}
    [] update.rule = "CaretAtSplitTail" ->
         {Collapsed(InlinePoint(m.inserted, 0, 0)) : m \in LastMap(r.maps, {"NodeSplit", "InlineNodeSplit"})}
    [] update.rule = "CaretAtJoinSeam" ->
         {Collapsed(InlinePoint(m.first, m.firstLen, m.seam)) :
            m \in LastMap(r.maps, {"NodeJoined", "InlineNodeJoined"})}
    [] update.rule = "CaretAtLastInserted" ->
         {Collapsed(InlinePoint(m.inserted, update.offset, 0)) : m \in LastMap(r.maps, {"NodeInserted"})}

-----------------------------------------------------------------------------
(* Dispatch.                                                               *)

MarkIntents == {"ToggleMark", "SetMark", "RemoveMark"}
Deletions == {"Backspace", "Delete"}

\* Deleting a selection that is no range of one block.
PlanSpanDeletion(w, sel) ==
  LET order == Ordered(w.store, sel)
  IN IF IsInlineAt(sel.anchor) /\ IsInlineAt(sel.focus)
     THEN PlanCrossDeletion(w, order[1], order[2]) ELSE Refused

PlanRangeMarks(w, sel, i) ==
  LET order == Ordered(w.store, sel)
  IN CASE sel = AllOf(w.store) -> PlanMarks(w, WholeSpans(w.store, Root), i)
       [] sel # AllOf(w.store) /\ IsInlineAt(sel.anchor) /\ IsInlineAt(sel.focus) ->
            PlanMarks(w, SelectedSpans(w.store, order[1], order[2]), i)
       [] OTHER -> Refused

\* Intents inside one block.
PlanInBlock(w, anchor, focus, i) ==
  LET node == focus.node
      within == ListAncestry(w.store, node)
      atStart == anchor = focus /\ focus.offset = 0 /\ focus.index = 0
  IN CASE i.intent = "InsertText" -> PlanTextInput(w, anchor, focus, i.text, i.pending)
       [] i.intent = "PasteText" -> PlanPasteText(w, anchor, focus, i.text, i.pending)
       [] i.intent = "CommitComposition" -> PlanComposition(w, focus, i.start, i.end, i.text, i.pending)
       [] i.intent = "Backspace" ->
            IF atStart THEN PlanBackspaceAtStart(w, node) ELSE PlanBackspace(w, anchor, focus)
       [] i.intent = "Delete" -> PlanDelete(w, anchor, focus)
       [] i.intent = "SplitBlock" -> PlanSplit(w, anchor, focus)
       [] i.intent = "JoinWithPrevious" -> PlanJoinWithPrevious(w, node)
       [] i.intent = "TurnInto" -> PlanTurnInto(w, node, i.kind)
       [] i.intent = "InsertImage" -> PlanInsertImage(w, InOrder(anchor, focus)[1])
       [] i.intent = "IndentListItem" ->
            IF within = {} THEN NoChange ELSE PlanIndent(w, CHOOSE a \in within : TRUE)
       [] i.intent = "OutdentListItem" ->
            IF within = {} THEN NoChange ELSE PlanOutdent(w, CHOOSE a \in within : TRUE)

\* The planner of an intent, by the selection first.
PlanOf(w, sel, i) ==
  CASE i.intent = "SetTaskChecked" -> PlanTaskChecked(w, i.item, i.checked)
    [] i.intent # "SetTaskChecked" /\ sel.node # {} -> Refused
    [] i.intent = "PasteSlice" /\ sel.node = {} ->
         PlanPasteSlice(w, Ordered(w.store, sel)[1], Ordered(w.store, sel)[2], i.slice)
    [] i.intent \in Deletions /\ sel.node = {} /\ ~SameBlock(sel) ->
         IF AtomicNode(sel) # {} THEN PlanAtomicRemoval(w, CHOOSE n \in AtomicNode(sel) : TRUE)
         ELSE PlanSpanDeletion(w, sel)
    [] i.intent \in MarkIntents /\ sel.node = {} -> PlanRangeMarks(w, sel, i)
    [] OTHER -> IF SameBlock(sel) THEN PlanInBlock(w, sel.anchor, sel.focus, i) ELSE Refused

\* The intents offered; a mark needs a range, a pending mark a caret.
Plainly == {"Backspace", "Delete", "SplitBlock", "JoinWithPrevious", "IndentListItem",
            "OutdentListItem", "InsertImage"}
PasteIntents(slices) == {[intent |-> "PasteSlice", slice |-> s] : s \in slices}
Intents(store, sel) ==
  {[intent |-> k] : k \in Plainly}
    \cup {[intent |-> "TurnInto", kind |-> k] : k \in ChangedKinds}
    \cup {[intent |-> k, text |-> t, pending |-> p] :
            k \in {"InsertText", "PasteText"}, t \in Texts,
            p \in {{}} \cup {{{m}} : m \in {m \in Marks : IsCollapsed(sel)}}}
    \cup {[intent |-> k, mark |-> m] :
            k \in {k \in MarkIntents : ~IsCollapsed(sel) \/ sel = AllOf(store)}, m \in Marks}
    \cup {[intent |-> "SetTaskChecked", item |-> n, checked |-> v] :
            n \in {n \in DOMAIN store : store[n].kind = "TaskItem"}, v \in AttrValues}
    \cup PasteIntents(Slices)
    \cup UNION {{[intent |-> "CommitComposition", start |-> r[1], end |-> r[2], text |-> t, pending |-> {}] :
                   r \in Ranges(store, n), t \in Texts} :
                 n \in {p.node : p \in {p \in {sel.focus} : IsInlineAt(p)}}}

-----------------------------------------------------------------------------
(* The machine.                                                            *)

\* What happened last: the intent and how it ended.
Outcome(i, outcome) == [intent |-> i, outcome |-> outcome]
Quiet(i, outcome) ==
  /\ last' = Outcome(i, outcome)
  /\ edits' = edits + 1
  /\ UNCHANGED <<selection, clipboard, scene, moves, doc, work, taken, changes, inverse, used>>

\* Core applied the plan, the selection has an image and the inverse applies
\* to the result: only then is anything published.  The revision is here the
\* number of publications; Core gives every stage one of its own (Session,
\* RevisionOf), and nothing in this module reads it.
Publish(i, r, sel) ==
  /\ doc' = [store |-> r.store, next |-> r.next, revision |-> doc.revision + 1]
  /\ work' = [store |-> r.store, next |-> r.next]
  /\ changes' = [from |-> doc.store, maps |-> r.maps]
  /\ inverse' = r.inverse
  /\ used' = used \cup DOMAIN r.store
  /\ selection' = sel
  /\ last' = Outcome(i, "changed")
  /\ edits' = edits + 1
  /\ UNCHANGED <<clipboard, scene, moves, taken>>

\* A plan is one transaction, or stages that have each been applied.
CommitPlan(i, plan) ==
  LET done == IF plan.plan = "stages" THEN plan.done ELSE Transact(work, plan.steps)
      after(r) == {sel \in SelectionAfter(plan.update, r, doc.store, selection) :
                     ValidSelection(r.store, sel)}
  IN CASE plan = NoChange -> Quiet(i, "none")
       [] plan = Refused -> Quiet(i, "refused")
       [] plan \notin {NoChange, Refused} /\ done = {} -> Quiet(i, "core")
       [] OTHER ->
            \E r \in done :
              CASE after(r) = {} -> Quiet(i, "selection")
                [] after(r) # {} /\ Transact(r, r.inverse) = {} -> Quiet(i, "core")
                [] OTHER -> \E sel \in after(r) : Publish(i, r, sel)

\* What was copied is pasted next.
Dispatch ==
  /\ edits < MaxEdits
  /\ \E i \in (IF clipboard = {} THEN Intents(doc.store, selection) ELSE PasteIntents(clipboard)) :
       /\ edits > 0 => i.intent \in Later
       /\ CommitPlan(i, PlanOf(work, selection, i))

\* install_selection: publishing the same selection changes nothing.
Install(i, sel) ==
  /\ sel # selection
  /\ selection' = sel
  /\ moves' = moves + 1
  /\ clipboard = {}
  /\ last' = Outcome([intent |-> i], "moved")
  /\ UNCHANGED <<clipboard, scene, doc, work, taken, changes, inverse, edits, used>>

SetInlineSelection ==
  \E a, f \in InlineGaps(doc.store) : Install("SetInlineSelection", Selection(a, f))
SetDocumentSelection == Install("SetDocumentSelection", AllOf(doc.store))
SetAtomicSelection ==
  \E n \in DOMAIN doc.store :
    doc.store[n].content.shape = "atomic" /\ Install("SetAtomicSelection", Collapsed(AtomicAt(n)))
SetNodeSelection ==
  \E n \in DOMAIN doc.store : \E sel \in NodeSelections(doc.store, n) :
    Install("SetNodeSelection", sel)

Extended(extend, p) == IF extend THEN Selection(selection.anchor, p) ELSE Collapsed(p)
MoveTarget(move, c, p) ==
  CASE move = "Backward" -> UnitBefore(c, p)
    [] move = "Forward" -> UnitAfter(c, p)
    [] move = "ToStart" -> {InlinePoint(p.node, 0, 0)}
    [] move = "ToEnd" -> {InlinePoint(p.node, EndOf(c).offset, EndOf(c).index)}
MoveCaret ==
  /\ IsInlineAt(selection.focus)
  /\ \E move \in {"Backward", "Forward", "ToStart", "ToEnd"}, extend \in BOOLEAN :
       \E p \in MoveTarget(move, doc.store[selection.focus.node].content, selection.focus) :
         Install(move, Extended(extend, p))
PlaceCaret ==
  /\ IsInlineAt(selection.focus)
  /\ \E o \in Offsets(doc.store, selection.focus.node), extend \in BOOLEAN :
       Install("PlaceCaret", Extended(extend, InlinePoint(selection.focus.node, o, 0)))

\* slice_selection: a block by identity and everything are kept whole, an
\* atomic block and a range are not; a caret in text has nothing to copy.
SliceSelection(store, sel) ==
  LET order == Ordered(store, sel)
      nodes == sel.node \cup AtomicNode(sel)
  IN CASE nodes # {} -> {WholeSlice(store, SetToSeq(nodes), sel.node # {})}
       [] nodes = {} /\ sel = AllOf(store) -> SliceOfAll(store)
       [] OTHER -> IF \E p \in {sel.anchor, sel.focus} : IsGap(p) THEN {}
                   ELSE IF SameBlock(sel) THEN SliceWithin(store, order[1], order[2])
                   ELSE SliceAcross(store, order[1], order[2])

Copy ==
  /\ clipboard = {} /\ edits = 0
  /\ clipboard' = SliceSelection(doc.store, selection)
  /\ clipboard' # {}
  /\ last' = Outcome([intent |-> "Copy"], "copied")
  /\ UNCHANGED <<selection, scene, moves, doc, work, taken, changes, inverse, edits, used>>

FirstCaret(store) == Collapsed(InlinePoint(Head(InlineBlocks(store, Root)), 0, 0))
BlocksInit ==
  /\ scene \in DOMAIN Scenes
  /\ LET store == Scenes[scene] IN
       /\ doc = [store |-> store, next |-> Cardinality(DOMAIN store), revision |-> 0]
       /\ work = [store |-> store, next |-> Cardinality(DOMAIN store)]
       /\ changes = [from |-> store, maps |-> <<>>]
       /\ used = DOMAIN store
       /\ selection = FirstCaret(store)
  /\ taken = 0 /\ inverse = <<>> /\ edits = 0 /\ moves = 0 /\ clipboard = {}
  /\ last = Outcome([intent |-> "Open"], "none")

BlocksNext ==
  \/ Dispatch
  \/ Copy
  \/ moves < MaxMoves /\ SetInlineSelection
  \/ moves < MaxMoves /\ SetDocumentSelection
  \/ moves < MaxMoves /\ SetAtomicSelection
  \/ moves < MaxMoves /\ SetNodeSelection
  \/ moves < MaxMoves /\ MoveCaret
  \/ moves < MaxMoves /\ PlaceCaret

BlocksSpec == BlocksInit /\ [][BlocksNext]_sessionVars

-----------------------------------------------------------------------------
(* What an edit does to the text, told without the tree: the letters and   *)
(* atoms of all blocks in document order, and the caret as a number of     *)
(* them before it.                                                         *)

Token(what, marks, atom) == [what |-> what, marks |-> marks, atom |-> atom]
BlockTokens(store, c) ==
  FlattenSeq([i \in 1..(Len(c.text) + 1) |->
    LET seam == AtomsAt(c, i - 1)
    IN [k \in DOMAIN seam |->
          Token(store[seam[k].atom].kind, store[seam[k].atom].content.marks, {seam[k].atom})]
         \o (IF i > Len(c.text) THEN <<>> ELSE <<Token(c.text[i].letter, c.text[i].marks, {})>>)])
TokensUnder(store, top) ==
  LET blocks == InlineBlocks(store, top)
  IN FlattenSeq([i \in DOMAIN blocks |-> BlockTokens(store, store[blocks[i]].content)])
Tokens(store) == TokensUnder(store, Root)
TokensOfRoots(store, roots) == FlattenSeq([i \in DOMAIN roots |-> TokensUnder(store, roots[i])])
SliceTokens(slice) == TokensOfRoots(slice.nodes, slice.roots)
Marked(tokens) == [i \in DOMAIN tokens |-> <<tokens[i].what, tokens[i].marks>>]
Whats(tokens) == [i \in DOMAIN tokens |-> tokens[i].what]

SizeOf(c) == Len(c.text) + Len(c.atoms)
Where(store, p) ==
  LET blocks == InlineBlocks(store, Root)
      before == {b \in DOMAIN blocks : b < SelectInSeq(blocks, LAMBDA n : n = p.node)}
  IN Cardinality(UNION {{b} \X (1..SizeOf(store[blocks[b]].content)) : b \in before})
       + p.offset + AtomsBefore(store[p.node].content, p.offset, p.index)
\* Where the text of a subtree that holds some ends.
StartOf(store, top) == Where(store, InlinePoint(Head(InlineBlocks(store, top)), 0, 0))
StopOf(store, top) == Where(store, TextEnd(store, Last(InlineBlocks(store, top))))

\* What is expected: tokens, new text, tokens; the caret behind the new text.
Around(tokens, from, to, text) ==
  [before |-> SubSeq(tokens, 1, from), text |-> text,
   behind |-> SubSeq(tokens, to + 1, Len(tokens))]
\* The tokens of a moved stretch go behind those up to stop, the caret with it.
Rotated(tokens, from, to, stop, caret) ==
  Around(SubSeq(tokens, 1, from) \o SubSeq(tokens, to + 1, stop) \o SubSeq(tokens, from + 1, to)
           \o SubSeq(tokens, stop + 1, Len(tokens)),
         caret + stop - to, caret + stop - to, <<>>)

\* An outdented item goes behind the rest of the item it was nested in.
ExpectedOutdent(store, tokens, a, caret) ==
  Rotated(tokens, StartOf(store, a.item), StopOf(store, a.item), StopOf(store, a.parent), caret)

\* A list item's split tail goes behind the rest of the item.
ExpectedSplit(store, tokens, a, order) ==
  LET from == Where(store, order[1])
      cut == Where(store, order[2]) - from
      left == SubSeq(tokens, 1, from) \o SubSeq(tokens, from + cut + 1, Len(tokens))
  IN Rotated(left, from, Where(store, TextEnd(store, order[1].node)) - cut,
             StopOf(store, a.item) - cut, from)

ExpectedEdit(store, sel, i) ==
  LET tokens == Tokens(store)
      order == Ordered(store, sel)
      from == Where(store, order[1])
      to == Where(store, order[2])
      within == ListAncestry(store, sel.focus.node)
      a == CHOOSE a \in within : TRUE
      collapsed == IsCollapsed(sel)
      atStart == collapsed /\ sel.focus.offset = 0 /\ sel.focus.index = 0
      outdented ==
        /\ within # {} /\ Nested(store, a)
        /\ \/ i.intent = "OutdentListItem"
           \/ i.intent = "SplitBlock" /\ collapsed /\ store[sel.focus.node].content = EmptyInline
           \/ /\ i.intent = "Backspace" /\ atStart
              /\ Place(store, sel.focus.node) = 0 /\ Place(store, a.item) = 0
  IN CASE outdented -> ExpectedOutdent(store, tokens, a, Where(store, sel.focus))
       [] i.intent = "SplitBlock" /\ within # {} /\ store[sel.focus.node].content # EmptyInline ->
            ExpectedSplit(store, tokens, a, order)
       [] i.intent \in {"InsertText", "PasteText"} -> Around(tokens, from, to, i.text)
       [] i.intent = "PasteSlice" -> Around(tokens, from, to, Whats(SliceTokens(i.slice)))
       [] i.intent = "CommitComposition" ->
            LET at == Where(store, CompositionStart(store[sel.focus.node].content, sel.focus, i.start, i.end))
                end == Where(store, InlinePoint(sel.focus.node, i.end, 0))
            IN Around(tokens, at, IF i.start = i.end THEN at ELSE end, i.text)
       [] i.intent \in Deletions /\ collapsed /\ ~atStart ->
            LET unit == IF i.intent = "Backspace" THEN from - 1 ELSE from
            IN Around(tokens, unit, unit + 1, <<>>)
       [] i.intent \in Deletions /\ ~collapsed -> Around(tokens, from, to, <<>>)
       [] i.intent = "Delete" /\ atStart -> Around(tokens, from, from + 1, <<>>)
       [] i.intent = "SplitBlock" /\ within = {} -> Around(tokens, from, to, <<>>)
       [] OTHER -> LET at == IF i.intent = "JoinWithPrevious" THEN InlinePoint(sel.focus.node, 0, 0) ELSE sel.focus
                       k == Where(store, at)
                   IN Around(tokens, k, k, <<>>)

\* Marks change what carries them, in the range or everywhere.
ExpectedMarks(store, sel, i) ==
  LET tokens == Tokens(store)
      order == Ordered(store, sel)
      range == IF sel = AllOf(store) THEN DOMAIN tokens
               ELSE (Where(store, order[1]) + 1)..Where(store, order[2])
      kind == i.mark.kind
      change == MarkChange(i, \A k \in range : tokens[k].marks # WithoutKind(tokens[k].marks, kind))
  IN [k \in DOMAIN tokens |->
        IF k \in range THEN [tokens[k] EXCEPT !.marks = WithoutKind(@, kind) \cup change] ELSE tokens[k]]

\* Joining across lists without atoms, the letters take the marks they meet.
Remarked(store, sel, i) ==
  /\ SameBlock(sel)
  /\ \/ i.intent = "JoinWithPrevious"
     \/ i.intent = "Backspace" /\ IsCollapsed(sel) /\ sel.focus.offset = 0 /\ sel.focus.index = 0
  /\ \A p \in PreviousSibling(store, sel.focus.node) : ~IsInline(store, p)

TextOf(e, tokens) ==
  LET n == Len(e.before)
      m == n + Len(e.text)
  IN /\ Len(tokens) = m + Len(e.behind)
     /\ SubSeq(tokens, 1, n) = e.before
     /\ Whats(SubSeq(tokens, n + 1, m)) = e.text
\* Whole blocks beside the selection.
Beside(sel, i) ==
  \/ ~IsInlineAt(sel.focus)
  \/ i.intent = "PasteSlice" /\ ContainsAtomic(i.slice)
TextSpliced(store, sel, i, after) ==
  CASE i.intent \in MarkIntents -> Tokens(after) = ExpectedMarks(store, sel, i)
    [] i.intent \notin MarkIntents /\ Beside(sel, i) -> Tokens(after) = Tokens(store)
    [] OTHER ->
         LET e == ExpectedEdit(store, sel, i)
             tokens == Tokens(after)
             behind == SubSeq(tokens, Len(tokens) - Len(e.behind) + 1, Len(tokens))
         IN /\ TextOf(e, tokens)
            /\ IF Remarked(store, sel, i) THEN Whats(behind) = Whats(e.behind) ELSE behind = e.behind

\* A subtree without its identities.
Outline(store, top) ==
  LET of[id \in DOMAIN store] ==
        LET c == store[id].content
            parts == CASE c.shape = "inline" -> Marked(BlockTokens(store, c))
                       [] c.shape = "children" -> [k \in DOMAIN c.kids |-> of[c.kids[k]]]
                       [] OTHER -> <<>>
        IN <<store[id].kind, store[id].attrs, parts>>
  IN of[top]

\* What is pasted keeps its marks, and its containers are built again.
PastedWhole(store, sel, slice, after) ==
  LET from == Where(store, Ordered(store, sel)[1])
      text == SliceTokens(slice)
      shapes == {Outline(after, n) : n \in DOMAIN after \ DOMAIN store}
  IN /\ Marked(SubSeq(Tokens(after), from + 1, from + Len(text))) = Marked(text)
     /\ \A r \in Range(slice.roots) :
          slice.nodes[r].content.shape # "inline" => Outline(slice.nodes, r) \in shapes

\* A copy holds the tokens selected.
Copied(store, sel, slice) ==
  LET order == Ordered(store, sel)
      whole == sel.node # {} \/ sel = AllOf(store) \/ ~IsInlineAt(sel.focus)
  IN SliceTokens(slice) =
       IF whole THEN TokensOfRoots(store, slice.roots)
       ELSE SubSeq(Tokens(store), Where(store, order[1]) + 1, Where(store, order[2]))

Changed == last'.outcome = "changed"

\* What Core refuses: a composed text over an atom, several blocks pasted
\* into one with atoms.
Refusable(store, sel, i) ==
  \/ i.intent = "CommitComposition"
  \/ /\ i.intent = "PasteSlice" /\ Len(i.slice.roots) > 1
     /\ \A r \in Range(i.slice.roots) : IsInline(i.slice.nodes, r)
     /\ \E p \in {sel.anchor, sel.focus} : store[p.node].content.atoms # <<>>

\* No plan is one Core refuses, except a composed text over an atom and a
\* paste of several blocks before one; a copy holds what is selected; an edit
\* replaces the tokens it selects and moves none but the tail of a split
\* item and an outdented item; what is pasted keeps its marks and containers;
\* and its inverse gives the old store back: whatever of blocks, atoms and
\* lists lies in between (structure.rs, split.rs, cross_block.rs,
\* cross_block_atom.rs, atom_edit.rs, paste.rs, paste_hierarchy.rs,
\* projection.rs, commit.rs).
EditsAreExact ==
  [][/\ last'.outcome = "core" => Refusable(doc.store, selection, last'.intent)
     /\ last'.outcome = "copied" => \A s \in clipboard' : Copied(doc.store, selection, s)
     /\ Changed => /\ TextSpliced(doc.store, selection, last'.intent, doc'.store)
                   /\ last'.intent.intent = "PasteSlice" =>
                        PastedWhole(doc.store, selection, last'.intent.slice, doc'.store)
                   /\ \A r \in RunSteps(work', inverse') : r.store = doc.store]_sessionVars

\* A slice of more than a part of one block; the tokens of it behind its last
\* letter, which the caret is left before.
Spread(slice) ==
  Len(slice.roots) > 1 \/ slice.nodes[Head(slice.roots)].content.shape = "children"
Trailing(store, sel, slice) ==
  LET c == slice.nodes[Last(SliceBlocks(slice))].content
  IN AtomCountAt(c, Len(c.text))
       + (IF c.text = <<>> /\ ~Spread(slice) THEN Ordered(store, sel)[1].index ELSE 0)

\* The block the caret is in after the edit: its head's, the one that took
\* its head's text, or the new one of a split.
CaretBlock(store, sel, i, after, node) ==
  LET head == Ordered(store, sel)[1].node
      blocks == InlineBlocks(store, Root)
      blank == IsCollapsed(sel) /\ store[head].content = EmptyInline /\ ListAncestry(store, head) # {}
  IN IF \/ i.intent = "SplitBlock" /\ ~blank
        \/ i.intent = "PasteSlice" /\ Spread(i.slice) THEN node \notin DOMAIN store
     ELSE IF head \in DOMAIN after THEN node = head
     ELSE node = blocks[SelectInSeq(blocks, LAMBDA b : b = head) - 1]

\* A selection always has an image.  Typing, deleting and pasting leave a
\* caret behind the new text, in the block of the head, pasted atoms that end
\* it excepted; a split and a paste of blocks, in the new block; joining and
\* list edits leave it between the tokens it was between; formatting leaves
\* the selection as it was (resolve.rs, intent.rs SelectionUpdate).
Formats(i) ==
  \/ i.intent \in MarkIntents \cup {"InsertImage", "SetTaskChecked"}
  \/ i.intent = "PasteSlice" /\ ContainsAtomic(i.slice)
CaretBehind(store, sel, i, after, p) ==
  LET e == ExpectedEdit(store, sel, i)
      short == IF i.intent = "PasteSlice" THEN Trailing(store, sel, i.slice) ELSE 0
  IN /\ Where(after, p) = Len(e.before) + Len(e.text) - short
     /\ CaretBlock(store, sel, i, after, p.node)
CaretKeepsItsPlace ==
  [][/\ last'.outcome # "selection"
     /\ Changed => \A store \in {doc.store}, sel \in {selection}, i \in {last'.intent},
                      after \in {doc'.store}, now \in {selection'} :
          CASE Formats(i) -> now = sel
            [] ~Formats(i) /\ ~IsInlineAt(sel.focus) -> IsGap(now.focus) /\ IsCollapsed(now)
            [] OTHER -> /\ IsInlineAt(now.focus)
                        /\ CaretBehind(store, sel, i, after, now.focus)
                        /\ i.intent # "TurnInto" => IsCollapsed(now)]_sessionVars
=============================================================================
