----------------------------- MODULE Navigation -----------------------------
(***************************************************************************)
(* The arrow keys, Home, End and Select All of the document view           *)
(* (crates/xiaomu-gpui/src/document_view/navigation.rs,                    *)
(* visual_navigation.rs, actions.rs), over the session of BlockSession.    *)
(*                                                                         *)
(* Every block is painted on one row, below the one before it: of soft     *)
(* wraps and columns only that Up and Down may reach any gap of the next   *)
(* block is kept.  Tables, a composition (EditorViews) and the host's      *)
(* command router are left out; without one a selected block consumes      *)
(* every arrow.  A target is a set: empty when there is none.              *)
(***************************************************************************)
EXTENDS AtomDisplay

NavUnits(store) == SelectSeq(Leaves(store, Root), LAMBDA n : store[n].content.shape # "children")
UnitIndex(units, node) == SelectInSeq(units, LAMBDA n : n = node)
TextBlocks(store) == InlineBlocks(store, Root)

\* A step over letters and whole blocks: a boundary of the block, or the near
\* end of the next unit.
InText(node, offset) == [node |-> node, offset |-> offset]
StepHorizontal(store, units, u, offset, forward) ==
  LET len(n) == IF IsInline(store, n) THEN Len(store[n].content.text) ELSE 0
      within == IF forward THEN offset < len(units[u]) ELSE offset > 0
      beside == {v \in {IF forward THEN u + 1 ELSE u - 1} : v \in DOMAIN units}
      entered(n) == IF IsInline(store, n) THEN InText(n, IF forward THEN 0 ELSE len(n)) ELSE AtomicAt(n)
  IN IF within THEN {InText(units[u], IF forward THEN offset + 1 ELSE offset - 1)}
     ELSE {entered(units[v]) : v \in beside}

\* The end of a block's text is behind the atoms that end it.
PointForCanonicalByte(store, node, offset) ==
  LET c == store[node].content
  IN InlinePoint(node, offset, IF offset = Len(c.text) THEN AtomCountAt(c, offset) ELSE 0)
Landed(store, targets) ==
  {IF IsAtomicAt(t) THEN t ELSE PointForCanonicalByte(store, t.node, t.offset) : t \in targets}

\* Mutant: an atom is crossed one unit of its rendering at a time.
StepInDisplayByUnit(d, raw, forward) == IF forward THEN raw + 1 ELSE raw - 1

\* One unit on, over the whole atom that unit is in.
StepInDisplay(d, raw, forward) ==
  LET next == IF forward THEN raw + 1 ELSE raw - 1
      inside == {a \in AtomAtDisplay(d, next) : a.from < next}
  IN CHOOSE o \in {IF forward THEN a.to ELSE a.from : a \in inside}
                    \cup {n \in {next} : inside = {}} : TRUE

AtomHorizontalTarget(store, focus, forward) ==
  LET d == Display(store, focus.node)
      units == NavUnits(store)
      atEdge(raw) == IF forward THEN raw >= d.len ELSE raw = 0
      edge == IF forward THEN Len(store[focus.node].content.text) ELSE 0
      crossed == Landed(store, StepHorizontal(store, units, UnitIndex(units, focus.node), edge, forward))
      stepped(raw) == IF atEdge(raw) THEN crossed
                      ELSE PointForDisplayByte(d, StepInDisplay(d, raw, forward))
  IN UNION {stepped(raw) : raw \in DisplayOffset(d, focus)}

HorizontalTarget(store, focus, forward) ==
  LET units == NavUnits(store)
  IN IF store[focus.node].content.atoms # <<>> THEN AtomHorizontalTarget(store, focus, forward)
     ELSE Landed(store, StepHorizontal(store, units, UnitIndex(units, focus.node), focus.offset, forward))

FromAtomic(store, node, forward) ==
  LET units == NavUnits(store)
  IN Landed(store, StepHorizontal(store, units, UnitIndex(units, node), 0, forward))

\* The edge an arrow collapses a range to; of everything, the first or last
\* unit's.
HorizontalSelectionEdge(store, sel, forward) ==
  LET units == NavUnits(store)
      end == IF forward THEN Last(units) ELSE Head(units)
      order == Ordered(store, sel)
      edge == IF forward THEN order[2] ELSE order[1]
  IN CASE IsCollapsed(sel) -> {}
       [] ~IsCollapsed(sel) /\ sel = AllOf(store) ->
            {IF ~IsInline(store, end) THEN AtomicAt(end)
             ELSE IF forward THEN TextEnd(store, end) ELSE InlinePoint(end, 0, 0) : u \in {u \in {1} : units # <<>>}}
       [] OTHER -> {edge} \ {p \in {edge} : IsGap(p)}

LineEdgeTarget(store, focus, toEnd) ==
  LET c == store[focus.node].content
      d == Display(store, focus.node)
  IN IF c.atoms # <<>> THEN PointForDisplayByte(d, IF toEnd THEN d.len ELSE 0)
     ELSE {PointForCanonicalByte(store, focus.node, IF toEnd THEN Len(c.text) ELSE 0)}

VerticalTargets(store, focus, down) ==
  LET blocks == TextBlocks(store)
      b == UnitIndex(blocks, focus.node) + IF down THEN 1 ELSE -1
      d(n) == Display(store, n)
  IN UNION {UNION {PointForDisplayByte(d(n), o) : o \in 0..d(n).len} :
              n \in {blocks[k] : k \in {b} \cap DOMAIN blocks}}

\* A gap keeps the anchor when extended, if the anchor is one; an atomic
\* block never does.
MovedFocus(sel, p, extend) ==
  IF IsInlineAt(p) /\ extend /\ IsInlineAt(sel.anchor) THEN Selection(sel.anchor, p) ELSE Collapsed(p)

Horizontal == {"Left", "Right"}
NavSteps == Horizontal \cup {"Up", "Down", "LineStart", "LineEnd"}
NavigateFrom(store, focus, step) ==
  CASE step \in Horizontal -> HorizontalTarget(store, focus, step = "Right")
    [] step \in {"Up", "Down"} -> VerticalTargets(store, focus, step = "Down")
    [] step \in {"LineStart", "LineEnd"} -> LineEdgeTarget(store, focus, step = "LineEnd")

NavigateTargets(store, sel, step, extend) ==
  LET edge == IF step \in Horizontal /\ ~extend THEN HorizontalSelectionEdge(store, sel, step = "Right") ELSE {}
      to(ps, ext) == {MovedFocus(sel, p, ext) : p \in ps}
  IN CASE sel.node # {} -> {}
       [] sel.node = {} /\ edge # {} -> to(edge, FALSE)
       [] sel.node = {} /\ edge = {} /\ AtomicNode(sel) # {} ->
            UNION {to(FromAtomic(store, n, step = "Right"), extend) :
                     n \in {n \in AtomicNode(sel) : step \in Horizontal}}
       [] OTHER -> IF IsInlineAt(sel.focus) THEN to(NavigateFrom(store, sel.focus, step), extend) ELSE {}

SelectAllText(store) ==
  LET blocks == TextBlocks(store)
  IN {Selection(InlinePoint(Head(blocks), 0, 0), TextEnd(store, Last(blocks))) : b \in {b \in {1} : blocks # <<>>}}

Navigate ==
  \E step \in NavSteps, extend \in BOOLEAN :
    \E sel \in NavigateTargets(doc.store, selection, step, extend) : Install(step, sel)
SelectAll == \E sel \in SelectAllText(doc.store) : Install("SelectAll", sel)

EditorNext ==
  \/ BlocksNext
  \/ moves < MaxMoves /\ Navigate
  \/ moves < MaxMoves /\ SelectAll
EditorSpec == BlocksInit /\ [][EditorNext]_sessionVars

-----------------------------------------------------------------------------
(* The places the caret can stop at, in document order.                    *)

Gaps(store, node) ==
  LET c == store[node].content
  IN FlattenSeq([i \in 1..(Len(c.text) + 1) |->
       [k \in 1..(AtomCountAt(c, i - 1) + 1) |-> InlinePoint(node, i - 1, k - 1)]])
Stops(store) ==
  LET units == NavUnits(store)
  IN FlattenSeq([u \in DOMAIN units |->
       IF IsInline(store, units[u]) THEN Gaps(store, units[u]) ELSE <<AtomicAt(units[u])>>])

Pressed(store, p, forward) ==
  IF IsAtomicAt(p) THEN FromAtomic(store, p.atomic, forward) ELSE HorizontalTarget(store, p, forward)

\* A block of atoms alone is entered behind them.
EnteredBehind(store, p, q) ==
  /\ IsInlineAt(q) /\ (IsAtomicAt(p) \/ p.node # q.node)
  /\ store[q.node].content.text = <<>>

\* The gaps of a block are shown in order, each at a unit of its own; a hit
\* goes to one nearest to it.
Shows(store, node) ==
  LET d == Display(store, node)
      gaps == Gaps(store, node)
      at == [k \in DOMAIN gaps |-> DisplayOffset(d, gaps[k])]
      far(o, p) == CHOOSE n \in {IF o < q THEN q - o ELSE o - q : q \in DisplayOffset(d, p)} : TRUE
  IN /\ \A k \in DOMAIN gaps : \E o \in at[k] : PointAtDisplay(d, o) = {gaps[k]} /\ o \in 0..d.len
     /\ \A k \in 2..Len(gaps) : \E o \in at[k - 1], q \in at[k] : o < q
     /\ \A o \in 0..d.len : \E p \in DisplayHit(d, o) :
          p \in Range(gaps) /\ \A q \in Range(gaps) : far(o, p) <= far(o, q)

Walks(store) ==
  LET stops == Stops(store)
  IN /\ \A k \in 2..Len(stops) :
          /\ Pressed(store, stops[k], FALSE) = {stops[k - 1]}
          /\ Pressed(store, stops[k - 1], TRUE) =
               {IF EnteredBehind(store, stops[k - 1], stops[k]) THEN TextEnd(store, stops[k].node) ELSE stops[k]}
     /\ Pressed(store, Head(stops), FALSE) = {} /\ Pressed(store, Last(stops), TRUE) = {}
     /\ \A n \in Range(TextBlocks(store)) : Shows(store, n)
=============================================================================
