---------------------------- MODULE ReadingReveal ----------------------------
(***************************************************************************)
(* Passive reading of a view (xiaomu-gpui/src/document_view/reading*.rs):  *)
(* highlights, and the reveal of a range without moving focus or selection. *)
(* A frame plans the scrolls of a reveal, a deferred callback makes them,  *)
(* and the next frame confirms them.  Meanwhile the user scrolls, the      *)
(* window is resized, the host edits, and carets ask for the same viewport *)
(* (block_view/scroll.rs, block_view/passive.rs).                          *)
(*                                                                         *)
(* doc.blocks maps each block to [top, left, len, within], one letter one  *)
(* unit wide on one row; doc.tables each table to [left, width, room,      *)
(* within, fits]: where it begins in what contains it, the width of its    *)
(* content and of the cell around it, and whether it can be measured.      *)
(* doc.high counts the rows.  session.sel.at is the block of the caret,    *)
(* view.owner whether the host lets tables be shown.                       *)
(***************************************************************************)
EXTENDS EditorHost, Integers

CONSTANTS Sizes,           \* [wide, high] a window can have
          HighlightLists,  \* lists of ranges a host asks to highlight
          Ranges,          \* ranges a host asks to reveal
          MaxReveals,      \* bound: reveals accepted
          MaxChanges       \* bound: changes that are not steps of a reveal

VARIABLES
  reading,  \* ReadingState: [snapshot, highlights, pending, status, scheduled]
  plan,     \* the deferred callback, or NoPlan
  offset,   \* the scroll handles: "doc" vertically, tables horizontally
  size,     \* of the window
  caret,    \* [built, wants, queued, focused, composes]: children, caret scrolls
  frame,    \* what the last frame painted and measured
  dirty,    \* the view was notified since
  asked,    \* reveals accepted
  steady,   \* the last range asked for, while nothing else moved the view
  changes

readingVars == <<reading, plan, offset, size, caret, frame, dirty, asked, steady, changes>>
vars == <<hostVars, readingVars>>

NoPlan == <<>>
NoPending == <<>>
NoSnapshot == <<>>
NoScroll == <<>>
NoFrame == <<>>
NoRange == <<>>
Lesser(a, b) == IF a <= b THEN a ELSE b
Greater(a, b) == IF a <= b THEN b ELSE a
Doc == session.doc

\* ReadingViewSnapshot: of this view, the session instance and its revision.
Captured(s) == <<s.identity, s.rev>>
MatchesRevision(snapshot, s) == snapshot # NoSnapshot /\ snapshot[2] = s.rev  \* mutant: the session may be another
Matches(snapshot, s) == snapshot = Captured(s)

\* ReadingRange::valid.  Ranges are [node, from, to].
ValidRange(doc, r) ==
  r.node \in DOMAIN doc.blocks /\ r.from <= r.to /\ r.to <= doc.blocks[r.node].len

-----------------------------------------------------------------------------
(* Geometry of a scene [doc, size, offset], what a frame has to paint.     *)

\* The tables around a block, from the innermost outward.
TablesAround(doc, b) ==
  LET t == doc.blocks[b].within
  IN IF t = None THEN <<>>
     ELSE IF doc.tables[t].within = None THEN <<t>> ELSE <<t, doc.tables[t].within>>
HiddenForBuild(doc, b) == TablesAround(doc, b) # <<>> /\ ~view.owner
Hidden(doc, b) ==
  \/ HiddenForBuild(doc, b)
  \/ \E t \in ToSet(TablesAround(doc, b)) : ~doc.tables[t].fits
Buildable(doc) == {b \in DOMAIN doc.blocks : ~HiddenForBuild(doc, b)}

\* Width of a table's viewport, and how far a handle scrolls.
Seen(s, t) ==
  LET table == s.doc.tables[t]
  IN Lesser(table.width, IF table.within = None THEN s.size.wide ELSE table.room)
Furthest(s, h) ==
  IF h = "doc" THEN Greater(0, s.doc.high - s.size.high) ELSE s.doc.tables[h].width - Seen(s, h)

\* Where the content of a table lies on screen, and its viewport.
Origin(s, t) ==
  LET outer == s.doc.tables[t].within
  IN s.doc.tables[t].left
       + IF outer = None THEN 0 ELSE s.doc.tables[outer].left + s.offset[outer]
Viewport(s, t) == [start |-> Origin(s, t), end |-> Origin(s, t) + Seen(s, t)]

\* reading_bounds: the first visual row of a range, or a caret one unit wide.
TargetBounds(s, r) ==
  LET b == s.doc.blocks[r.node]
      x == b.left + IF b.within = None THEN 0 ELSE Origin(s, b.within) + s.offset[b.within]
  IN [left |-> x + r.from, right |-> x + Greater(r.to, r.from + 1),
      top |-> b.top + s.offset["doc"], bottom |-> b.top + s.offset["doc"] + 1]

\* reading_visible_bounds: some of the target is inside every enclosing clip.
Clips(s, node) ==
  {Viewport(s, t) : t \in ToSet(TablesAround(s.doc, node))} \union {[start |-> 0, end |-> s.size.wide]}
Visible(s, node, target) ==
  /\ ~Hidden(s.doc, node)
  /\ target.top < s.size.high /\ target.bottom > 0 /\ target.top < target.bottom
  /\ LET starts == {target.left} \union {c.start : c \in Clips(s, node)}
         ends == {target.right} \union {c.end : c \in Clips(s, node)}
     IN \A from \in starts, to \in ends : from < to

\* axis_offset: the least motion that shows a span, or its leading part.
AxisOffset(start, end, from, to, now, furthest) ==
  LET last == Lesser(end, start + Greater(0, to - from))
      moved == now + (IF start < from THEN from - start
                      ELSE IF last > to THEN to - last ELSE 0)
  IN Lesser(0, Greater(-furthest, moved))

\* plan_scroll over the tables from the innermost outward, then the document:
\* each viewport moves the target for those around it.
Planned(s, r) ==
  LET target == TargetBounds(s, r)
      Over(t, acc) ==
        LET v == Viewport(s, t)
            to == AxisOffset(acc.left, acc.right, v.start, v.end, s.offset[t], Furthest(s, t))
            left == acc.left + to - s.offset[t]
        IN [offset |-> [acc.offset EXCEPT ![t] = to], left |-> left,
            right |-> left + Lesser(acc.right - acc.left, v.end - v.start)]
      across == FoldLeft(LAMBDA acc, t : Over(t, acc),
                         [offset |-> s.offset, left |-> target.left, right |-> target.right],
                         TablesAround(s.doc, r.node))
      y == AxisOffset(target.top, target.bottom, 0, s.size.high, s.offset["doc"], Furthest(s, "doc"))
      top == target.top + y - s.offset["doc"]
  IN [offset |-> [across.offset EXCEPT !["doc"] = y],
      target |-> [left |-> across.left, right |-> across.right,
                  top |-> top, bottom |-> top + Lesser(1, s.size.high)]]

-----------------------------------------------------------------------------
(* The calls of a host.                                                    *)

\* ReadingState::cancel.
Cancelled(rd) ==
  IF rd.pending = NoPending THEN rd ELSE [rd EXCEPT !.pending = NoPending, !.status = "Stale"]
\* cancel_caret_scroll and invalidate_passive_layout of every child.
CaretsForgotten(c) ==
  [c EXCEPT !.wants = @ \ c.built,
            !.queued = IF @ # NoScroll /\ @.of \in c.built THEN NoScroll ELSE @]
CaretsLeftAlone(c) == c   \* mutant: a reveal leaves queued caret scrolls
RevealForgets(c) == CaretsForgotten(c)

SetReadingHighlights ==
  /\ \E list \in HighlightLists : \E active \in 0..Len(list) :
       /\ \A i \in DOMAIN list : ValidRange(Doc, list[i])
       /\ reading' = [Cancelled(reading) EXCEPT
                        !.snapshot = Captured(session),
                        !.highlights = {<<list[i], i = active>> : i \in DOMAIN list}]
  /\ dirty' = TRUE
  /\ UNCHANGED <<hostVars, plan, offset, size, caret, frame, asked, steady>>

ClearReadingHighlights ==
  /\ reading' = [Cancelled(reading) EXCEPT !.snapshot = NoSnapshot, !.highlights = {}]
  /\ dirty' = TRUE
  /\ UNCHANGED <<hostVars, plan, offset, size, caret, frame, asked, steady>>

RevealRange ==
  /\ asked < MaxReveals
  /\ \E r \in Ranges :
       /\ ValidRange(Doc, r) /\ ~HiddenForBuild(Doc, r.node)
       /\ reading' = [Cancelled(reading) EXCEPT
                        !.pending = [snapshot |-> Captured(session), range |-> r,
                                     generation |-> asked + 1],
                        !.status = "Deferred"]
       /\ steady' = r
  /\ caret' = RevealForgets(caret)
  /\ asked' = asked + 1 /\ dirty' = TRUE
  /\ UNCHANGED <<hostVars, plan, offset, size, frame>>

\* reading_reveal_status.
Reported ==
  IF reading.pending # NoPending /\ ~Matches(reading.pending.snapshot, session)
  THEN "Stale" ELSE reading.status

\* sync_children: a new child asks for its caret by default; route_focus.
Synced(c, doc) ==
  LET built == Buildable(doc)
  IN [c EXCEPT !.built = built, !.wants = (@ \intersect built) \union (built \ c.built),
               !.focused = IF @ \in built THEN @ ELSE None,
               !.composes = IF @ \in built THEN @ ELSE None]
Routed(c, doc, at) == [c EXCEPT !.focused = IF Hidden(doc, at) THEN None ELSE at]

FocusSelectionWithoutScroll ==
  /\ reading' = Cancelled(reading)
  /\ caret' = Routed(CaretsForgotten(Synced(caret, Doc)), Doc, session.sel.at)
  /\ dirty' = TRUE
  /\ UNCHANGED <<hostVars, plan, offset, size, frame, asked, steady>>

-----------------------------------------------------------------------------
(* Frames.                                                                 *)

\* begin_reading_frame drops what belongs to another document.
Begun(rd) ==
  LET kept == IF Matches(rd.snapshot, session) THEN rd
              ELSE [rd EXCEPT !.snapshot = NoSnapshot, !.highlights = {}]
  IN IF kept.pending # NoPending /\ ~Matches(kept.pending.snapshot, session)
     THEN Cancelled(kept) ELSE kept

\* The scene of a frame.  Prepaint clamps every offset; the viewport of a table
\* that is not shown is gone, and begins anew.
ShownTables == {t \in DOMAIN Doc.tables : \A u \in DOMAIN Doc.tables :
                  (u = t \/ Doc.tables[t].within = u) => view.owner /\ Doc.tables[u].fits}
Scene ==
  LET fresh == [doc |-> Doc, size |-> size]
      Clamped(h) == IF h \in DOMAIN offset
                    THEN Lesser(0, Greater(-Furthest(fresh, h), offset[h])) ELSE 0
  IN [doc |-> Doc, size |-> size, offset |-> [h \in {"doc"} \union ShownTables |-> Clamped(h)]]

Composing(c, node) == c.composes = node

\* request_focus_scroll.
Asking(c, at) == [c EXCEPT !.wants = @ \union ({at} \intersect c.built)]

\* keep_caret_visible, for the child that has the focus.
CaretTarget(s) ==
  LET now == s.offset["doc"]
      top == s.doc.blocks[session.sel.at].top + now
      moved == now + (IF top < 0 THEN -top
                      ELSE IF top + 1 > s.size.high THEN s.size.high - top - 1 ELSE 0)
  IN Greater(-Furthest(s, "doc"), Lesser(0, moved))
CaretPainted(c, s) ==
  LET at == session.sel.at IN
  IF c.focused # at \/ at \notin c.wants \/ s.size.high = 0 \/ Hidden(Doc, at) THEN c
  ELSE [c EXCEPT !.wants = @ \ {at},
                 !.queued = IF CaretTarget(s) = s.offset["doc"] THEN NoScroll
                            ELSE [of |-> at, to |-> CaretTarget(s)]]

\* finish_reading_frame settles the reveal, waits for another frame, or
\* schedules its plan.  Nothing is measured where nothing has an extent.
Measured(s, r) ==
  s.size.high > 0 /\ \A t \in ToSet(TablesAround(s.doc, r.node)) : Seen(s, t) > 0
Settled(rd, status) == [rd EXCEPT !.pending = NoPending, !.status = status]
Finished(rd, c, s) ==
  LET r == rd.pending.range
      p == Planned(s, r)
  IN IF rd.pending = NoPending \/ rd.scheduled \/ Composing(c, r.node) THEN rd
     ELSE IF Hidden(Doc, r.node) THEN Settled(rd, "Unavailable")
     ELSE IF ~Measured(s, r) THEN rd
     ELSE IF p.offset # s.offset THEN [rd EXCEPT !.scheduled = TRUE]
     ELSE Settled(rd, IF Visible(s, r.node, p.target) THEN "Revealed" ELSE "Unavailable")

\* One frame, after the callbacks of the one before (on_next_frame).
Draw ==
  /\ dirty /\ caret.queued = NoScroll
  /\ LET rd == Begun(reading)
         synced == Synced(caret, Doc)
         restores == caret.focused # None /\ (view.owner \/ Hidden(Doc, session.sel.at))
         c == IF restores THEN Routed(synced, Doc, session.sel.at) ELSE synced
     IN /\ reading' = Finished(rd, c, Scene)
        /\ caret' = CaretPainted(c, Scene)
        /\ frame' = [doc |-> Doc, size |-> size, offset |-> Scene.offset, stamp |-> Stamp,
                     shown |-> {h \in rd.highlights : ~Composing(c, h[1].node)}]
        /\ plan' = IF reading'.scheduled /\ ~rd.scheduled
                   THEN [pending |-> rd.pending, before |-> Scene.offset, size |-> size,
                         after |-> Planned(Scene, rd.pending.range).offset, current |-> TRUE,
                         handles |-> {"doc"} \union ToSet(TablesAround(Doc, rd.pending.range.node))]
                   ELSE IF plan = NoPlan THEN NoPlan ELSE [plan EXCEPT !.current = FALSE]
  /\ offset' = Scene.offset
  /\ steady' = IF session.sel.at \in caret.built THEN steady ELSE NoRange
  /\ dirty' = FALSE
  /\ UNCHANGED <<hostVars, size, asked>>

\* The callback of finish_reading_frame, at the end of the frame's effects.  A
\* newer reveal, a stale one and a scroll of the user supersede the plan; after
\* another frame or a resize it is made anew.
SamePending(rd, pending) == rd.pending # NoPending /\ rd.pending.generation = pending.generation
AwaitsNothing(rd) == FALSE   \* mutant: a newer reveal is not notified
Awaits(rd) == rd.pending # NoPending
Moved == \E h \in (DOMAIN plan.before) \intersect (DOMAIN offset) :
           h \in plan.handles /\ offset[h] # plan.before[h]
Deferred ==
  /\ plan # NoPlan /\ plan' = NoPlan
  /\ LET rd == [reading EXCEPT !.scheduled = FALSE]
         superseded == ~SamePending(rd, plan.pending)
         dropped == ~Matches(plan.pending.snapshot, session) \/ Moved
     IN \/ /\ superseded
           /\ reading' = rd /\ dirty' = (dirty \/ Awaits(rd)) /\ UNCHANGED offset
        \/ /\ ~superseded /\ dropped
           /\ reading' = Cancelled(rd) /\ UNCHANGED <<dirty, offset>>
        \/ /\ ~superseded /\ ~dropped
           /\ reading' = rd /\ dirty' = TRUE
           /\ offset' = IF plan.current /\ plan.size = size THEN plan.after ELSE offset
  /\ UNCHANGED <<hostVars, size, caret, frame, asked, steady>>

\* apply_caret_scroll, unless a passive call came between.
CaretScrolls ==
  /\ caret.queued # NoScroll
  /\ offset' = [offset EXCEPT !["doc"] = caret.queued.to]
  /\ caret' = [caret EXCEPT !.queued = NoScroll]
  /\ UNCHANGED <<hostVars, reading, plan, size, frame, dirty, asked, steady>>

-----------------------------------------------------------------------------
(* What else happens to the view.                                          *)

\* Edits, loads, selections and guards of the host and of other views; an edit
\* or a selection of this view asks for its caret (request_focus_scroll).
HostMoves ==
  /\ HostSteps
  /\ LET at == session'.sel.at
         selects == session' # session /\ session' = [session EXCEPT !.sel = session'.sel]
     IN \E own \in IF selects THEN BOOLEAN ELSE {view'.epoch # view.epoch} :
       /\ caret' = IF own THEN Asking(Routed(Synced(caret, session'.doc), session'.doc, at), at)
                   ELSE caret
       /\ dirty' \in {TRUE, dirty \/ own}
  /\ steady' = NoRange
  /\ UNCHANGED <<reading, plan, offset, size, frame, asked>>

\* apply_passive_edit_plan: an edit of the host through this view.
PassiveEdit ==
  /\ caret.composes = None
  /\ HostEdits /\ view'.epoch # view.epoch /\ UNCHANGED <<feature, call>>
  /\ LET synced == CaretsForgotten(Synced(CaretsForgotten(caret), session'.doc))
     IN caret' = IF caret.focused = None THEN synced ELSE Routed(synced, session'.doc, session'.sel.at)
  /\ dirty' = TRUE /\ steady' = NoRange
  /\ UNCHANGED <<reading, plan, offset, size, frame, asked>>

\* A composition belongs to the child it began in, which repaints when it
\* starts and ends.
MethodComposes ==
  /\ \/ caret.composes = None /\ caret.focused # None
        /\ caret' = [caret EXCEPT !.composes = caret.focused]
     \/ caret.composes # None
        /\ caret' = [caret EXCEPT !.composes = None]
  /\ dirty' = TRUE
  /\ UNCHANGED <<hostVars, reading, plan, offset, size, frame, asked, steady>>

\* The wheel over the document or a table, and the window's size.
UserScrolls ==
  /\ frame # NoFrame
  /\ \E h \in DOMAIN frame.offset : \E o \in (-Furthest(frame, h))..0 :
       o # offset[h] /\ offset' = [offset EXCEPT ![h] = o]
  /\ dirty' = TRUE /\ steady' = NoRange
  /\ UNCHANGED <<hostVars, reading, plan, size, caret, frame, asked>>
Resized ==
  /\ \E s \in Sizes \ {size} : size' = s
  /\ dirty' = TRUE /\ steady' = NoRange
  /\ UNCHANGED <<hostVars, reading, plan, offset, caret, frame, asked>>

\* The host's own controls take the focus.
FocusLeaves ==
  /\ caret.focused # None
  /\ caret' = [caret EXCEPT !.focused = None]
  /\ UNCHANGED <<hostVars, reading, plan, offset, size, frame, dirty, asked, steady>>

-----------------------------------------------------------------------------
Init ==
  /\ HostInit
  /\ size \in Sizes
  /\ reading = [snapshot |-> NoSnapshot, highlights |-> {}, pending |-> NoPending,
                status |-> None, scheduled |-> FALSE]
  /\ plan = NoPlan
  /\ offset = [h \in {"doc"} |-> 0]
  /\ \E focused \in {None, session.sel.at} \ {b \in DOMAIN Doc.blocks : Hidden(Doc, b)} :
       caret = [built |-> Buildable(Doc), wants |-> Buildable(Doc), queued |-> NoScroll,
                focused |-> focused, composes |-> None]
  /\ frame = NoFrame
  /\ dirty = TRUE /\ asked = 0 /\ steady = NoRange /\ changes = 0

Steps == RevealRange \/ Draw \/ Deferred \/ CaretScrolls
Changes ==
  \/ SetReadingHighlights \/ ClearReadingHighlights \/ FocusSelectionWithoutScroll
  \/ HostMoves \/ PassiveEdit \/ MethodComposes \/ UserScrolls \/ Resized \/ FocusLeaves
Next ==
  \/ Steps /\ UNCHANGED changes
  \/ changes < MaxChanges /\ Changes /\ changes' = changes + 1

\* A window that was notified is drawn, deferred work runs when the effects
\* around it are done, and the callbacks of the next frame when that comes.  The
\* steps are named by their effects: only Draw leaves nothing to draw, only
\* Deferred takes the plan, and a queued scroll is made or cancelled.
Drawn == dirty /\ caret.queued = NoScroll /\ dirty' = FALSE
PlanRan == plan # NoPlan /\ plan' = NoPlan
CaretScrolled == caret.queued # NoScroll /\ caret' = [caret EXCEPT !.queued = NoScroll]
Fairness == WF_dirty(Drawn) /\ WF_plan(PlanRan) /\ WF_caret(CaretScrolled)
Spec == Init /\ [][Next]_vars /\ Fairness

-----------------------------------------------------------------------------
\* reading_start: the caret when it is in view, otherwise the leading edge of
\* the topmost text in view, while the painted geometry is that of the screen.
CaretRange == [node |-> session.sel.at, from |-> 0, to |-> 0]
WholeBlock(b) == [node |-> b, from |-> 0, to |-> Doc.blocks[b].len]
Current == frame # NoFrame /\ frame.stamp = Stamp /\ frame.size = size /\ frame.offset = offset
LeftEdge(b) ==
  LET lefts == {TargetBounds(frame, WholeBlock(b)).left} \union {c.start : c \in Clips(frame, b)}
  IN CHOOSE x \in lefts : \A y \in lefts : y <= x
Readable(b) ==
  /\ b \in caret.built /\ ~Composing(caret, b)
  /\ Visible(frame, b, TargetBounds(frame, WholeBlock(b)))
Score(b) == <<TargetBounds(frame, WholeBlock(b)).top, LeftEdge(b)>>
Leads(b) ==
  \A other \in DOMAIN Doc.blocks : Readable(other) =>
    \/ Score(b)[1] < Score(other)[1]
    \/ Score(b)[1] = Score(other)[1] /\ Score(b)[2] <= Score(other)[2]
ReadingStarts ==
  IF ~Current THEN {}
  ELSE IF Readable(session.sel.at) /\ Visible(frame, session.sel.at, TargetBounds(frame, CaretRange))
  THEN {<<session.sel.at, 0>>}
  ELSE {<<b, LeftEdge(b) - TargetBounds(frame, WholeBlock(b)).left>> :
          b \in {x \in DOMAIN Doc.blocks : Readable(x) /\ Leads(x)}}

\* What a host highlights is painted only over the text it was found in.
HighlightsFit == frame # NoFrame => \A h \in frame.shown : ValidRange(frame.doc, h[1])

\* A reveal that reports success has put the leading letters of its range, as
\* many as fit, into every viewport around it; no caret scroll from before the
\* call takes them away.
Live == [doc |-> Doc, size |-> size, offset |-> offset]
InView(node, letter) ==
  Visible(Live, node, TargetBounds(Live, [node |-> node, from |-> letter, to |-> letter]))
RevealedStaysInView ==
  reading.status = "Revealed" /\ steady # NoRange =>
    \A letter \in steady.from..Greater(steady.from, steady.to - 1) :
      (\A c \in Clips(Live, steady.node) : letter - steady.from < c.end - c.start)
        => InView(steady.node, letter)

\* Reading starts at a place of the document that is in view (reading_start).
StartIsInView ==
  \A p \in ReadingStarts : p[2] \in 0..Doc.blocks[p[1]].len /\ InView(p[1], p[2])

\* What a reader of the view is shown, brought to or told is there
\* (reading_highlight_quads, finish_reading_frame, reading_start).
ReadingIsInPlace == HighlightsFit /\ RevealedStaysInView /\ StartIsInView

\* An accepted reveal is answered, unless its block is being composed or the
\* window has no room to measure it in (reading_scroll.rs).
Blocked ==
  \/ Composing(caret, reading.pending.range.node)
  \/ ~Measured(Live, reading.pending.range)
RevealSettles == []<>(Reported = "Deferred" => Blocked)
=============================================================================
