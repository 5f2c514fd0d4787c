----------------------------- MODULE EditorViews -----------------------------
(***************************************************************************)
(* Native input to the document views of one window: which entity owns the *)
(* keyboard and the platform's input handler, compositions, focus routing, *)
(* children and range proxies, and the calls that reach the shared session *)
(* (xiaomu-gpui/src/document_view, xiaomu-gpui/src/block_view).            *)
(*                                                                         *)
(* The views in Views share one session and one window.  A document is its *)
(* live text blocks with their content, and the grid of its one table: the *)
(* paragraph Inner lies in its only cell.  Renderers hide HiddenGrids.     *)
(***************************************************************************)
EXTENDS Naturals, Sequences

CONSTANTS Views,          \* the panes, each a DocumentView
          ReadOnly,       \* the panes opened for reading
          First,          \* a paragraph of every document
          Inner,          \* the paragraph in the cell of the table
          Platform,       \* "mac", "linux" or "windows"
          HiddenGrids,    \* grids whose cells the renderer does not show
          Measured,       \* measured tables are enabled
          Letter,         \* what a key types
          Preedits,       \* the texts an input method composes
          Chip,           \* an inline atom in a text
          HostOwns,       \* the host also edits the session without a view
          Content,        \* what the texts of the host's documents hold
          HostDocs,       \* the documents a host transaction may install
          Burst,          \* bound: events between two frames
          MaxRevision     \* bound: document changes in a behaviour

None == "none"
Blocks(d) == DOMAIN d.text

ASSUME ViewsAssumption ==
  /\ Platform \in {"mac", "linux", "windows"}
  /\ ReadOnly \subseteq Views
  /\ First # Inner
  /\ {Chip, Letter} \subseteq Content /\ Content \cap Preedits = {}
  /\ None \notin HiddenGrids
  /\ \A d \in HostDocs :
       /\ DOMAIN d = {"text", "grid"}
       /\ d.text \in [Blocks(d) -> Seq(Content)]
       /\ First \in Blocks(d)
       /\ d.grid # None => Inner \in Blocks(d)

VARIABLES
  doc,       \* the session's document: [text, grid]
  rev,       \* its revision
  sel,       \* the session's selection: [kind, anchor, focus]
  focus,     \* the entity the window's focus handle names
  handler,   \* the entity whose input handler the platform holds
  comps,     \* compositions, one record per composing entity
  children,  \* per view, the blocks that have a native child
  proxy,     \* per view, the anchor of its range input, or none
  pending,   \* events since the last frame
  ime        \* what the platform's input method is doing

viewVars == <<focus, handler, comps, children, proxy>>
vars == <<doc, rev, sel, viewVars, ime, pending>>

Offsets(d, n) == 0..Len(d.text[n])
Hidden(d) == d.grid \in HiddenGrids
At(n, off) == [node |-> n, off |-> off]

\* The selections of a document: inline, a cell range, a node, everything.
Inline(a, f) == [kind |-> "inline", anchor |-> a, focus |-> f]
Caret(n, off) == Inline(At(n, off), At(n, off))
Whole(kind, n) == [kind |-> kind, anchor |-> At(n, 0), focus |-> At(n, 0)]
CellRange == Whole("cells", "cell")
NodeSelection == Whole("node", "table")
All == Whole("all", "root")
Carets(d) == {Caret(n, 0) : n \in Blocks(d)}
Selections(d) ==
  Carets(d) \union (IF d.grid = None THEN {All} ELSE {CellRange, NodeSelection})

\* An endpoint in content no renderer shows.
HiddenEndpoint(d, s) ==
  Hidden(d) /\ {s.anchor.node, s.focus.node} \cap {Inner, "cell"} # {}

SameNode(s) == s.kind = "inline" /\ s.anchor.node = s.focus.node
Low(s) == IF s.anchor.off <= s.focus.off THEN s.anchor.off ELSE s.focus.off
High(s) == IF s.anchor.off <= s.focus.off THEN s.focus.off ELSE s.anchor.off

\* Entities that can own the focus.
Elsewhere == [view |-> None, part |-> None, node |-> None, live |-> TRUE]
Entity(v, part, n) == [view |-> v, part |-> part, node |-> n, live |-> TRUE]
Child(v, n) == Entity(v, "child", n)
Proxy(v, n) == Entity(v, "proxy", n)
View(v) == Entity(v, "view", None)
TakesText(e) == e.part \in {"child", "proxy"}

-----------------------------------------------------------------------------
(* The session, as the views use it.                                       *)

Replaced(d, n, lo, hi, t) ==
  [d EXCEPT !.text[n] = SubSeq(@, 1, lo) \o t \o SubSeq(@, hi + 1, Len(@))]

Outcome(d, s) == [doc |-> d, sel |-> s]
Refused == Outcome(doc, sel)

\* InsertText: one inline node, or the cell that anchors a cell range.
Typed(s, t) ==
  IF s.kind = "cells"
    THEN Outcome([doc EXCEPT !.text[Inner] = t], Caret(Inner, Len(t)))
  ELSE IF SameNode(s)
    THEN Outcome(Replaced(doc, s.focus.node, Low(s), High(s), t),
                 Caret(s.focus.node, Low(s) + Len(t)))
  ELSE Refused

\* CommitComposition: the range is checked against the node of the selection's
\* focus, and so is a selection that is not collapsed.
Composed(lo, hi, t) ==
  IF sel.kind = "cells"
    THEN IF lo = 0 /\ hi = 0 THEN Typed(sel, t) ELSE Refused
  ELSE IF SameNode(sel) /\ hi <= Len(doc.text[sel.focus.node])
    THEN Outcome(Replaced(doc, sel.focus.node, lo, hi, t),
                 Caret(sel.focus.node, lo + Len(t)))
  ELSE Refused

\* Commands, history and transactions: deletions, and any document of the host.
DeletedSelection ==
  IF SameNode(sel) /\ sel.anchor # sel.focus
    THEN Outcome(Replaced(doc, sel.focus.node, Low(sel), High(sel), <<>>),
                 Caret(sel.focus.node, Low(sel)))
  ELSE IF sel.kind = "cells" THEN Outcome([doc EXCEPT !.text[Inner] = <<>>], sel)
  ELSE Refused
HostOutcomes == {Outcome(d, Caret(First, 0)) : d \in HostDocs}
Edited == {Refused, DeletedSelection} \union HostOutcomes

Publish(o) ==
  /\ o.doc # doc => rev < MaxRevision
  /\ doc' = o.doc
  /\ sel' = o.sel
  /\ rev' = IF o.doc = doc THEN rev ELSE rev + 1

-----------------------------------------------------------------------------
(* Children, range proxies and focus.                                      *)

\* range_input_anchor: what a selection that is not text types through.
Anchor(d, s) ==
  IF HiddenEndpoint(d, s) \/ s.kind = "inline" THEN None ELSE s.anchor.node

Buildable(d) == IF Hidden(d) THEN Blocks(d) \ {Inner} ELSE Blocks(d)

\* Entities of v that synchronising with a document and selection drops.
Dropped(v, d, s, e) ==
  /\ e.view = v
  /\ \/ e.part = "child" /\ e.node \notin Buildable(d)
     \/ e.part = "proxy" /\ e.node # Anchor(d, s)
\* A dropped entity stays alive for the platform while it holds its handler.
Kept(gone, e) == IF gone THEN [e EXCEPT !.live = FALSE] ELSE e
Owner(e) == IF e.live THEN e ELSE Elsewhere
Composition(e) == {c \in comps : c.entity = e}
WithEntity(f(_), cs) == {[c EXCEPT !.entity = f(@)] : c \in cs}

\* route_focus: the entity that gets the focus, f when none of v's does.
Routed(v, d, s, kids, prox, f) ==
  IF HiddenEndpoint(d, s) THEN View(v)
  ELSE IF Anchor(d, s) # None /\ prox # None THEN Proxy(v, prox)
  ELSE IF s.kind # "inline" THEN View(v)
  ELSE IF s.focus.node \in kids THEN Child(v, s.focus.node)
  ELSE f

FocusedChild(v) == focus.view = v /\ TakesText(focus)
FocusedChildComposing(v) == FocusedChild(v) /\ Composition(focus) # {}

\* sync_children against the document d and selection s.
Surviving(v, d, s, e) == Kept(Dropped(v, d, s, e), e)
Synced(v, d, s) ==
  LET kept(e) == Surviving(v, d, s, e)
  IN /\ children' = [children EXCEPT ![v] = Buildable(d)]
     /\ proxy' = [proxy EXCEPT ![v] = Anchor(d, s)]
     /\ comps' = WithEntity(kept, comps)
     /\ handler' = kept(handler)
SyncThen(v, d, s, NextFocus(_)) ==
  Synced(v, d, s) /\ focus' = NextFocus(Owner(Surviving(v, d, s, focus)))
SyncAndRoute(v, d, s) ==
  LET routed(f) == Routed(v, d, s, Buildable(d), Anchor(d, s), f)
  IN SyncThen(v, d, s, routed)

RouteOnly(v, d, s) ==
  /\ focus' = Routed(v, d, s, children[v], proxy[v], focus)
  /\ UNCHANGED <<handler, comps, children, proxy>>

-----------------------------------------------------------------------------
(* The native callbacks of the entity that holds the input handler.        *)

\* input_is_hidden_by_table
InputHiddenByBlock(e) == Hidden(doc) /\ e.node \in {Inner, "cell", "table"}  \* mutant: the selection is not asked
InputHidden(e) ==
  \/ HiddenEndpoint(doc, sel)
  \/ /\ Hidden(doc) /\ e.node \in {Inner, "cell", "table"}
     /\ ~(e.part = "proxy" /\ e.node = "table" /\ sel.kind = "node")

\* inline: an active range input is an empty text.
InlineOf(e) ==
  IF e.part = "proxy"
    THEN IF sel.kind # "inline" /\ sel.anchor.node = e.node THEN {<<>>} ELSE {}
    ELSE IF e.node \in Blocks(doc) THEN {doc.text[e.node]} ELSE {}

\* input_range_points: the range a callback addresses, if it addresses one.
NativeRanges == {None, <<0, 1>>}
InputRange(e, range) ==
  IF InlineOf(e) = {} THEN {}
  ELSE IF e.part = "proxy" THEN {<<0, 0>>}
  ELSE IF ~SameNode(sel) \/ sel.anchor.node # e.node THEN {}
  ELSE IF range = None THEN {<<Low(sel), High(sel)>>}
  ELSE {r \in {range} : r[2] <= Len(doc.text[e.node])}
CrossesAtom(e, r) == \E t \in InlineOf(e) : \E i \in (r[1] + 1)..r[2] : t[i] = Chip

Composing(e, r, t, rejected) ==
  [entity |-> e, lo |-> r[1], hi |-> r[2], text |-> t, rejected |-> rejected]
KeepComposition(e) == UNCHANGED comps  \* mutant: the state is not taken
EndComposition(e) == comps' = comps \ Composition(e)
QuietNative == UNCHANGED <<doc, rev, sel, focus, handler, children, proxy>>
Ignore == QuietNative /\ UNCHANGED comps
Cancel(e) == QuietNative /\ EndComposition(e)

\* commit_composition: the composition is taken first; its offsets come from
\* the entity's own text, the edit goes to the session's selection.
CommitRange(e, c) ==
  IF InlineOf(e) = {} THEN {<<0, 0>>}
  ELSE {r \in {<<c.lo, c.hi>>} : \A t \in InlineOf(e) : r[2] <= Len(t)}
Commit(e, t) ==
  /\ EndComposition(e)
  /\ UNCHANGED <<focus, handler, children, proxy>>
  /\ \E c \in Composition(e) :
       LET ranges == CommitRange(e, c)
       IN IF ranges = {} \/ InputHidden(e) THEN Publish(Refused)
          ELSE \E r \in ranges : \E o \in {Composed(r[1], r[2], t), Refused} : Publish(o)

\* mark_text; the text sizes of a preedit may be refused.
BeginOrUpdate(e, range, t, admitted) ==
  LET ranges == InputRange(e, range)
      crossing == \E r \in ranges : CrossesAtom(e, r)
      update == \E c \in Composition(e) : ~c.rejected
  IN /\ QuietNative
     /\ comps' =
          IF update
            THEN (comps \ Composition(e)) \union
                 {[c EXCEPT !.text = t, !.rejected = ~admitted] : c \in Composition(e)}
            ELSE comps \union
                 {Composing(e, r, t, crossing \/ ~admitted) : r \in ranges}

Mark(e, range, t) ==
  IF e.view \in ReadOnly THEN Ignore
  ELSE IF InputHidden(e) THEN Cancel(e)
  ELSE IF t = <<>> THEN Cancel(e)
  ELSE IF \E c \in Composition(e) : c.rejected THEN Ignore
  ELSE \E admitted \in BOOLEAN : BeginOrUpdate(e, range, t, admitted)

UnmarkText(e) ==  \* mutant: a refused composition is not cleared
  IF e.view \in ReadOnly \/ Composition(e) = {} \/ (\E c \in Composition(e) : c.rejected)
    THEN Ignore
  ELSE \E c \in Composition(e) : Commit(e, c.text)
Unmark(e) ==
  IF e.view \in ReadOnly THEN Ignore
  ELSE IF Platform = "linux" /\ ~InputHidden(e) /\ \E c \in Composition(e) : ~c.rejected
    THEN \E c \in Composition(e) : Commit(e, c.text)
  ELSE Cancel(e)

\* replace_text_in_range outside a composition: text typed at the selection.
TypeAt(e, range, t) ==
  LET target == IF range = None \/ e.part = "proxy" THEN {sel}
                ELSE {Inline(At(e.node, r[1]), At(e.node, r[2])) : r \in InputRange(e, range)}
  IN /\ UNCHANGED viewVars
     /\ IF target = {} THEN Publish(Refused)
        ELSE \E s \in target : \E o \in {Typed(s, t), Refused} : Publish(o)

ReplaceText(e, range, t) ==
  IF e.view \in ReadOnly THEN Ignore
  ELSE IF InputHidden(e) THEN Cancel(e)
  ELSE IF \E c \in Composition(e) : c.rejected THEN Cancel(e)
  ELSE IF Composition(e) # {}
    THEN IF t = <<>> THEN Cancel(e) ELSE Commit(e, t)
  ELSE TypeAt(e, range, t)

-----------------------------------------------------------------------------
(* What the platform's input method does: idle, composing a text, or about *)
(* to unmark a composition it has ended (Linux).                           *)

Idle == [at |-> "idle", text |-> <<>>, left |-> Preedits]
ImeAt(at, t) == [ime EXCEPT !.at = at, !.text = t]
Ended == ImeAt(IF Platform = "linux" THEN "unmark" ELSE "idle", <<>>)

TypeLetter ==
  /\ ime.at = "idle" /\ TakesText(handler)
  /\ \E range \in NativeRanges : ReplaceText(handler, range, <<Letter>>)
  /\ UNCHANGED ime

ImeStarts ==
  /\ ime.at = "idle" /\ TakesText(handler)
  /\ \E p \in ime.left, range \in NativeRanges :
       /\ Mark(handler, range, <<p>>)
       /\ ime' = [at |-> "composing", text |-> <<p>>, left |-> ime.left \ {p}]

ImeUpdates ==
  /\ ime.at = "composing" /\ TakesText(handler)
  /\ Mark(handler, None, ime.text)
  /\ UNCHANGED ime

ImeCommits ==
  /\ ime.at = "composing"
  /\ IF TakesText(handler) THEN ReplaceText(handler, None, ime.text) ELSE Ignore
  /\ ime' = Ended

ImeCancels ==
  /\ ime.at = "composing"
  /\ ime' = Ended
  /\ \/ ~TakesText(handler) /\ Ignore
     \/ TakesText(handler) /\ Mark(handler, None, <<>>)
     \/ TakesText(handler) /\ Platform = "windows" /\ ReplaceText(handler, None, <<>>)
     \/ TakesText(handler) /\ Platform = "mac" /\ Unmark(handler)

ImeUnmarks ==
  /\ ime.at = "unmark"
  /\ IF TakesText(handler) THEN Unmark(handler) ELSE Ignore
  /\ ime' = ImeAt("idle", <<>>)

-----------------------------------------------------------------------------
(* The document view: pointer, commands, hosts and draws.                  *)

Select(v, s) == Publish(Outcome(doc, s)) /\ RouteOnly(v, doc, s)

\* move_focus_to: a caret, or a range grown from an inline anchor.  Ranges stay
\* in one block here.
MovedTo(n, off, extend) ==
  IF extend /\ sel.kind = "inline" /\ sel.anchor.node = n
    THEN Inline(sel.anchor, At(n, off)) ELSE Caret(n, off)

\* on_mouse_down and a drag.  On Linux the window unmarks the input handler
\* before it delivers the event.
MouseDown(v) ==
  /\ ime.at = "idle" \/ Platform # "linux"
  /\ \E n \in children[v] \cap Blocks(doc), extend \in BOOLEAN :
       \E off \in {0, Len(doc.text[n])} : Select(v, MovedTo(n, off, extend))
  /\ UNCHANGED ime
WindowUnmarks ==
  /\ Platform = "linux" /\ ime.at = "composing"
  /\ IF TakesText(handler) THEN Unmark(handler) ELSE Ignore
  /\ ime' = ImeAt("idle", <<>>)

\* install_cell_range: only the range input is synchronised.
SelectCells(v) ==
  /\ doc.grid # None /\ ~Hidden(doc) /\ ~FocusedChildComposing(v)
  /\ Publish(Outcome(doc, CellRange))
  /\ LET gone(e) == e.view = v /\ e.part = "proxy" /\ e.node # "cell"
         kept(e) == Kept(gone(e), e)
     IN /\ proxy' = [proxy EXCEPT ![v] = "cell"]
        /\ comps' = WithEntity(kept, comps)
        /\ handler' = kept(handler)
        /\ focus' = Proxy(v, "cell")
  /\ UNCHANGED <<children, ime>>

\* select_node; the selections a host's router gives for Select All, an arrow
\* or a click on an atomic block; those it gives for keys on a selected node.
Install(v, s) == Publish(Outcome(doc, s)) /\ SyncAndRoute(v, doc, s)
SelectNode(v) ==
  /\ doc.grid # None /\ ~FocusedChildComposing(v)
  /\ Install(v, NodeSelection)
  /\ UNCHANGED ime
RouteSelection(v) ==
  /\ ~FocusedChildComposing(v)
  /\ \E s \in Selections(doc) : Install(v, s)
  /\ UNCHANGED ime
NavigateNode(v) ==
  /\ ~HiddenEndpoint(doc, sel) /\ ~FocusedChildComposing(v) /\ sel.kind = "node"
  /\ \E s \in Selections(doc) : Install(v, s)
  /\ UNCHANGED ime

\* navigate_cell_range and exit_cell_range: back to a caret in the cell.
LeaveCells(v) ==
  /\ ~HiddenEndpoint(doc, sel) /\ ~FocusedChildComposing(v) /\ sel.kind = "cells"
  /\ Select(v, Caret(Inner, 0))
  /\ UNCHANGED ime

\* navigate: arrows, Home and End from a caret, a range or everything.
Navigate(v) ==
  /\ ~HiddenEndpoint(doc, sel) /\ ~FocusedChildComposing(v)
  /\ sel.kind \in {"inline", "all"}
  /\ \E n \in Buildable(doc), extend \in BOOLEAN :
       \E off \in {0, Len(doc.text[n])} : Select(v, MovedTo(n, off, extend))
  /\ UNCHANGED ime

\* What a view does with the outcome of an edit: children and focus follow a
\* changed document, and a changed selection when the edit had a target.
Follow(v, o, follows) ==
  /\ Publish(o)
  /\ IF follows THEN SyncAndRoute(v, o.doc, o.sel) ELSE UNCHANGED viewVars

\* apply_edit_intent: keys, toolbars and host commands through a view, at the
\* selection or at a target.
Command(v) ==
  /\ v \notin ReadOnly /\ ~HiddenEndpoint(doc, sel) /\ ~FocusedChildComposing(v)
  /\ \E o \in Edited : Follow(v, o, o.doc # doc)
  /\ UNCHANGED ime
CommandAt(v) ==
  /\ v \notin ReadOnly /\ ~HiddenEndpoint(doc, sel) /\ ~FocusedChildComposing(v)
  /\ \E s \in {x \in Selections(doc) : ~HiddenEndpoint(doc, x)} :
       \E o \in {Typed(s, <<>>), Outcome(doc, s)} : Follow(v, o, o # Refused)
  /\ UNCHANGED ime

\* undo_entry and redo_entry; apply_edit_transaction, which reading views allow.
History(v) ==
  /\ v \notin ReadOnly /\ ~FocusedChildComposing(v)
  /\ \E o \in HostOutcomes : Follow(v, o, o # Refused)
  /\ UNCHANGED ime
Transaction(v) ==
  /\ ~FocusedChildComposing(v)
  /\ \E o \in HostOutcomes : Follow(v, o, o.doc # doc)
  /\ UNCHANGED ime

\* apply_passive_edit_plan: any composition of the view defers it, and focus
\* follows only if this view owned it.
PassivePlan(v) ==
  /\ \A c \in comps : c.entity.view # v \/ ~c.entity.live
  /\ \E o \in HostOutcomes :
       LET routed(f) == IF FocusedChild(v) \/ focus = View(v)
                          THEN Routed(v, o.doc, o.sel, Buildable(o.doc), Anchor(o.doc, o.sel), f)
                          ELSE f
       IN /\ o # Refused /\ Publish(o)
          /\ SyncThen(v, o.doc, o.sel, routed)
  /\ UNCHANGED ime

\* A host that owns the session edits or selects without going through a view.
HostEdits ==
  /\ HostOwns
  /\ \E o \in HostOutcomes \union {Outcome(doc, s) : s \in Selections(doc)} : Publish(o)
  /\ UNCHANGED <<viewVars, ime>>

\* The window's focus goes to another control, or a host returns it.
FocusElsewhere ==
  /\ focus' = Elsewhere
  /\ UNCHANGED <<doc, rev, sel, handler, comps, children, proxy, ime>>
FocusSelection(v) ==
  /\ SyncAndRoute(v, doc, sel)
  /\ UNCHANGED <<doc, rev, sel, ime>>

\* DocumentView::render restores the focus it owned before it synchronises.
Restores(v, f) ==
  \/ (Measured \/ HiddenEndpoint(doc, sel)) /\ FocusedChild(v)
  \/ f = Proxy(v, proxy[v]) /\ proxy[v] # Anchor(doc, sel)

\* The focus-out listener: compositions of the entity that lost the focus.
LostNone(next) == {}  \* mutant: no listener
Lost(next) == {c \in comps : c.entity = handler /\ c.entity # next}

\* One frame: every view renders, the focused child installs its handler, and
\* whoever lost the focus since the last frame cancels its composition.
Draw ==
  LET gone(e) == \E v \in Views : Dropped(v, doc, sel, e)
      kept(e) == Kept(gone(e), e)
      owner == {v \in Views : v = focus.view /\ Restores(v, focus)}
      next == IF owner = {} THEN Owner(kept(focus))
              ELSE LET v == CHOOSE v \in owner : TRUE
                   IN Routed(v, doc, sel, Buildable(doc), Anchor(doc, sel), Owner(kept(focus)))
  IN /\ children' = [v \in Views |-> Buildable(doc)]
     /\ proxy' = [v \in Views |-> Anchor(doc, sel)]
     /\ focus' = next
     /\ handler' = IF TakesText(next) THEN next ELSE Elsewhere
     /\ comps' = {c \in comps \ Lost(next) : ~gone(c.entity) /\ c.entity.live}
     /\ pending' = 0
     /\ UNCHANGED <<doc, rev, sel, ime>>

Init ==
  /\ doc \in HostDocs /\ rev = 0
  /\ sel = Caret(First, 0)
  /\ focus \in {Child(v, First) : v \in Views}
  /\ handler = focus
  /\ comps = {}
  /\ children = [v \in Views |-> Buildable(doc)]
  /\ proxy = [v \in Views |-> None]
  /\ ime = Idle /\ pending = 0

Event ==
  \/ TypeLetter \/ ImeStarts \/ ImeUpdates \/ ImeCommits \/ ImeCancels \/ ImeUnmarks
  \/ WindowUnmarks \/ HostEdits \/ FocusElsewhere
  \/ \E v \in Views : \/ MouseDown(v) \/ SelectCells(v) \/ SelectNode(v)
                      \/ RouteSelection(v) \/ NavigateNode(v) \/ LeaveCells(v) \/ Navigate(v) \/ Command(v) \/ CommandAt(v) \/ History(v)
                      \/ Transaction(v) \/ PassivePlan(v) \/ FocusSelection(v)

ViewNext ==
  \/ pending < Burst /\ Event /\ pending' = pending + 1
  \/ Draw

Spec == Init /\ [][ViewNext]_vars

-----------------------------------------------------------------------------

\* An input method that has ended its composition leaves no view composing: a
\* composing child swallows every command, so one the platform no longer feeds
\* would block the keyboard (mark_text, unmark_text, replace_text_in_range and
\* the focus-out listener, over the orders the three platforms use).
IdleMethodBlocksNoKey ==
  ime.at = "idle" => \A v \in Views : ~FocusedChildComposing(v)

\* There is at most one composition, and it is the input handler's, whatever
\* children are dropped and rebuilt between two frames (one input handler per
\* window, the focus-out listener, sync_children).
OneComposition == \A c \in comps : c.entity = handler /\ comps = {c}

\* A text the input method composes enters the document at most once, whatever
\* commits, unmarks, clicks and focus changes follow one another.
OccurrencesIn(d, x) ==
  {at \in Blocks(d) \X UNION {DOMAIN d.text[n] : n \in Blocks(d)} :
     at[2] \in DOMAIN d.text[at[1]] /\ d.text[at[1]][at[2]] = x}
Occurrences(x) == OccurrencesIn(doc, x)
CompositionEntersOnce == \A p \in Preedits : \A a, b \in Occurrences(p) : a = b

\* Input through a renderer that hides the table never edits the cell.
HiddenCellUntouched ==
  [][Hidden(doc) /\ Hidden(doc') => doc'.text[Inner] = doc.text[Inner]
       \/ \E o \in HostOutcomes : doc' = o.doc]_vars

\* A commit replaces the range its composition covers in the block it began in
\* (the doc of commit_composition: "over the composition's canonical base
\* range").
CommitStaysInItsBlock ==
  [][\A c \in comps, p \in Preedits :
       c.entity.part = "child" /\ c.text = <<p>> /\ Occurrences(p) = {}
         => \A at \in Occurrences(p)' : at[1] = c.entity.node]_vars
=============================================================================
