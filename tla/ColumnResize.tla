---------------------------- MODULE ColumnResize ----------------------------
(***************************************************************************)
(* Dragging a table column (xiaomu-gpui/src/document_view/column_resize):  *)
(* a press on a measured edge starts a gesture, moves preview a width, a   *)
(* release commits through the host at once if that width is the one on    *)
(* screen, and otherwise after one frame has measured it.  The commit of   *)
(* such a frame is deferred to the end of the frame.  Any doubt about the  *)
(* document, the policy or the layout cancels the gesture.                 *)
(***************************************************************************)
EXTENDS TableCapability

CONSTANTS Widths,            \* widths a pointer can ask for
          Widest,            \* the widest column a layout accepts
          Screens,           \* [available, origin] of the tables on screen
          MaxGestures,       \* bound: presses
          MaxConfigurations  \* bound: changes of the table configuration

VARIABLES
  armed,         \* a host has installed a resize capability
  screen,        \* what the window gives the tables
  measurements,  \* the tables of the last frame, as measured
  drag,          \* the gesture, or NoDrag
  queue,         \* tokens of deferred commits
  presses        \* tokens given

resizeVars == <<admission, armed, screen, measurements, drag, queue, presses>>

Outside == 0
NoDrag == [token |-> 0]
Active(d) == d # NoDrag
MeasurementsOf(ms, t) == {m \in ms : m.table = t}

\* validate_column_resize, for the gesture d and the measurements ms.
Valid(d, ms) ==
  /\ armed
  /\ session.rev = d.rev /\ session.doc = d.doc
  /\ admission.enabled /\ ~HiddenAncestor(admission, session, d.table)
  /\ ~view.composing
  /\ view.owner
  /\ \E m \in MeasurementsOf(ms, d.table) :
       m.key = d.key /\ m.available = d.available /\ m.origin = d.origin
Validated(d, ms) == IF Active(d) /\ Valid(d, ms) THEN d ELSE NoDrag

\* Whether the width asked for is the width of the column on screen.
ExactWhateverWasMeasured(d, ms) == TRUE  \* mutant: no measured width is asked for
Exact(d, ms) == \E m \in MeasurementsOf(ms, d.table) : m.width = d.width

-----------------------------------------------------------------------------
(* Pointer events.  Deferred work of a frame precedes the next event.      *)

Quiet == call = NoCall /\ queue = {}
Rest == UNCHANGED <<feature, session, view, armed, screen, measurements>>

Begun(m) ==
  [token |-> presses + 1, released |-> FALSE, queued |-> FALSE,
   table |-> m.table, rev |-> m.rev, doc |-> m.doc, key |-> m.key,
   available |-> m.available, origin |-> m.origin, width |-> m.width]

\* begin_column_resize: a press on an edge of the innermost measured table.
Press ==
  /\ Quiet /\ drag = NoDrag /\ presses < MaxGestures
  /\ armed /\ admission.enabled /\ ~view.composing /\ view.owner
  /\ \E m \in measurements :
       /\ session.rev = m.rev /\ session.doc = m.doc
       /\ ~HiddenAncestor(admission, session, m.table)
       /\ admission' = AskedAncestors(admission, session, m.table)
       /\ drag' = Begun(m)
  /\ presses' = presses + 1
  /\ UNCHANGED <<queue, call>> /\ Rest

\* update_column_resize: the preview's width, or no gesture any more.
Updated(d, w) ==
  IF ~Active(Validated(d, measurements)) THEN NoDrag
  ELSE IF w = Outside \/ w > Widest THEN NoDrag
  ELSE [d EXCEPT !.width = w]

Move ==
  /\ Quiet /\ Active(drag) /\ ~drag.released
  /\ \E w \in Widths \union {Outside} : drag' = Updated(drag, w)
  /\ UNCHANGED <<admission, queue, presses, call>> /\ Rest

\* commit_measured_column_resize: the host's callback gets the gesture.
CommitNow(d) ==
  IF Active(Validated(d, measurements)) /\ d.released /\ d.queued
    THEN /\ call' = [kind |-> "resize", gesture |-> d]
         /\ drag' = NoDrag
    ELSE call' = call /\ drag' = Validated(d, measurements)

\* end_column_resize: a button up, or a motion without a button.
Release ==
  /\ Quiet /\ Active(drag) /\ ~drag.released
  /\ \E w \in Widths \union {Outside} :
       LET d == Updated(drag, w)
           r == [d EXCEPT !.released = TRUE, !.queued = Exact(d, measurements)]
       IN IF ~Active(d) THEN drag' = NoDrag /\ call' = call
          ELSE IF r.queued THEN CommitNow(r)
          ELSE drag' = r /\ call' = call
  /\ UNCHANGED <<admission, queue, presses>> /\ Rest

\* A deferred commit counts only for the gesture it was queued for.
Deferred ==
  /\ call = NoCall
  /\ \E token \in queue :
       /\ queue' = queue \ {token}
       /\ IF drag.token = token THEN CommitNow(drag) ELSE UNCHANGED <<drag, call>>
  /\ UNCHANGED <<admission, presses>> /\ Rest

\* A horizontal wheel turns the gesture down.
Wheel ==
  /\ Quiet /\ Active(drag)
  /\ drag' = NoDrag
  /\ UNCHANGED <<admission, queue, presses, call>> /\ Rest

-----------------------------------------------------------------------------
(* A frame: validate, measure every table, finish the gesture.             *)

ShownWidth(d, t) == IF Active(d) /\ d.table = t THEN d.width ELSE session.doc.tables[t].width
Measurable(a, d, t) ==
  \A u \in ToSet(Around(session, t)) : CanBuild(a, session, u) /\ ShownWidth(d, u) <= Widest

\* AdmittedTable::request_layout: a table laid out well is recorded, another one
\* is revoked.
LaidOut(a, d, good) == {t \in good : Measurable(a, d, t)}
MeasuredTables(a, d, good) ==
  LET p == AllLookedUp(a, session)
      ok == LaidOut(p, d, good)
  IN [p EXCEPT !.entries = [t \in DOMAIN @ |-> [@[t] EXCEPT !.admitted = t \in ok]],
               !.measured = [t \in ok |-> p.entries[t].key]]
Measurement(a, d, t) ==
  [table |-> t, rev |-> session.rev, doc |-> session.doc, key |-> Key(a, session, t),
   available |-> screen.available, origin |-> screen.origin, width |-> ShownWidth(d, t)]
Measurements(a, d, good) ==
  {Measurement(a, d, t) : t \in {u \in LaidOut(a, d, good) :
                                   armed /\ ToSet(Around(session, u)) \subseteq good}}

\* finish_column_resize_measurement
NeverQueued(d, ms) == d  \* mutant: a released gesture is not taken up
FinishedMeasurement(d, ms) ==
  IF ~Active(d) \/ ~d.released \/ d.queued THEN d
  ELSE IF Exact(d, ms) THEN [d EXCEPT !.queued = TRUE]
  ELSE NoDrag

OnScreen(d) == IF Active(d) /\ d.available # screen.available THEN NoDrag ELSE d
Frame ==
  /\ Quiet
  /\ UNCHANGED <<feature, session, view, armed, screen, presses, call>>
  /\ LET d1 == Validated(drag, measurements)
     IN IF ~admission.enabled
          THEN drag' = d1 /\ UNCHANGED <<admission, measurements, queue>>
          ELSE \E good \in SUBSET TablesOf(session) :
            LET d2 == OnScreen(d1)
                a == MeasuredTables(admission, d2, good)
                ms == Measurements(a, d2, good)
                ok == Active(d2) /\ \A u \in ToSet(Around(session, d2.table)) : Permits(a, session, u)
                d3 == FinishedMeasurement(IF ok THEN Validated(d2, ms) ELSE NoDrag, ms)
            IN /\ admission' = a
               /\ measurements' = ms
               /\ drag' = d3
               /\ queue' = IF Active(d3) /\ d3.queued THEN {d3.token} ELSE {}

-----------------------------------------------------------------------------
(* The host.                                                               *)

\* readmit_committed_column_preview: a transaction that only changed column
\* widths, to those on screen, keeps the table admitted without a new frame.
OnlyWidths(before, after) ==
  /\ DOMAIN before.tables = DOMAIN after.tables
  /\ \A t \in DOMAIN before.tables :
       [after.tables[t] EXCEPT !.width = before.tables[t].width] = before.tables[t]
  /\ [after EXCEPT !.tables = before.tables] = before
Readmits(d, m) ==
  /\ m.table = d.table
  /\ admission.enabled /\ Key(admission, session, d.table) # InvalidKey
  /\ d.key.configuration = admission.configuration
  /\ session.doc.tables[d.table].width = m.width

CommitReturns ==
  /\ call.kind = "resize"
  /\ call' = NoCall
  /\ LET d == call.gesture
         own == {m \in measurements : OnlyWidths(d.doc, session.doc) /\ Readmits(d, m)}
         key == Key(admission, session, d.table)
     IN IF own = {} THEN UNCHANGED <<admission, measurements>>
        ELSE /\ admission' = Recorded(LookedUp(admission, session, d.table), d.table, key, TRUE)
             /\ measurements' = (measurements \ own) \union
                  {[m EXCEPT !.key = key, !.doc = session.doc, !.rev = session.rev] : m \in own}
  /\ UNCHANGED <<feature, session, view, armed, screen, drag, queue, presses>>

\* set_table_column_resize
HostInstalls ==
  /\ armed' = ~armed /\ drag' = NoDrag
  /\ measurements' = IF armed' THEN measurements ELSE {}
  /\ UNCHANGED <<hostVars, admission, screen, queue, presses>>

\* set_measured_table_layout and set_measured_table_row_metadata
HostConfigures ==
  /\ admission.configuration < MaxConfigurations
  /\ \E enabled \in BOOLEAN, metadata \in {None, "m"} :
       /\ enabled = admission.enabled \/ metadata = admission.metadata
       /\ admission' = Reconfigured(admission, enabled, metadata)
  /\ drag' = NoDrag /\ measurements' = {}
  /\ UNCHANGED <<hostVars, armed, screen, queue, presses>>

ScreenChanges ==
  /\ queue = {}
  /\ screen' \in Screens
  /\ UNCHANGED <<hostVars, admission, armed, measurements, drag, queue, presses>>

Asked ==
  /\ AskPermission \/ AskDocument
  /\ UNCHANGED <<armed, screen, measurements, drag, queue, presses>>

ResizeInit ==
  /\ AdmissionInit
  /\ armed = TRUE /\ screen \in Screens
  /\ measurements = {} /\ drag = NoDrag /\ queue = {} /\ presses = 0

ResizeSteps ==
  \/ Press \/ Move \/ Release \/ Deferred \/ Wheel \/ Frame \/ CommitReturns \/ Asked
ResizeChanges ==
  \/ HostInstalls \/ HostConfigures \/ ScreenChanges
  \/ HostSteps /\ UNCHANGED resizeVars
  \/ queue = {} /\ Composes /\ UNCHANGED resizeVars

-----------------------------------------------------------------------------

\* A gesture reaches its host only for the document it was pressed on, with the
\* width its column was last measured at under the present structure: no stale
\* preview, no width that was never laid out (end_column_resize,
\* finish_column_resize_measurement, commit_measured_column_resize).
CommitIsMeasured ==
  [][call = NoCall /\ call'.kind = "resize" =>
       LET d == call'.gesture
       IN /\ d.doc = session.doc /\ d.rev = session.rev
          /\ \E m \in measurements :
               /\ m.table = d.table /\ m.width = d.width
               /\ m.key = BuildKey(admission, session, d.table)]_<<hostVars, resizeVars>>

\* A released gesture is committed or cancelled: the host is not told forever
\* that a resize is pending (has_pending_table_column_resize).
ReleaseSettles == (Active(drag) /\ drag.released) ~> ~Active(drag)
=============================================================================
