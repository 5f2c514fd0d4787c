--------------------------- MODULE EditorGestures ---------------------------
(***************************************************************************)
(* The gestures of a view that outlive an event or wait for the host: the  *)
(* resize of a column, the activation of a chip, the clipboard.  Each      *)
(* behaviour is of one of them, among the changes that the host, the       *)
(* session's other views and the window make meanwhile, which are bounded. *)
(***************************************************************************)
EXTENDS ColumnResize, AtomGestures, EditorClipboard

CONSTANT MaxChanges   \* per feature, a bound: changes that are not steps of it

VARIABLE changes

vars == <<hostVars, resizeVars, atomVars, clipVars, changes>>

Init ==
  /\ HostInit /\ ResizeInit /\ AtomInit /\ ClipboardInit
  /\ changes = 0

Steps ==
  \/ feature = "resize" /\ ResizeSteps /\ UNCHANGED <<atomVars, clipVars>>
  \/ feature = "atoms" /\ AtomSteps /\ UNCHANGED <<resizeVars, clipVars>>
  \/ feature = "clipboard" /\ ClipboardSteps /\ UNCHANGED <<resizeVars, atomVars>>

Changes ==
  \/ feature = "resize" /\ ResizeChanges /\ UNCHANGED <<atomVars, clipVars>>
  \/ feature = "atoms" /\ AtomChanges /\ UNCHANGED <<resizeVars, clipVars>>
  \/ feature = "clipboard" /\ ClipboardChanges /\ UNCHANGED <<resizeVars, atomVars>>

Next ==
  \/ Steps /\ UNCHANGED changes
  \/ changes < MaxChanges[feature] /\ Changes /\ changes' = changes + 1

\* GPUI draws a window that was notified and runs deferred work at the end of
\* the frame.
Idle == UNCHANGED <<atomVars, clipVars, changes>>
Fairness ==
  /\ WF_vars(feature = "resize" /\ Idle /\ Frame)
  /\ WF_vars(feature = "resize" /\ Idle /\ Deferred)

Spec == Init /\ [][Next]_vars /\ Fairness
=============================================================================
