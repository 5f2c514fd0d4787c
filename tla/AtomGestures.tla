---------------------------- MODULE AtomGestures ----------------------------
(***************************************************************************)
(* Activating an inline chip (xiaomu-gpui/src/document_view/atom_keyboard  *)
(* and atom_pointer.rs): a chip that has the focus by Enter or Space, a    *)
(* chip that captured a press by releasing the button over it.  A host is  *)
(* asked first, inside a callback in which it may change anything, and a   *)
(* press may be released long after.  A hit looks up the place under the   *)
(* pointer, as painted, in the document of now.                            *)
(*                                                                         *)
(* doc.chips maps each chip to [attrs, place, hidden].                     *)
(***************************************************************************)
EXTENDS EditorHost

CONSTANTS MaxCapability   \* bound: adapters a host installs

VARIABLES
  capability,    \* the adapter installed now
  keyboard,      \* [snapshot, entries]: chips that may have the focus
  focus,         \* a chip, Editor, or Retired: a handle whose chip is gone
  pointer,       \* the press in progress, or NoPress
  pointerFrame,  \* what the last painted frame was a frame of
  painted        \* the chips of the last painted frame

atomVars == <<capability, keyboard, focus, pointer, pointerFrame, painted>>

Editor == "editor"
Retired == "retired"
NoPress == [node |-> None]
NoFrame == <<>>
NoChips == <<>>

Chips == session.doc.chips
Owned == DOMAIN keyboard.entries
OwnsFocus == focus \in Owned \union {Retired}

\* AtomKeyboard::invalidate: the focus stays on a handle without a chip.
Invalidated == [snapshot |-> NoFrame, entries |-> NoChips]
RetiredFocus(kept) == IF focus \in Owned \ kept THEN Retired ELSE focus

-----------------------------------------------------------------------------
(* A frame: begin_atom_keyboard_frame, record_targets of every paragraph,  *)
(* finish_frame, record_atom_pointer_frame, and the focus listeners.       *)

VisibleChips == {c \in DOMAIN Chips : ~Chips[c].hidden}
Draw ==
  /\ call = NoCall
  /\ \E targets \in SUBSET VisibleChips :   \* on screen, and focusable for the host
       LET kept == IF keyboard.snapshot = Stamp THEN targets ELSE {}
           now == RetiredFocus(kept)
       IN /\ keyboard' = [snapshot |-> Stamp, entries |-> [c \in targets |-> Chips[c]]]
          /\ focus' = now
          /\ pointer' = IF pointer # NoPress /\ pointer.focus # now THEN NoPress ELSE pointer
  /\ pointerFrame' = Stamp
  /\ painted' = Chips
  /\ UNCHANGED <<hostVars, capability>>

\* Tab, a click elsewhere or the host moves the focus.
FocusMoves ==
  /\ focus' \in (Owned \union {Editor}) \ {focus}
  /\ UNCHANGED <<hostVars, capability, keyboard, pointer, pointerFrame, painted>>

-----------------------------------------------------------------------------
(* The keyboard: atom_key.                                                 *)

\* The focused chip is still the one of the document.
ChipIsLive(c) ==
  /\ keyboard.snapshot = Stamp
  /\ c \in DOMAIN Chips
  /\ ~Chips[c].hidden
  /\ Chips[c].attrs = keyboard.entries[c].attrs

PressKey ==
  /\ call = NoCall
  /\ focus \in Owned /\ ChipIsLive(focus)
  /\ call' = [kind |-> "focusable", node |-> focus, entry |-> keyboard.entries[focus],
              stamp |-> Stamp, sel |-> session.sel, capability |-> capability]
  /\ UNCHANGED <<feature, session, view, atomVars>>

\* The checks after the host has said that the chip is focusable.
KeyIsCurrent(k) ==
  /\ focus = k.node
  /\ k.stamp = Stamp
  /\ k.node \in DOMAIN Chips => ~Chips[k.node].hidden
  /\ k.sel = session.sel
  /\ capability = k.capability
  /\ k.node \in Owned /\ keyboard.entries[k.node] = k.entry

Delivery(kind, c, attrs, cap) ==
  [kind |-> kind, node |-> c, attrs |-> attrs, capability |-> cap]

KeyAnswered ==
  /\ call.kind = "focusable"
  /\ \E yes \in BOOLEAN :
       call' = IF yes /\ KeyIsCurrent(call)
                 THEN Delivery("activate", call.node, call.entry.attrs, call.capability)
                 ELSE NoCall
  /\ UNCHANGED <<feature, session, view, atomVars>>

-----------------------------------------------------------------------------
(* The pointer.                                                            *)

\* hit_test and chip_for: the chip of the document at a place, as a host sees it.
\* A composing paragraph shows no chips.
Hits(place) ==
  {[node |-> c, attrs |-> Chips[c].attrs, place |-> place] :
     c \in {d \in VisibleChips : Chips[d].place = place /\ ~view.composing}}

UnseenPressIsCurrent(p) ==   \* mutant: what was painted is not compared
  ~p.cancelled /\ p.stamp = Stamp /\ p.sel = session.sel /\ capability = p.capability
PressIsCurrent(p) ==
  /\ ~p.cancelled
  /\ pointerFrame = p.stamp
  /\ p.stamp = Stamp
  /\ p.sel = session.sel
  /\ capability = p.capability

Places == {painted[c].place : c \in DOMAIN painted}

\* begin_atom_pointer_down asks the host; inside tells a hit from a clamped one.
PointerDown ==
  /\ call = NoCall
  /\ \E place \in Places, inside \in BOOLEAN : \E hit \in Hits(place) :
       call' = [kind |-> "capture", inside |-> inside,
                gesture |-> [node |-> hit.node, attrs |-> hit.attrs, place |-> hit.place,
                         stamp |-> Stamp, sel |-> session.sel, focus |-> focus,
                         cancelled |-> FALSE, capability |-> capability]]
  /\ pointer' = NoPress
  /\ UNCHANGED <<feature, session, view, capability, keyboard, focus, pointerFrame, painted>>

Captured ==
  /\ call.kind = "capture"
  /\ pointer' = [call.gesture EXCEPT
                   !.cancelled = ~call.inside \/ ~PressIsCurrent(call.gesture)]
  /\ call' = NoCall
  /\ UNCHANGED <<feature, session, view, capability, keyboard, focus, pointerFrame, painted>>

\* A press that is not captured activates the chip it hits at once, the
\* historical way (on_mouse_down, emit_atom_action).
LegacyDown ==
  /\ call.kind = "capture"
  /\ LET hits == Hits(call.gesture.place)
     IN \/ \E hit \in hits : call' = Delivery("legacy", hit.node, hit.attrs, capability)
        \/ call' = NoCall        \* Shift extends the selection
  /\ UNCHANGED <<feature, session, view, atomVars>>

OverItsChip(p, place, inside) ==
  /\ PressIsCurrent(p)
  /\ p.focus = focus
  /\ inside
  /\ \E hit \in Hits(place) :
       hit = [node |-> p.node, attrs |-> p.attrs, place |-> p.place]

\* update_atom_pointer and observe_pointer_motion
PointerMove ==
  /\ call = NoCall /\ pointer # NoPress
  /\ \E place \in Places, over \in BOOLEAN :
       pointer' = [pointer EXCEPT !.cancelled = @ \/ ~OverItsChip(pointer, place, over)]
  /\ UNCHANGED <<hostVars, capability, keyboard, focus, pointerFrame, painted>>

\* capture_atom_pointer_up
PointerUp ==
  /\ call = NoCall /\ pointer # NoPress
  /\ \E place \in Places, over \in BOOLEAN :
       call' = IF OverItsChip(pointer, place, over)
                 THEN Delivery("click", pointer.node, pointer.attrs, pointer.capability)
                 ELSE NoCall
  /\ pointer' = NoPress
  /\ UNCHANGED <<feature, session, view, capability, keyboard, focus, pointerFrame, painted>>

Deactivates ==
  /\ pointer # NoPress
  /\ pointer' = NoPress
  /\ UNCHANGED <<hostVars, capability, keyboard, focus, pointerFrame, painted>>

ActivationReturns ==
  /\ call.kind \in {"activate", "click", "legacy"}
  /\ call' = NoCall
  /\ UNCHANGED <<feature, session, view, atomVars>>

-----------------------------------------------------------------------------
(* The host.                                                               *)

\* set_atom_capability
InstallsCapability ==
  /\ capability < MaxCapability
  /\ capability' = capability + 1
  /\ keyboard' = Invalidated /\ focus' = RetiredFocus({})
  /\ pointer' = NoPress
  /\ UNCHANGED <<hostVars, pointerFrame, painted>>

\* set_atom_renderers
InstallsRenderers ==
  /\ keyboard' = Invalidated /\ focus' = RetiredFocus({})
  /\ pointer' = NoPress /\ pointerFrame' = NoFrame
  /\ UNCHANGED <<hostVars, capability, painted>>

AtomInit ==
  /\ capability = 1
  /\ keyboard = Invalidated /\ focus = Editor
  /\ pointer = NoPress /\ pointerFrame = NoFrame /\ painted = NoChips

AtomSteps ==
  \/ Draw \/ PressKey \/ KeyAnswered \/ PointerDown \/ Captured \/ LegacyDown
  \/ PointerMove \/ PointerUp \/ ActivationReturns
AtomChanges ==
  \/ FocusMoves \/ Deactivates \/ InstallsCapability \/ InstallsRenderers
  \/ HostSteps /\ UNCHANGED atomVars
  \/ Composes /\ UNCHANGED atomVars

-----------------------------------------------------------------------------

\* A key or a completed click activates, through the adapter installed now, a
\* chip that the document has with just those attributes, and that the user
\* sees: the last frame painted it so and there.  Whatever the host changes
\* inside its callbacks or the window between press and release
\* (atom_key, AtomPointerGesture::is_current).
ActivationShowsTheDocument ==
  [][call'.kind \in {"activate", "click"} /\ call' # call =>
       LET c == call'.node
       IN /\ c \in DOMAIN Chips /\ Chips[c].attrs = call'.attrs
          /\ c \in DOMAIN painted /\ painted[c] = Chips[c]
          /\ call'.capability = capability]_<<hostVars, atomVars>>
=============================================================================
