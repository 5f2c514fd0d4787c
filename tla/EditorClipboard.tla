--------------------------- MODULE EditorClipboard ---------------------------
(***************************************************************************)
(* Copy, cut and paste of a view (xiaomu-gpui/src/document_view/clipboard, *)
(* input/platform_clipboard).  A cut replaces the clipboard and then the   *)
(* document, in one step if the host prepares it.  An image is imported by *)
(* a service of the host, which may run for long and reenter the editor.   *)
(*                                                                         *)
(* session.sel is [at, code, hidden, marks]: what is selected, whether the *)
(* focus is in code, whether an endpoint is in a hidden table.             *)
(***************************************************************************)
EXTENDS EditorHost

CONSTANTS ReadOnly   \* whether the view was built read-only

VARIABLES
  clipboard,   \* what the platform holds, or Nothing
  rejection    \* the stage of the last gesture's rejection, or None

clipVars == <<clipboard, rejection>>

Nothing == [flavor |-> None]
Source == [doc |-> session.doc, sel |-> session.sel]

\* What a selection exports: its metadata may be required, and may be refused
\* by the decoder that a paste would use.
Slices == [of : {Source}, required : BOOLEAN, fits : BOOLEAN, whole : BOOLEAN]
Native(s) == [flavor |-> "native", of |-> s.of, whole |-> s.whole]
TextOf(s) == [flavor |-> "text", of |-> s.of, empty |-> FALSE]

\* write_slice and write_slice_for_cut; None is the clipboard left alone.
Written(s) ==
  IF s.fits THEN {Native(s)}
  ELSE IF s.required THEN {}
  ELSE {TextOf(s), [flavor |-> "rejected"]}
WrittenForCut(s) == IF s.fits THEN {Native(s)} ELSE {}

\* The guards of a gesture: silent.
Guarded == ReadOnly \/ session.sel.hidden \/ view.composing

\* An intent the session accepts, with the view's new render generation.
Edited ==
  /\ session.rev < MaxRevision[feature] /\ view.epoch < MaxEpoch[feature]
  /\ \E d \in Documents[feature], s \in Selections[feature] :
       session' = [session EXCEPT !.rev = @ + 1, !.doc = d, !.sel = s]
  /\ view' = [view EXCEPT !.epoch = @ + 1]
Unedited == UNCHANGED <<session, view>>
\* apply_intent: accepted, refused or without effect.
Intent == (Edited \/ Unedited) /\ rejection' = None

Silent == Unedited /\ rejection' = None
Rejects(stage) == Unedited /\ rejection' = stage

-----------------------------------------------------------------------------

\* Copy has no guard but the projection's.
Copy ==
  /\ call = NoCall
  /\ UNCHANGED <<feature, session, view, call>>
  /\ \/ clipboard' = clipboard /\ rejection' \in {None, "copy"}    \* nothing, or an error
     \/ \E s \in Slices :
          IF Written(s) = {} THEN clipboard' = clipboard /\ rejection' = "copy"
          ELSE clipboard' \in Written(s) /\ rejection' = None

\* The prepared cut holds the session from the projection to the publication.
PreparedCut ==
  /\ call = NoCall /\ ~Guarded
  /\ UNCHANGED <<feature, call>>
  /\ \/ clipboard' = clipboard /\ Rejects("cut")
     \/ \E s \in Slices :
          IF s.fits THEN clipboard' = Native(s) /\ Edited /\ rejection' = None
          ELSE clipboard' = clipboard /\ Rejects("cut")

\* The generic cut writes first and deletes afterwards, if the session will.
GenericCut ==
  /\ call = NoCall /\ ~Guarded
  /\ UNCHANGED <<feature, call>>
  /\ \/ clipboard' = clipboard /\ (Silent \/ Rejects("cut"))
     \/ \E s \in Slices :
          IF WrittenForCut(s) = {} THEN clipboard' = clipboard /\ Rejects("cut")
          ELSE clipboard' \in WrittenForCut(s) /\ Intent

-----------------------------------------------------------------------------
(* Paste.  A paste into a read-only or composing view does nothing.        *)

Pastes(flavor) ==
  /\ call = NoCall /\ ~ReadOnly /\ ~view.composing
  /\ clipboard.flavor = flavor
  /\ UNCHANGED <<feature, clipboard>>

\* route_host_command: the host leaves the default, or consumes the command by
\* nothing, an intent or an error.
Consumed == Intent \/ Rejects("routing")

\* Metadata of this editor that its decoder refuses is never taken for text.
PasteRejected == Pastes("rejected") /\ Rejects("paste") /\ UNCHANGED call

\* In code a slice is text, unless it carries a whole table or whole blocks.
PasteNative ==
  /\ Pastes("native") /\ UNCHANGED call
  /\ \/ Intent
     \/ session.sel.code /\ Consumed
     \/ session.sel.code /\ ~clipboard.whole /\ Silent   \* it has no text
PasteText ==
  /\ Pastes("text") /\ UNCHANGED call
  /\ \/ Consumed
     \/ IF clipboard.empty THEN Silent ELSE Intent

\* The image is imported outside any borrow of the session.  Only a host that
\* admitted it gets the stamp that the answer is compared with.
Import(source) == call' = [kind |-> "import", source |-> source] /\ Silent
ImageStamp ==
  [identity |-> session.identity, rev |-> session.rev, sel |-> session.sel]
NoStamp == [identity |-> 0, rev |-> 0, sel |-> session.sel]
PasteImage ==
  /\ Pastes("image")
  /\ \/ session.sel.code /\ clipboard.text /\ Consumed /\ UNCHANGED call
     \/ Rejects("routing") /\ UNCHANGED call                \* admit_image_paste refuses
     \/ IF session.sel.code \/ session.sel.at # "caret"
          THEN Silent /\ UNCHANGED call
          ELSE Import(NoStamp)
     \/ IF Guarded THEN Silent /\ UNCHANGED call ELSE Import(ImageStamp)

\* The service answers with an asset, or with nothing of use.
UnstampedInsertion(source) == Intent   \* mutant: the stamp is not compared
Insertion(source) ==
  IF source.identity = 0 THEN Intent
  ELSE IF session.identity # source.identity THEN Silent
  ELSE IF session.rev # source.rev \/ session.sel # source.sel THEN Rejects("paste")
  ELSE IF Guarded THEN Silent
  ELSE Intent
Imported ==
  /\ call.kind = "import"
  /\ call' = NoCall
  /\ Insertion(call.source) \/ Silent
  /\ UNCHANGED <<feature, clipboard>>

\* Another program copies; decode_fallback looks for an image first.
Foreign == {[flavor |-> "text", of |-> Nothing, empty |-> e] : e \in BOOLEAN}
           \union {[flavor |-> "image", text |-> t] : t \in BOOLEAN}
           \union {[flavor |-> "rejected"], Nothing}
OtherProgramCopies ==
  /\ clipboard' \in Foreign
  /\ UNCHANGED <<hostVars, rejection>>

ClipboardInit == clipboard = Nothing /\ rejection = None

ClipboardSteps ==
  \/ Copy \/ PreparedCut \/ GenericCut
  \/ PasteRejected \/ PasteNative \/ PasteText \/ PasteImage \/ Imported
ClipboardChanges ==
  \/ OtherProgramCopies
  \/ HostSteps /\ UNCHANGED clipVars
  \/ Composes /\ UNCHANGED clipVars

-----------------------------------------------------------------------------

\* An admitted image is inserted into the content, at the revision, the
\* selection and with the pending marks it was pasted for: an answer that comes
\* after an edit, a reload or a move inserts nothing (paste, the local stamp).
ImportLandsWhereItWasAsked ==
  [][call.kind = "import" /\ call' = NoCall /\ session'.rev # session.rev
       => call.source.identity = 0 \/ ImageStamp = call.source]_<<hostVars, clipVars>>
=============================================================================
