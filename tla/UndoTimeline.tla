---------------------------- MODULE UndoTimeline ----------------------------
(***************************************************************************)
(* What undo promises a user, without stacks or transactions: the session  *)
(* has a row of documents and stands on one of them.  An edit cuts off     *)
(* what lies ahead and either adds a document or, inside one typing unit,  *)
(* replaces the last one; undo and redo step back and forth.  A step       *)
(* arrives at exactly the document that was left, and nothing else ever    *)
(* changes the document or loses a place to return to.                     *)
(*                                                                         *)
(* Session implements this (crates/xiaomu-runtime/src/session/mod.rs,      *)
(* undo and redo; docs/adr/0003-exact-inverse-undo.md).                    *)
(***************************************************************************)
EXTENDS Integers, Sequences

CONSTANTS Documents, FirstDocument

VARIABLES
  timeline,   \* the documents that can be reached by undo and redo
  here,       \* the place of the live document in it
  live        \* the live document

tvars == <<timeline, here, live>>

\* Wherever the session stands, its document is the one of that place.
Stand == live' = timeline'[here']

Init ==
  /\ timeline = <<FirstDocument>>
  /\ here = 1
  /\ live = FirstDocument

Edit ==
  \E d \in Documents :
    /\ timeline' = Append(SubSeq(timeline, 1, here), d)
    /\ here' = here + 1
    /\ Stand

\* Only the newest document can be replaced, and never the first one.
Extend ==
  /\ here > 1
  /\ here = Len(timeline)
  /\ \E d \in Documents : timeline' = [timeline EXCEPT ![here] = d]
  /\ here' = here
  /\ Stand

Undo ==
  /\ here > 1
  /\ here' = here - 1
  /\ timeline' = timeline
  /\ Stand

Redo ==
  /\ here < Len(timeline)
  /\ here' = here + 1
  /\ timeline' = timeline
  /\ Stand

Next == Edit \/ Extend \/ Undo \/ Redo

Spec == Init /\ [][Next]_tvars
=============================================================================
