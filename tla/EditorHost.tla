----------------------------- MODULE EditorHost -----------------------------
(***************************************************************************)
(* What a view shares with its host: the session, the state of the view    *)
(* that its gestures compare with, and the callback the host is inside of. *)
(* While a callback runs no other event of the window is delivered, but    *)
(* the host may edit the session, select, replace its content in place or  *)
(* change its policy, and the view reads all of that anew afterwards.      *)
(***************************************************************************)
EXTENDS Naturals, Sequences, FiniteSets, SequencesExt

CONSTANTS Features,       \* kinds of gesture a user makes
          Documents,      \* per feature, the documents a session may hold
          Selections,     \* per feature, selections with their pending marks
          MaxRevision,    \* per feature, a bound: revisions of a session
          MaxEpoch        \* per feature, a bound: render generations of a view

ASSUME HostAssumption ==
  /\ Features \subseteq DOMAIN Documents /\ Features \subseteq DOMAIN Selections
  /\ MaxRevision \in [Features -> Nat] /\ MaxEpoch \in [Features -> Nat]

VARIABLES
  feature,   \* the gesture of this behaviour
  session,   \* [identity, rev, doc, sel]; sel carries the pending marks
  view,      \* [epoch, composing, owner]: owner is the host's guard
  call       \* the callback the view waits for, or NoCall

hostVars == <<feature, session, view, call>>

None == "none"
NoCall == [kind |-> None]
Stamp == <<session.identity, session.rev, view.epoch>>

\* Another view of the session edits it, or this one does and bumps its epoch.
\* A staged edit is later by more than one, but revisions are only compared.
HostEdits ==
  /\ session.rev < MaxRevision[feature]
  /\ \E d \in Documents[feature], s \in Selections[feature], own \in BOOLEAN :
       /\ session' = [session EXCEPT !.rev = @ + 1, !.doc = d, !.sel = s]
       /\ own => view.epoch < MaxEpoch[feature]
       /\ view' = [view EXCEPT !.epoch = IF own THEN @ + 1 ELSE @]

\* A host that keeps a session object replaces its content: the identity is
\* new, the revision may be one already seen.
HostLoads ==
  /\ session.identity = 1
  /\ \E d \in Documents[feature], r \in 0..session.rev :
       session' = [session EXCEPT !.identity = 2, !.doc = d, !.rev = r]
  /\ UNCHANGED view

\* Selections and pending marks change without a new revision.
HostSelects ==
  /\ \E s \in Selections[feature] \ {session.sel} : session' = [session EXCEPT !.sel = s]
  /\ UNCHANGED view

HostRevokes ==
  /\ view' = [view EXCEPT !.owner = ~@]
  /\ UNCHANGED session

HostSteps ==
  /\ HostEdits \/ HostLoads \/ HostSelects \/ HostRevokes
  /\ UNCHANGED <<feature, call>>

\* Native input starts and ends compositions, never inside a callback.
Composes ==
  /\ call = NoCall
  /\ view' = [view EXCEPT !.composing = ~@]
  /\ UNCHANGED <<feature, session, call>>

HostInit ==
  /\ feature \in Features
  /\ session \in [identity : {1}, rev : {0}, doc : Documents[feature],
                  sel : Selections[feature]]
  /\ view = [epoch |-> 0, composing |-> FALSE, owner |-> TRUE]
  /\ call = NoCall
=============================================================================
