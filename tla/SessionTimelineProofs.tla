------------------------ MODULE SessionTimelineProofs ------------------------
(***************************************************************************)
(* What a call of Session remembers of the state it found, what it answers *)
(* and what undo promises, proved for every document, plan set and option. *)
(*                                                                         *)
(* First the call: the origin a finalizer is told, what listeners know,    *)
(* the selection undo returns to, the clock of the typing group (policy.rs *)
(* with_transient_rollback, finalization.rs, commit.rs, history.rs), and   *)
(* the editing state that outlives a call (stored_marks.rs).  Then the     *)
(* timeline: an answer is what happened, an input-rule token is only       *)
(* offered where it was created, keystrokes share an undo unit only inside *)
(* the delay, and the session implements UndoTimeline (mod.rs, history.rs, *)
(* input_rule_undo.rs, outcome.rs).                                        *)
(***************************************************************************)
EXTENDS SessionProofs

-----------------------------------------------------------------------------
(* The call and what it found.                                             *)

\* What listeners were told when the selection was s.
Told(s) == [store |-> store, revision |-> revision, selection |-> s]

\* The selection an entry recorded now would return to.
Origin == IF hsb # None THEN hsb ELSE selection

\* The strengthening: the locals of the running call agree with the state it
\* found, and nothing of a finished call is left.
Remembers ==
  /\ phase \notin Running => fsb = None /\ heard = Told(selection)
  /\ phase \in Running =>
       /\ saved.fsb = None
       /\ fsb = saved.selection
       /\ begun.selection = saved.selection
       /\ saved.grouping.high = grouping.high
       /\ heard = Told(saved.selection)
  /\ phase \in {"intent", "apply"} => Origin = saved.selection
  /\ phase = "cut" => begun.selection = selection

\* The commits, as what they publish.
Commits == CommitTyping \/ CommitInline \/ CommitStructural \/ CommitHostPlan \/ UndoInputRule

-----------------------------------------------------------------------------

(* Every commit is the publication of one candidate, from the group as it  *)
(* is or closed (commit.rs, commit_at).                                    *)
LEMMA CommitPublishes ==
  ASSUME IInv, Commits
  PROVE  /\ phase \in {"intent", "collapsed", "apply"}
         /\ \E g \in {grouping, Closed(grouping)}, group \in Group : \E final, time, m, tok :
              Publish(CandidateOf(final, group), g, time, m, tok)
<1>1. selection \in Selections /\ Isolated \in Group /\ \A plan \in Plans : plan.group \in Group
  BY PlanAssumption DEF IInv, TypeOK, Group, Plan
<1>2. CASE CommitTyping
  <2>1. PICK plan \in TypingPlans[selection], time \in Option(Times) :
          \E final, m : Publish(CandidateOf(final, plan.group), grouping, time, m, None)
    BY <1>2 DEF CommitTyping
  <2>2. plan.group \in Group
    BY <1>1, <2>1, PlanAssumption
  <2>3. QED
    BY <1>2, <2>1, <2>2 DEF CommitTyping
<1>3. CASE CommitInline
  BY <1>1, <1>3 DEF CommitInline
<1>4. CASE CommitStructural
  BY <1>1, <1>4 DEF CommitStructural
<1>5. CASE CommitHostPlan
  <2>1. PICK plan \in HostPlans :
          \E final, m, tok :
            Publish(CandidateOf(final, plan.group), Closed(grouping), None, m, tok)
    BY <1>5 DEF CommitHostPlan
  <2>2. plan.group \in Group
    BY <1>1, <2>1, PlanAssumption
  <2>3. QED
    BY <1>5, <2>1, <2>2 DEF CommitHostPlan
<1>6. CASE UndoInputRule
  BY <1>1, <1>6 DEF UndoInputRule
<1>7. QED
  BY <1>2, <1>3, <1>4, <1>5, <1>6 DEF Commits

(* A call that is over has forgotten everything and told listeners what    *)
(* is live.                                                                *)
LEMMA Forgotten ==
  ASSUME phase' \notin Running, phase' # "cut", fsb' = None,
         heard' = [store |-> store', revision |-> revision', selection |-> selection']
  PROVE  Remembers'
BY DEF Remembers, Told, Running

(* Entering a call saves what it finds.                                    *)
LEMMA EnterRemembers ==
  ASSUME IInv, Remembers, NEW p \in Running, Enter(p),
         store' = store, revision' = revision, heard' = heard,
         grouping'.high = grouping.high,
         (IF hsb' # None THEN hsb' ELSE selection') = selection
  PROVE  Remembers'
<1>1. /\ phase = "idle" /\ phase' = p
      /\ saved' = [selection |-> selection, marks |-> marks, grouping |-> grouping,
                   hsb |-> hsb, fsb |-> fsb, token |-> token]
      /\ fsb' = IF fsb = None THEN selection ELSE fsb
      /\ begun' = Session
  BY DEF Enter
<1>2. fsb = None /\ heard = Told(selection)
  BY <1>1 DEF Remembers, Running
<1>3. /\ saved'.fsb = None /\ saved'.selection = selection /\ saved'.grouping = grouping
      /\ fsb' = selection /\ begun'.selection = selection
  BY <1>1, <1>2 DEF Session
<1>4. QED
  BY <1>1, <1>2, <1>3 DEF Remembers, Told, Origin, Running

(* An intent that committed nothing leaves its listeners informed.         *)
LEMMA FinishRemembers ==
  ASSUME IInv, Remembers, phase \in {"intent", "collapsed"},
         NEW s, NEW m, NEW g, NEW t, FinishUnchanged(s, m, g, t)
  PROVE  Remembers'
<1>1. /\ selection' = s /\ phase' = "idle" /\ fsb' = saved.fsb
      /\ store' = store /\ revision' = revision
      /\ IF s = saved.selection THEN heard' = heard
                                ELSE heard' = [heard EXCEPT !.selection = s]
  BY DEF FinishUnchanged, Leave
<1>2. saved.fsb = None /\ heard = Told(saved.selection)
  BY DEF Remembers, Running
<1>3. heard' = [store |-> store', revision |-> revision', selection |-> selection']
  BY <1>1, <1>2 DEF Told
<1>4. QED
  BY <1>1, <1>2, <1>3, Forgotten DEF Running

(* Closing a group keeps the clock (history.rs, GroupingState::close).     *)
LEMMA HighStays ==
  ASSUME NEW g \in GroupingState
  PROVE  Closed(g).high = g.high
BY DEF Closed, GroupingState

(* Starting a call: the target, a raw transaction, a traversal.            *)
LEMMA BeginRemembers ==
  ASSUME IInv, Remembers, BeginIntent \/ BeginApply \/ TakeUndo \/ TakeRedo
  PROVE  Remembers'
<1>1. grouping \in GroupingState /\ selection \in Selections /\ None \notin Selections
  BY SentinelAssumption DEF IInv, TypeOK
<1>2. phase = "idle"
  BY DEF BeginIntent, BeginApply, TakeUndo, TakeRedo, Enter
<1>3. hsb = None
  BY <1>2 DEF IInv, CallOK, Running
<1>4. CASE BeginIntent
  <2>1. /\ Enter("intent") /\ store' = store /\ revision' = revision /\ heard' = heard
        /\ \/ selection' = selection /\ hsb' = hsb /\ grouping' = grouping
           \/ hsb' = selection /\ grouping' = Closed(grouping)
    BY <1>4 DEF BeginIntent
  <2>2. QED
    BY <1>1, <1>3, <2>1, HighStays, EnterRemembers DEF Running
<1>5. CASE BeginApply
  <2>1. /\ Enter("apply") /\ store' = store /\ revision' = revision /\ heard' = heard
        /\ selection' = selection /\ hsb' = hsb /\ grouping' = Closed(grouping)
    BY <1>5 DEF BeginApply
  <2>2. QED
    BY <1>1, <1>3, <2>1, HighStays, EnterRemembers DEF Running
<1>6. CASE TakeUndo \/ TakeRedo
  <2>1. /\ \E p \in {"undoing", "redoing"} : Enter(p)
        /\ store' = store /\ revision' = revision /\ heard' = heard
        /\ selection' = selection /\ hsb' = hsb /\ grouping' = Closed(grouping)
    BY <1>6 DEF TakeUndo, TakeRedo
  <2>2. QED
    BY <1>1, <1>3, <2>1, HighStays, EnterRemembers DEF Running
<1>7. QED
  BY <1>4, <1>5, <1>6

(* Ending a call without a commit.                                         *)
LEMMA EndRemembers ==
  ASSUME IInv, Remembers,
         NoChange \/ StorePendingMarks \/ Navigate \/ Fail \/ FailTraversal
  PROVE  Remembers'
<1>1. CASE NoChange
  BY <1>1, FinishRemembers DEF NoChange
<1>2. CASE StorePendingMarks
  BY <1>2, FinishRemembers DEF StorePendingMarks
<1>3. CASE Navigate
  <2>1. phase \in {"intent", "collapsed"}
    BY <1>3 DEF Navigate
  <2>2. PICK next \in ValidAt[store] :
          IF next = selection
          THEN FinishUnchanged(selection, marks, grouping, None)
          ELSE /\ selection' = next
               /\ heard' = [heard EXCEPT !.selection = next]
               /\ Leave("SelectionChanged")
               /\ UNCHANGED <<store, revision, undo, redo, prepared>>
    BY <1>3 DEF Navigate
  <2>3. CASE next = selection
    BY <2>1, <2>2, <2>3, FinishRemembers
  <2>4. CASE next # selection
    <3>1. /\ selection' = next /\ store' = store /\ revision' = revision
          /\ heard' = [heard EXCEPT !.selection = next]
          /\ phase' = "idle" /\ fsb' = saved.fsb
      BY <2>2, <2>4 DEF Leave
    <3>2. saved.fsb = None /\ heard = Told(saved.selection)
      BY <2>1 DEF Remembers, Running
    <3>3. heard' = [store |-> store', revision |-> revision', selection |-> selection']
      BY <3>1, <3>2 DEF Told
    <3>4. QED
      BY <3>1, <3>2, <3>3, Forgotten DEF Running
  <2>5. QED
    BY <2>3, <2>4
<1>4. CASE Fail \/ FailTraversal
  <2>1. /\ phase \in Running /\ phase' = "idle" /\ fsb' = saved.fsb
        /\ selection' = saved.selection
        /\ store' = store /\ revision' = revision /\ heard' = heard
    BY <1>4 DEF Fail, FailTraversal, RestoreTransient, Leave, Running
  <2>2. saved.fsb = None /\ heard = Told(saved.selection)
    BY <2>1 DEF Remembers
  <2>3. heard' = [store |-> store', revision |-> revision', selection |-> selection']
    BY <2>1, <2>2 DEF Told
  <2>4. QED
    BY <2>1, <2>2, <2>3, Forgotten DEF Running
<1>5. QED
  BY <1>1, <1>2, <1>3, <1>4

(* Publishing a document: by a commit, a traversal or a prepared cut.      *)
LEMMA PublishRemembers ==
  ASSUME IInv, Remembers, Commits \/ ReplayUndo \/ ReplayRedo \/ PublishCut
  PROVE  Remembers'
<1>1. CASE Commits
  <2>1. /\ phase \in Running /\ phase' = "idle" /\ fsb' = saved.fsb
        /\ heard' = [store |-> store', revision |-> revision', selection |-> selection']
    BY <1>1, CommitPublishes DEF Publish, PublishCandidate, Leave, Running
  <2>2. QED
    BY <2>1, Forgotten DEF Remembers, Running
<1>2. CASE ReplayUndo \/ ReplayRedo
  <2>1. /\ phase \in Running /\ phase' = "idle" /\ fsb' = saved.fsb
        /\ heard' = [store |-> store', revision |-> revision', selection |-> selection']
    BY <1>2 DEF ReplayUndo, ReplayRedo, Replay, Leave, Running
  <2>2. QED
    BY <2>1, Forgotten DEF Remembers, Running
<1>3. CASE PublishCut
  <2>1. /\ phase = "cut" /\ phase' = "idle" /\ fsb' = fsb
        /\ heard' = [store |-> store', revision |-> revision', selection |-> selection']
    BY <1>3 DEF PublishCut, PublishCandidate
  <2>2. QED
    BY <2>1, Forgotten DEF Remembers, Running
<1>4. QED
  BY <1>1, <1>2, <1>3

(* The calls of one step, and a collapsed cell range.                      *)
LEMMA OtherRemembers ==
  ASSUME IInv, Remembers,
         \/ TraverseNothing \/ CloseHistoryGroup \/ SetSelection
         \/ PrepareCut \/ CancelCut \/ CollapseCellRange
  PROVE  Remembers'
<1>1. CASE TraverseNothing \/ CloseHistoryGroup
  <2>1. /\ phase = "idle" /\ phase' = phase /\ fsb' = fsb
        /\ selection' = selection /\ store' = store /\ revision' = revision /\ heard' = heard
    BY <1>1 DEF TraverseNothing, CloseHistoryGroup
  <2>2. QED
    BY <2>1 DEF Remembers, Told, Running
<1>2. CASE SetSelection
  <2>1. /\ phase = "idle" /\ phase' = phase /\ fsb' = fsb
        /\ store' = store /\ revision' = revision
        /\ \/ selection' = selection /\ heard' = heard
           \/ heard' = [heard EXCEPT !.selection = selection']
    BY <1>2 DEF SetSelection
  <2>2. fsb = None /\ heard = Told(selection)
    BY <2>1 DEF Remembers, Running
  <2>3. heard' = [store |-> store', revision |-> revision', selection |-> selection']
    BY <2>1, <2>2 DEF Told
  <2>4. QED
    BY <2>1, <2>2, <2>3, Forgotten DEF Running
<1>3. CASE PrepareCut
  <2>1. /\ phase = "idle" /\ phase' = "cut" /\ fsb' = fsb /\ begun' = Session
        /\ selection' = selection /\ store' = store /\ revision' = revision /\ heard' = heard
    BY <1>3 DEF PrepareCut
  <2>2. QED
    BY <2>1 DEF Remembers, Told, Running, Session
<1>4. CASE CancelCut
  <2>1. /\ phase = "cut" /\ phase' = "idle" /\ fsb' = fsb
        /\ selection' = selection /\ store' = store /\ revision' = revision /\ heard' = heard
    BY <1>4 DEF CancelCut
  <2>2. QED
    BY <2>1 DEF Remembers, Told, Running
<1>5. CASE CollapseCellRange
  <2>1. /\ phase = "intent" /\ phase' = "collapsed"
        /\ UNCHANGED <<store, revision, grouping, fsb, saved, begun, heard>>
    BY <1>5 DEF CollapseCellRange
  <2>2. QED
    BY <2>1 DEF Remembers, Told, Running
<1>6. QED
  BY <1>1, <1>2, <1>3, <1>4, <1>5

(* What a call remembers is right in every reachable state.                *)
LEMMA Remembered == Spec => [](IInv /\ Remembers)
<1>1. Init => IInv /\ Remembers
  BY InitOK DEF Init, Remembers, Told, Running
<1>2. IInv /\ Remembers /\ [Next]_vars => (IInv /\ Remembers)'
  <2>1. SUFFICES ASSUME IInv, Remembers, [Next]_vars PROVE Remembers'
    BY NextKeeps
  <2>2. CASE BeginIntent \/ BeginApply \/ TakeUndo \/ TakeRedo
    BY <2>1, <2>2, BeginRemembers
  <2>3. CASE NoChange \/ StorePendingMarks \/ Navigate \/ Fail \/ FailTraversal
    BY <2>1, <2>3, EndRemembers
  <2>4. CASE Commits \/ ReplayUndo \/ ReplayRedo \/ PublishCut
    BY <2>1, <2>4, PublishRemembers
  <2>5. CASE \/ TraverseNothing \/ CloseHistoryGroup \/ SetSelection
             \/ PrepareCut \/ CancelCut \/ CollapseCellRange
    BY <2>1, <2>5, OtherRemembers
  <2>6. CASE UNCHANGED vars
    BY <2>1, <2>6 DEF vars, Remembers, Told, Origin
  <2>7. QED
    BY <2>1, <2>2, <2>3, <2>4, <2>5, <2>6 DEF Next, Commits
<1>3. QED
  BY <1>1, <1>2, PTL DEF Spec

-----------------------------------------------------------------------------

(* Between calls, a listener knows the live document and selection from    *)
(* its notifications alone (listener.rs).                                  *)
THEOREM ListenersStayInSync == Spec => []ListenersInSync
<1>1. Remembers => ListenersInSync
  BY DEF Remembers, Told, ListenersInSync, Running
<1>2. QED
  BY <1>1, Remembered, PTL

(* finalize_edit is told the selection the outermost call found, whatever  *)
(* that call tried in between (finalization.rs).                           *)
THEOREM FinalizerSeesOrigin == Spec => []FinalizerSeesOuterSelection
<1>1. ASSUME IInv, Remembers PROVE FinalizerSeesOuterSelection
  <2>1. CASE phase \in Running
    <3>1. saved.selection \in Selections /\ None \notin Selections
      BY <1>1, <2>1, SentinelAssumption DEF IInv, CallOK, Transient
    <3>2. fsb = saved.selection /\ begun.selection = saved.selection
      BY <1>1, <2>1 DEF Remembers
    <3>3. QED
      BY <3>1, <3>2 DEF FinalizerSeesOuterSelection, FinalizerOrigin
  <2>2. CASE phase = "cut"
    <3>1. fsb = None /\ hsb = None /\ begun.selection = selection
      BY <1>1, <2>2 DEF Remembers, IInv, CallOK, Running
    <3>2. QED
      BY <3>1 DEF FinalizerSeesOuterSelection, FinalizerOrigin
  <2>3. phase \in Running \cup {"idle", "cut"}
    BY <1>1 DEF IInv, TypeOK, Phases, Running
  <2>4. QED
    BY <2>1, <2>2, <2>3 DEF FinalizerSeesOuterSelection
<1>2. QED
  BY <1>1, Remembered, PTL

-----------------------------------------------------------------------------

(* Recording pushes the entry itself or leaves the depth as it was         *)
(* (history.rs, HistoryStack::record).                                     *)
LEMMA RecordedPush ==
  ASSUME NEW stack \in Seq(HistoryEntry), NEW entry, NEW mayMerge,
         Len(Recorded(stack, entry, mayMerge)) > Len(stack)
  PROVE  Last(Recorded(stack, entry, mayMerge)) = entry
<1>1. CASE stack # <<>> /\ Recorded(stack, entry, mayMerge)
             = Append(Front(stack), MergeEntries(Last(stack), entry))
  <2>1. Front(stack) \in Seq(HistoryEntry) /\ Len(Front(stack)) = Len(stack) - 1
    BY <1>1 DEF Front
  <2>2. Len(Append(Front(stack), MergeEntries(Last(stack), entry))) = Len(stack)
    BY <2>1
  <2>3. QED
    BY <1>1, <2>2
<1>2. CASE Recorded(stack, entry, mayMerge) = Append(stack, entry)
  BY <1>2 DEF Last
<1>3. QED
  BY <1>1, <1>2 DEF Recorded

(* Undo of an operation returns to the selection the operation found, also *)
(* when it was planned at a target of its own; only the collapse of a cell *)
(* range, which replaces the selection, is left out (policy.rs, commit.rs).*)
THEOREM UndoReturns == Spec => UndoReturnsFromTarget
<1>1. ASSUME IInv, Remembers, [Next]_vars, Pushed, phase # "collapsed"
      PROVE  Last(undo').before = begun.selection
  <2>1. phase \in {"intent", "apply"} /\ undo' # undo /\ undo \in Seq(HistoryEntry)
    BY <1>1 DEF Pushed, IInv, TypeOK
  <2>2. Commits
    BY <1>1, <2>1 DEF Next, Commits, vars, BeginIntent, BeginApply, NoChange,
       StorePendingMarks, FinishUnchanged, CollapseCellRange, Navigate, Fail, Enter,
       TraverseNothing, TakeUndo, TakeRedo, ReplayUndo, ReplayRedo, FailTraversal,
       CloseHistoryGroup, SetSelection, PrepareCut, PublishCut, CancelCut
  <2>3. PICK g \in {grouping, Closed(grouping)}, group \in Group : \E final, time, m, tok :
          Publish(CandidateOf(final, group), g, time, m, tok)
    BY <1>1, <2>2, CommitPublishes
  <2>4. PICK final, time, m, tok : Publish(CandidateOf(final, group), g, time, m, tok)
    BY <2>3
  <2>5. undo' = Recorded(undo, EntryOf(final, group), MayMerge(g, EntryOf(final, group).group, time))
    BY <2>4 DEF Publish, PublishCandidate, CandidateOf
  <2>6. Last(undo') = EntryOf(final, group)
    BY <1>1, <2>1, <2>5, RecordedPush DEF Pushed
  <2>7. EntryOf(final, group).before = Origin
    BY DEF EntryOf, Origin
  <2>8. QED
    BY <1>1, <2>1, <2>6, <2>7 DEF Remembers, Running
<1>2. IInv /\ Remembers /\ [Next]_vars =>
        [Pushed /\ phase # "collapsed" => Last(undo').before = begun.selection]_vars
  BY <1>1
<1>3. QED
  BY <1>2, Remembered, PTL DEF Spec, UndoReturnsFromTarget

-----------------------------------------------------------------------------

\* One step of the clock's high-water mark.
HighKept == grouping.high # None => grouping'.high # None /\ grouping'.high >= grouping.high

(* A mark that stays where it was is kept.                                 *)
LEMMA SameHigh ==
  ASSUME IInv, grouping'.high = grouping.high
  PROVE  HighKept
BY DEF IInv, TypeOK, GroupingState, Option, HighKept

(* Recording never lowers the high-water mark (history.rs,                 *)
(* GroupingState::record).                                                 *)
LEMMA RecordKeepsHigh ==
  ASSUME IInv, NEW g \in {grouping, Closed(grouping)}, NEW group, NEW time,
         grouping' = GroupingAfter(g, group, time)
  PROVE  HighKept
<1>1. /\ grouping \in GroupingState /\ g \in GroupingState /\ g.high = grouping.high
      /\ Closed(g).high = g.high
  <2>1. grouping \in GroupingState
    BY DEF IInv, TypeOK
  <2>2. \A x \in GroupingState : Closed(x) \in GroupingState /\ Closed(x).high = x.high
    BY DEF Closed, GroupingState, Option
  <2>3. QED BY <2>1, <2>2
<1>2. CASE grouping' = Closed(g) \/ grouping' = [g EXCEPT !.open = TRUE, !.last = None]
  <2>1. grouping'.high = grouping.high
    BY <1>1, <1>2 DEF GroupingState
  <2>2. QED
    BY <2>1, SameHigh
<1>3. CASE ClockAccepts(g, time) /\ grouping' = [open |-> TRUE, last |-> time, high |-> time]
  BY <1>1, <1>3 DEF ClockAccepts, HighKept
<1>4. QED
  BY <1>2, <1>3 DEF GroupingAfter

(* The clock's high-water mark survives every boundary, rollback and       *)
(* traversal: no old timestamp ever looks recent (history.rs).             *)
THEOREM ClockRuns == Spec => ClockNeverRewinds
<1>1. ASSUME IInv, Remembers, [Next]_vars PROVE HighKept
  <2>1. grouping \in GroupingState /\ Closed(grouping).high = grouping.high
    BY <1>1, HighStays DEF IInv, TypeOK
  <2>2. CASE \/ BeginIntent \/ BeginApply \/ TakeUndo \/ TakeRedo \/ TraverseNothing
             \/ CloseHistoryGroup \/ SetSelection \/ PrepareCut \/ CancelCut
             \/ CollapseCellRange \/ ReplayUndo \/ ReplayRedo \/ UNCHANGED vars
    <3>1. grouping' \in {grouping, Closed(grouping)}
      BY <2>2 DEF BeginIntent, BeginApply, TakeUndo, TakeRedo, TraverseNothing,
         CloseHistoryGroup, SetSelection, PrepareCut, CancelCut, CollapseCellRange,
         ReplayUndo, ReplayRedo, vars
    <3>2. QED
      BY <1>1, <2>1, <3>1, SameHigh
  <2>3. CASE NoChange \/ StorePendingMarks \/ Navigate
    <3>1. Closed(Closed(grouping)) = Closed(grouping)
      BY <2>1 DEF Closed, GroupingState
    <3>2. grouping' \in {grouping, Closed(grouping)}
      BY <2>3, <3>1 DEF NoChange, StorePendingMarks, Navigate, FinishUnchanged
    <3>3. QED
      BY <1>1, <2>1, <3>2, SameHigh
  <2>4. CASE Fail \/ FailTraversal
    <3>1. phase \in Running /\ grouping' = saved.grouping
      BY <2>4 DEF Fail, FailTraversal, RestoreTransient, Running
    <3>2. QED
      BY <1>1, <3>1, SameHigh DEF Remembers
  <2>5. CASE Commits
    <3>1. PICK g \in {grouping, Closed(grouping)}, group \in Group : \E final, time, m, tok :
            Publish(CandidateOf(final, group), g, time, m, tok)
      BY <1>1, <2>5, CommitPublishes
    <3>2. PICK final, time, m, tok : Publish(CandidateOf(final, group), g, time, m, tok)
      BY <3>1
    <3>3. grouping' = GroupingAfter(g, CandidateOf(final, group).entry.group, time)
      BY <3>2 DEF Publish, PublishCandidate
    <3>4. QED
      BY <1>1, <3>3, RecordKeepsHigh
  <2>6. CASE PublishCut
    <3>1. grouping' = GroupingAfter(grouping, prepared.entry.group, None)
      BY <2>6 DEF PublishCut, PublishCandidate
    <3>2. QED
      BY <1>1, <3>1, RecordKeepsHigh
  <2>7. QED
    BY <1>1, <2>2, <2>3, <2>4, <2>5, <2>6 DEF Next, Commits
<1>2. IInv /\ Remembers /\ [Next]_vars => [HighKept]_vars
  BY <1>1
<1>3. QED
  BY <1>2, Remembered, PTL DEF Spec, ClockNeverRewinds, HighKept

-----------------------------------------------------------------------------
(* What outlives a call.                                                   *)

\* Pending marks with the locals of the running call.
MarksKept ==
  /\ marks # None => selection \in Carets
  /\ phase \in Running /\ saved.marks # None => saved.selection \in Carets
  /\ phase \in {"undoing", "redoing"} => marks = None

\* The final selection of a candidate that is published over pending marks.
LEMMA FinalOnCaret ==
  ASSUME NEW stages \in Stages, Last(stages).after \in Carets, NEW pending, pending # None,
         NEW final \in Finalizations(stages, pending)
  PROVE  Last(final).after \in Carets
<1>1. CASE final = stages
  BY <1>1
<1>2. ASSUME NEW a \in Amendments, Amends(a, stages, pending), final = Append(stages, a)
      PROVE  Last(final).after \in Carets
  <2>1. stages \in Seq(Plan) /\ a \in Plan
    BY PlanAssumption DEF Stages
  <2>2. Last(Append(stages, a)) = a
    BY <2>1 DEF Last
  <2>3. QED
    BY <1>2, <2>2 DEF Amends
<1>3. QED
  BY <1>1, <1>2 DEF Finalizations

(* A commit leaves pending marks on the caret it ends at, or none: the     *)
(* default commands that keep them end on a caret, amendments of those too,*)
(* and every explicit override is checked (dispatch.rs, finalization.rs,   *)
(* commit.rs).                                                             *)
LEMMA CommitMarks ==
  ASSUME IInv, Commits
  PROVE  phase' = "idle" /\ (marks' # None => selection' \in Carets)
<1>1. CASE CommitTyping \/ CommitInline
  <2>1. PICK stages, final, marksAfter, group, g, time :
          /\ stages \in Stages /\ Last(stages).after \in Carets
          /\ final \in Finalizations(stages, marks)
          /\ marksAfter \in {None, Keep}
          /\ Publish(CandidateOf(final, group), g, time, Override(marksAfter, marks), None)
    <3>1. CASE CommitTyping
      <4>1. PICK plan \in TypingPlans[selection], time \in Option(Times) :
            \E final \in Finalizations(<<plan>>, marks) :
              Publish(CandidateOf(final, plan.group), grouping, time,
                      Override(IF ConsumePending THEN None ELSE Keep, marks), None)
        BY <3>1 DEF CommitTyping
      <4>2. selection \in Selections
        BY DEF IInv, TypeOK
      <4>3. <<plan>> \in Stages /\ Last(<<plan>>).after \in Carets
        BY <4>1, <4>2, PlanAssumption, SingleStage DEF Last
      <4>4. (IF ConsumePending THEN None ELSE Keep) \in {None, Keep}
        OBVIOUS
      <4>5. QED
        BY <4>1, <4>3, <4>4
    <3>2. CASE CommitInline
      <4>1. PICK stages \in CaretPlans[selection], marksAfter \in {None, Keep} :
            \E final \in Finalizations(stages, marks) :
              Publish(CandidateOf(final, Isolated), Closed(grouping), None,
                      Override(marksAfter, marks), None)
        BY <3>2 DEF CommitInline
      <4>2. selection \in Selections
        BY DEF IInv, TypeOK
      <4>3. stages \in StagedPlans /\ Last(stages).after \in Carets
        BY <4>1, <4>2, PlanAssumption
      <4>4. stages \in Stages
        BY <4>3, StagedStages
      <4>5. QED
        BY <4>1, <4>3, <4>4
    <3>3. QED
      BY <1>1, <3>1, <3>2
  <2>2. phase' = "idle" /\ selection' = Last(final).after /\ marks' = Override(marksAfter, marks)
    BY <2>1 DEF Publish, PublishCandidate, CandidateOf, Leave
  <2>3. marks' # None => marks # None
    BY <2>1, <2>2 DEF Override
  <2>4. QED
    BY <2>1, <2>2, <2>3, FinalOnCaret
<1>2. CASE CommitStructural
  BY <1>2 DEF CommitStructural, Publish, PublishCandidate, Leave
<1>3. CASE CommitHostPlan \/ UndoInputRule
  <2>1. PICK final, marksAfter, group, tok :
          /\ OverrideAllowed(marksAfter, final)
          /\ Publish(CandidateOf(final, group), Closed(grouping), None,
                     Override(marksAfter, None), tok)
    BY <1>3 DEF CommitHostPlan, UndoInputRule
  <2>2. phase' = "idle" /\ selection' = Last(final).after /\ marks' = Override(marksAfter, None)
    BY <2>1 DEF Publish, PublishCandidate, CandidateOf, Leave
  <2>3. QED
    BY <2>1, <2>2 DEF Override, OverrideAllowed
<1>4. QED
  BY <1>1, <1>2, <1>3 DEF Commits

(* Every step keeps pending marks on a caret.                              *)
LEMMA NextKeepsMarks ==
  ASSUME IInv, MarksKept, [Next]_vars
  PROVE  MarksKept'
<1>1. CASE Commits
  BY <1>1, CommitMarks DEF MarksKept, Running
<1>2. CASE BeginIntent \/ BeginApply \/ TakeUndo \/ TakeRedo
  <2>1. /\ phase' \in Running
        /\ saved'.marks = marks /\ saved'.selection = selection
        /\ marks' = None \/ (marks' = marks /\ selection' = selection)
    BY <1>2 DEF BeginIntent, BeginApply, TakeUndo, TakeRedo, Enter, Running
  <2>2. phase' \in {"undoing", "redoing"} => marks' = None
    BY <1>2 DEF BeginIntent, BeginApply, TakeUndo, TakeRedo, Enter
  <2>3. QED
    BY <2>1, <2>2 DEF MarksKept
<1>3. CASE NoChange \/ StorePendingMarks \/ Navigate
  <2>1. /\ phase' = "idle"
        /\ marks' = None \/ (marks' = marks /\ selection' = selection) \/ selection' \in Carets
    BY <1>3 DEF NoChange, StorePendingMarks, Navigate, FinishUnchanged, Leave
  <2>2. QED
    BY <2>1 DEF MarksKept, Running
<1>4. CASE Fail \/ FailTraversal
  <2>1. /\ phase \in Running /\ phase' = "idle"
        /\ marks' = saved.marks /\ selection' = saved.selection
    BY <1>4 DEF Fail, FailTraversal, RestoreTransient, Leave, Running
  <2>2. QED
    BY <2>1 DEF MarksKept, Running
<1>5. CASE CollapseCellRange
  <2>1. /\ phase = "intent" /\ selection \in CellRanges
        /\ phase' = "collapsed" /\ marks' = marks /\ saved' = saved
    BY <1>5 DEF CollapseCellRange
  <2>2. marks = None
    BY <2>1, CellRangeAssumption DEF MarksKept
  <2>3. QED
    BY <2>1, <2>2 DEF MarksKept, Running
<1>6. CASE ReplayUndo \/ ReplayRedo
  <2>1. phase \in {"undoing", "redoing"} /\ phase' = "idle" /\ marks' = marks
    BY <1>6 DEF ReplayUndo, ReplayRedo, Leave
  <2>2. QED
    BY <2>1 DEF MarksKept, Running
<1>7. CASE TraverseNothing \/ CloseHistoryGroup \/ SetSelection \/ PrepareCut \/ CancelCut
  <2>1. /\ phase' \in {"idle", "cut"}
        /\ marks' = None \/ (marks' = marks /\ selection' = selection)
    BY <1>7 DEF TraverseNothing, CloseHistoryGroup, SetSelection, PrepareCut, CancelCut
  <2>2. QED
    BY <2>1 DEF MarksKept, Running
<1>8. CASE PublishCut
  BY <1>8 DEF PublishCut, PublishCandidate, MarksKept, Running
<1>9. CASE UNCHANGED vars
  BY <1>9 DEF vars, MarksKept
<1>10. QED
  BY <1>1, <1>2, <1>3, <1>4, <1>5, <1>6, <1>7, <1>8, <1>9 DEF Next, Commits

(* Pending marks exist only while a caret can hold them, inside calls and  *)
(* after every failure of one (stored_marks.rs).                           *)
THEOREM MarksStayOnCaret == Spec => []PendingMarksOnCaret
<1>1. Init => MarksKept
  BY DEF Init, MarksKept, Running
<1>2. IInv /\ MarksKept /\ [Next]_vars => MarksKept'
  BY NextKeepsMarks
<1>3. MarksKept => PendingMarksOnCaret
  BY DEF MarksKept, PendingMarksOnCaret
<1>4. QED
  BY <1>1, <1>2, <1>3, Inductive, PTL DEF Spec

-----------------------------------------------------------------------------

\* The open group with what a running call holds.
GroupOn(stack) == stack # <<>> /\ Last(stack).group # Isolated /\ redo = <<>>
GroupKept ==
  /\ grouping.open => GroupOn(undo)
  /\ phase \in {"intent", "collapsed", "apply"} /\ saved.grouping.open => GroupOn(undo)
  /\ phase = "undoing" /\ saved.grouping.open => taken.group # Isolated /\ redo = <<>>
  /\ phase = "redoing" => ~saved.grouping.open
  /\ phase \in {"undoing", "redoing"} => ~grouping.open

\* What is appended is last.
LEMMA AppendedIsLast ==
  ASSUME NEW S, NEW stack \in Seq(S), NEW top \in S
  PROVE  Append(stack, top) # <<>> /\ Last(Append(stack, top)) = top
BY DEF Last

\* A closed group is closed.
LEMMA ClosedIsClosed ==
  ASSUME NEW g \in GroupingState
  PROVE  ~Closed(g).open /\ Closed(g) \in GroupingState
BY DEF Closed, GroupingState, Option

(* An entry recorded as typing is the newest one, alone or merged          *)
(* (history.rs, HistoryStack::record).                                     *)
LEMMA RecordedIsTyping ==
  ASSUME NEW stack \in Seq(HistoryEntry), NEW entry, entry.group \in Group,
         entry.group # Isolated, NEW mayMerge
  PROVE  /\ Recorded(stack, entry, mayMerge) # <<>>
         /\ Last(Recorded(stack, entry, mayMerge)).group # Isolated
<1>1. ASSUME stack # <<>>, Continues(Last(stack), entry)
      PROVE  LET merged == MergeEntries(Last(stack), entry) IN
             Append(Front(stack), merged) # <<>> /\ Last(Append(Front(stack), merged)).group # Isolated
  <2> DEFINE merged == MergeEntries(Last(stack), entry)
  <2>1. Last(stack) \in HistoryEntry /\ Front(stack) \in Seq(HistoryEntry)
    BY <1>1 DEF Last, Front
  <2>2. Last(stack).group \in TypingGroup /\ entry.group \in TypingGroup
    BY <1>1, <2>1 DEF Continues, HistoryEntry, Group
  <2>3. merged.group \in TypingGroup
    BY <2>2 DEF MergeEntries, TypingGroup
  <2>4. merged.group # Isolated
    BY <2>3, SentinelAssumption DEF TypingGroup
  <2>5. Append(Front(stack), merged) # <<>> /\ Last(Append(Front(stack), merged)) = merged
    BY <2>1 DEF Last
  <2>6. QED
    BY <2>4, <2>5
<1>2. Append(stack, entry) # <<>> /\ Last(Append(stack, entry)) = entry
  BY DEF Last
<1>3. QED
  BY <1>1, <1>2 DEF Recorded

(* Publishing a candidate leaves a group open only on a typing entry.      *)
LEMMA PublishedGroup ==
  ASSUME IInv, NEW g \in GroupingState, NEW entry, entry.group \in Group, NEW time,
         undo' = Recorded(undo, entry, MayMerge(g, entry.group, time)),
         redo' = <<>>, grouping' = GroupingAfter(g, entry.group, time),
         phase' = "idle"
  PROVE  GroupKept'
<1>1. undo \in Seq(HistoryEntry)
  BY DEF IInv, TypeOK
<1>2. entry.group = Isolated => ~grouping'.open
  BY ClosedIsClosed DEF GroupingAfter
<1>3. entry.group # Isolated => undo' # <<>> /\ Last(undo').group # Isolated
  BY <1>1, RecordedIsTyping
<1>4. QED
  BY <1>2, <1>3 DEF GroupKept, GroupOn

(* Every step keeps an open group the newest entry.                        *)
LEMMA NextKeepsGroup ==
  ASSUME IInv, GroupKept, [Next]_vars
  PROVE  GroupKept'
<1>1. /\ grouping \in GroupingState /\ undo \in Seq(HistoryEntry) /\ redo \in Seq(HistoryEntry)
      /\ ~Closed(grouping).open /\ Closed(grouping) \in GroupingState
      /\ Closed(Closed(grouping)) = Closed(grouping)
  <2>1. grouping \in GroupingState /\ undo \in Seq(HistoryEntry) /\ redo \in Seq(HistoryEntry)
    BY DEF IInv, TypeOK
  <2>2. Closed(Closed(grouping)) = Closed(grouping)
    BY <2>1 DEF Closed, GroupingState
  <2>3. QED
    BY <2>1, <2>2, ClosedIsClosed
<1>2. CASE Commits
  <2>1. PICK g \in {grouping, Closed(grouping)}, group \in Group : \E final, time, m, tok :
          Publish(CandidateOf(final, group), g, time, m, tok)
    BY <1>2, CommitPublishes
  <2>2. PICK final, time, m, tok : Publish(CandidateOf(final, group), g, time, m, tok)
    BY <2>1
  <2>3. EntryOf(final, group).group = group
    BY DEF EntryOf
  <2>4. /\ undo' = Recorded(undo, EntryOf(final, group), MayMerge(g, group, time))
        /\ redo' = <<>> /\ grouping' = GroupingAfter(g, group, time) /\ phase' = "idle"
    BY <2>2, <2>3 DEF Publish, PublishCandidate, CandidateOf, Leave
  <2>5. QED
    BY <1>1, <2>1, <2>3, <2>4, PublishedGroup
<1>3. CASE PublishCut
  <2>1. prepared.entry.group \in Group
    BY <1>3 DEF PublishCut, IInv, CallOK, Candidate, HistoryEntry
  <2>2. QED
    BY <1>1, <1>3, <2>1, PublishedGroup DEF PublishCut, PublishCandidate
<1>4. CASE BeginIntent \/ BeginApply
  <2>1. /\ phase' \in {"intent", "apply"} /\ saved'.grouping = grouping
        /\ grouping' \in {grouping, Closed(grouping)} /\ undo' = undo /\ redo' = redo
    BY <1>4 DEF BeginIntent, BeginApply, Enter
  <2>2. QED
    BY <1>1, <2>1 DEF GroupKept, GroupOn
<1>5. CASE TakeUndo
  <2>1. /\ phase' = "undoing" /\ saved'.grouping = grouping /\ grouping' = Closed(grouping)
        /\ taken' = Last(undo) /\ redo' = redo
    BY <1>5 DEF TakeUndo, Enter
  <2>2. QED
    BY <1>1, <2>1 DEF GroupKept, GroupOn
<1>6. CASE TakeRedo
  <2>1. /\ phase' = "redoing" /\ saved'.grouping = grouping /\ grouping' = Closed(grouping)
        /\ redo # <<>>
    BY <1>6 DEF TakeRedo, Enter
  <2>2. QED
    BY <1>1, <2>1 DEF GroupKept, GroupOn
<1>7. CASE NoChange \/ StorePendingMarks \/ Navigate
  <2>1. /\ phase' = "idle" /\ undo' = undo /\ redo' = redo
        /\ grouping' \in {grouping, Closed(grouping)}
    BY <1>1, <1>7 DEF NoChange, StorePendingMarks, Navigate, FinishUnchanged, Leave
  <2>2. QED
    BY <1>1, <2>1 DEF GroupKept, GroupOn
<1>8. CASE Fail
  <2>1. /\ phase \in {"intent", "collapsed", "apply"} /\ phase' = "idle"
        /\ grouping' = saved.grouping /\ undo' = undo /\ redo' = redo
    BY <1>8 DEF Fail, RestoreTransient, Leave
  <2>2. QED
    BY <2>1 DEF GroupKept, GroupOn
<1>9. CASE FailTraversal
  <2>1. /\ phase \in {"undoing", "redoing"} /\ phase' = "idle" /\ grouping' = saved.grouping
        /\ phase = "undoing" => undo' = Append(undo, taken) /\ redo' = redo
    BY <1>9 DEF FailTraversal, RestoreTransient, Leave
  <2>2. taken \in HistoryEntry
    BY <2>1 DEF IInv, CallOK
  <2>3. Append(undo, taken) # <<>> /\ Last(Append(undo, taken)) = taken
    BY <1>1, <2>2, AppendedIsLast
  <2>4. QED
    BY <2>1, <2>3 DEF GroupKept, GroupOn
<1>10. CASE ReplayUndo \/ ReplayRedo
  <2>1. phase \in {"undoing", "redoing"} /\ phase' = "idle" /\ grouping' = grouping
    BY <1>10 DEF ReplayUndo, ReplayRedo, Leave
  <2>2. QED
    BY <2>1 DEF GroupKept
<1>11. CASE CollapseCellRange
  <2>1. /\ phase = "intent" /\ phase' = "collapsed"
        /\ UNCHANGED <<undo, redo, grouping, saved, taken>>
    BY <1>11 DEF CollapseCellRange
  <2>2. QED
    BY <2>1 DEF GroupKept, GroupOn
<1>12. CASE TraverseNothing \/ CloseHistoryGroup \/ SetSelection \/ PrepareCut \/ CancelCut
  <2>1. /\ phase' \in {"idle", "cut"} /\ undo' = undo /\ redo' = redo
        /\ grouping' \in {grouping, Closed(grouping)}
    BY <1>12 DEF TraverseNothing, CloseHistoryGroup, SetSelection, PrepareCut, CancelCut
  <2>2. QED
    BY <1>1, <2>1 DEF GroupKept, GroupOn
<1>13. CASE UNCHANGED vars
  BY <1>13 DEF vars, GroupKept, GroupOn
<1>14. QED
  BY <1>2, <1>3, <1>4, <1>5, <1>6, <1>7, <1>8, <1>9, <1>10, <1>11, <1>12, <1>13 DEF Next, Commits

(* An open typing group is the newest undo entry, a typing entry, with     *)
(* nothing left to redo: a keystroke can only extend the unit it continues *)
(* (history.rs).                                                           *)
THEOREM OpenGroupStaysNewest == Spec => []OpenGroupIsNewest
<1>1. Init => GroupKept
  BY DEF Init, GroupKept, NewGrouping
<1>2. IInv /\ GroupKept /\ [Next]_vars => GroupKept'
  BY NextKeepsGroup
<1>3. GroupKept => OpenGroupIsNewest
  BY DEF GroupKept, GroupOn, OpenGroupIsNewest
<1>4. QED
  BY <1>1, <1>2, <1>3, Inductive, PTL DEF Spec

-----------------------------------------------------------------------------
(* The answers of a call, and the timeline.                                *)


\* The running call remembers the whole session it found: what it has not
\* touched is still live, the rest is in its locals.
CallFound ==
  /\ phase \in Running =>
       /\ begun \in SessionState
       /\ begun.store = store /\ begun.revision = revision
       /\ begun.undo = UndoStack /\ begun.redo = RedoStack
       /\ begun.selection = saved.selection /\ begun.marks = saved.marks
       /\ begun.grouping = saved.grouping /\ begun.token = saved.token
       /\ grouping \in {saved.grouping, Closed(saved.grouping)}
       /\ token \in {None, saved.token}
  /\ phase = "cut" => begun = Session

\* A token that would be offered at selection s of the live document.
FreshAt(t, s) ==
  t # None =>
    /\ t.revision = revision
    /\ t.at = s
    /\ t.reversal.from = store
    /\ t.reversal.after \in ValidAt[t.reversal.to]
TokenKept ==
  /\ phase \notin Running => FreshAt(token, selection)
  /\ phase \in Running => FreshAt(saved.token, saved.selection)

\* The last keystroke of a unit is never newer than the clock.
Clocked(g) == g.last # None => g.high # None /\ g.last <= g.high
ClockOrdered ==
  /\ Clocked(grouping)
  /\ phase \in Running => Clocked(saved.grouping)

Honesty == CallFound /\ TokenKept /\ ClockOrdered

-----------------------------------------------------------------------------
(* What a commit publishes.                                                *)

(* Every commit publishes an applied candidate; a token it leaves is one   *)
(* its plan offers (commit.rs, commit_at and commit_staged).               *)
LEMMA CommitCandidate ==
  ASSUME IInv, Commits
  PROVE  \E final \in Stages, group \in Group, g \in {grouping, Closed(grouping)},
            time \in Option(Nat), m \in PendingMarks, tok \in Option(Token) :
           /\ Applies(final)
           /\ tok = None \/ tok \in Offers(final)
           /\ Publish(CandidateOf(final, group), g, time, m, tok)
<1>1. /\ marks \in PendingMarks /\ None \in PendingMarks /\ selection \in Selections
      /\ None \in Option(Token) /\ None \in Option(Nat) /\ Isolated \in Group
  BY DEF IInv, TypeOK, Option, PendingMarks, Group
<1>2. \A plan \in Plans : plan \in Plan /\ <<plan>> \in Stages /\ plan.group \in Group
  BY PlanAssumption, SingleStage DEF Plan
<1>3. CASE CommitTyping
  <2>1. PICK plan \in TypingPlans[selection], time \in Option(Times) :
          /\ Applies(<<plan>>)
          /\ \E final \in Finalizations(<<plan>>, marks) :
               Publish(CandidateOf(final, plan.group), grouping, time,
                       Override(IF ConsumePending THEN None ELSE Keep, marks), None)
    BY <1>3 DEF CommitTyping
  <2>2. PICK final \in Finalizations(<<plan>>, marks) :
          Publish(CandidateOf(final, plan.group), grouping, time,
                  Override(IF ConsumePending THEN None ELSE Keep, marks), None)
    BY <2>1
  <2>3. plan \in Plans /\ time \in Option(Nat)
    BY <1>1, PlanAssumption, OptionAssumption DEF Option
  <2>4. final \in Stages /\ Applies(final)
    BY <1>2, <2>1, <2>3, FinalApplies
  <2>5. Override(IF ConsumePending THEN None ELSE Keep, marks) \in PendingMarks
    BY <1>1, OverrideType
  <2>6. QED
    BY <1>1, <1>2, <2>2, <2>3, <2>4, <2>5
<1>4. CASE CommitInline
  <2>1. PICK stages \in CaretPlans[selection] :
          /\ Applies(stages)
          /\ \E final \in Finalizations(stages, marks), marksAfter \in PendingMarks \cup {Keep} :
               Publish(CandidateOf(final, Isolated), Closed(grouping), None,
                       Override(marksAfter, marks), None)
    BY <1>1, <1>4 DEF CommitInline
  <2>2. PICK final \in Finalizations(stages, marks), marksAfter \in PendingMarks \cup {Keep} :
          Publish(CandidateOf(final, Isolated), Closed(grouping), None,
                  Override(marksAfter, marks), None)
    BY <2>1
  <2>3. stages \in Stages
    BY <1>1, <2>1, PlanAssumption, StagedStages
  <2>4. final \in Stages /\ Applies(final)
    BY <2>1, <2>3, FinalApplies
  <2>5. Override(marksAfter, marks) \in PendingMarks
    BY <1>1, OverrideType
  <2>6. QED
    BY <1>1, <2>2, <2>4, <2>5
<1>5. CASE CommitStructural
  <2>1. PICK stages \in StructuralPlans :
          /\ Applies(stages)
          /\ \E final \in Finalizations(stages, None) :
               Publish(CandidateOf(final, Isolated), Closed(grouping), None, None, None)
    BY <1>5 DEF CommitStructural
  <2>2. PICK final \in Finalizations(stages, None) :
          Publish(CandidateOf(final, Isolated), Closed(grouping), None, None, None)
    BY <2>1
  <2>3. stages \in Stages
    BY PlanAssumption, StagedStages
  <2>4. final \in Stages /\ Applies(final)
    BY <2>1, <2>3, FinalApplies
  <2>5. QED
    BY <1>1, <2>2, <2>4
<1>6. CASE CommitHostPlan
  <2>1. PICK plan \in HostPlans :
          /\ Applies(<<plan>>)
          /\ \E final \in Finalizations(<<plan>>, None), marksAfter \in PendingMarks \cup {Keep} :
               \E tok \in Offers(final) :
                 Publish(CandidateOf(final, plan.group), Closed(grouping), None,
                         Override(marksAfter, None), tok)
    BY <1>6 DEF CommitHostPlan
  <2>2. PICK final \in Finalizations(<<plan>>, None), marksAfter \in PendingMarks \cup {Keep} :
          \E tok \in Offers(final) :
            Publish(CandidateOf(final, plan.group), Closed(grouping), None,
                    Override(marksAfter, None), tok)
    BY <2>1
  <2>3. PICK tok \in Offers(final) :
          Publish(CandidateOf(final, plan.group), Closed(grouping), None,
                  Override(marksAfter, None), tok)
    BY <2>2
  <2>4. plan \in Plans
    BY PlanAssumption
  <2>5. final \in Stages /\ Applies(final)
    BY <1>2, <2>1, <2>4, FinalApplies
  <2>6. Override(marksAfter, None) \in PendingMarks /\ tok \in Option(Token)
    BY <1>1, <2>5, OverrideType, OfferType DEF IInv
  <2>7. QED
    BY <1>1, <1>2, <2>3, <2>4, <2>5, <2>6
<1>7. CASE UndoInputRule
  <2>1. token \in Token /\ Applies(<<token.reversal>>)
    BY <1>7 DEF UndoInputRule, IInv, TypeOK, Option
  <2>2. PICK final \in Finalizations(<<token.reversal>>, None) :
          Publish(CandidateOf(final, Isolated), Closed(grouping), None,
                  Override(token.marks, None), None)
    BY <1>7 DEF UndoInputRule
  <2>3. token.reversal \in Plan /\ token.marks \in PendingMarks \cup {Keep}
    BY <2>1 DEF Token
  <2>4. final \in Stages /\ Applies(final)
    BY <2>1, <2>3, SingleStage, FinalApplies
  <2>5. Override(token.marks, None) \in PendingMarks
    BY <1>1, <2>3, OverrideType
  <2>6. QED
    BY <1>1, <2>2, <2>4, <2>5
<1>8. QED
  BY <1>3, <1>4, <1>5, <1>6, <1>7 DEF Commits

(* A token offered with a commit is fresh on the document it publishes     *)
(* (input_rule_undo.rs, prepare_input_rule_undo).                          *)
LEMMA OfferedIsFresh ==
  ASSUME NEW final, NEW tok, tok = None \/ tok \in Offers(final),
         revision' = RevisionOf(final),
         store' = Last(final).to, selection' = Last(final).after
  PROVE  tok # None =>
           /\ tok.revision = revision'
           /\ tok.at = selection'
           /\ tok.reversal.from = store'
           /\ tok.reversal.after \in ValidAt[tok.reversal.to]
BY DEF Offers

-----------------------------------------------------------------------------
(* The session a call found.                                               *)

(* Entering a call keeps the session it finds, stacks included.            *)
LEMMA EnterFinds ==
  ASSUME IInv, NEW p \in Running, Enter(p), store' = store, revision' = revision,
         UndoStack' = undo, RedoStack' = redo,
         grouping' \in {grouping, Closed(grouping)}, token' \in {None, token}
  PROVE  CallFound'
<1>1. /\ phase' = p
      /\ saved' = [selection |-> selection, marks |-> marks, grouping |-> grouping,
                   hsb |-> hsb, fsb |-> fsb, token |-> token]
      /\ begun' = Session
  BY DEF Enter
<1>2. Session \in SessionState
  BY DEF IInv, TypeOK, Session, SessionState
<1>3. /\ begun'.store = store /\ begun'.revision = revision
      /\ begun'.undo = undo /\ begun'.redo = redo
      /\ begun'.selection = selection /\ begun'.marks = marks
      /\ begun'.grouping = grouping /\ begun'.token = token
  BY <1>1 DEF Session
<1>4. saved'.selection = selection /\ saved'.marks = marks
      /\ saved'.grouping = grouping /\ saved'.token = token
  BY <1>1 DEF Session
<1>5. p # "cut"
  BY DEF Running
<1>6. QED
  BY <1>1, <1>2, <1>3, <1>4, <1>5 DEF CallFound

(* Taking an entry off a stack and holding it is no change of the stack.   *)
LEMMA HeldIsTop ==
  ASSUME NEW stack \in Seq(HistoryEntry), stack # <<>>
  PROVE  Append(Front(stack), Last(stack)) = stack
<1> DEFINE n == Len(stack)
           again == Append(Front(stack), Last(stack))
<1>1. /\ n \in Nat /\ n > 0 /\ Last(stack) = stack[n] /\ Last(stack) \in HistoryEntry
      /\ Front(stack) \in Seq(HistoryEntry) /\ Len(Front(stack)) = n - 1
      /\ \A i \in 1..(n - 1) : Front(stack)[i] = stack[i]
  BY FrontElements
<1>2. again \in Seq(HistoryEntry) /\ Len(again) = n
  BY <1>1
<1>3. ASSUME NEW i \in 1..n PROVE again[i] = stack[i]
  <2>1. CASE i = n
    BY <1>1, <2>1
  <2>2. CASE i # n
    BY <1>1, <2>2
  <2>3. QED
    BY <2>1, <2>2
<1> HIDE DEF again
<1>4. QED
  BY <1>2, <1>3 DEF again

(* Starting a call.                                                        *)
LEMMA BeginFinds ==
  ASSUME IInv, BeginIntent \/ BeginApply \/ TakeUndo \/ TakeRedo
  PROVE  CallFound'
<1>1. undo \in Seq(HistoryEntry) /\ redo \in Seq(HistoryEntry)
  BY DEF IInv, TypeOK
<1>2. CASE BeginIntent \/ BeginApply
  <2>1. PICK p \in {"intent", "apply"} : Enter(p)
    BY <1>2 DEF BeginIntent, BeginApply
  <2>2. /\ store' = store /\ revision' = revision /\ undo' = undo /\ redo' = redo
        /\ grouping' \in {grouping, Closed(grouping)} /\ token' \in {None, token}
    BY <1>2 DEF BeginIntent, BeginApply
  <2>3. UndoStack' = undo /\ RedoStack' = redo
    BY <2>1, <2>2 DEF Enter, UndoStack, RedoStack
  <2>4. QED
    BY <2>1, <2>2, <2>3, EnterFinds DEF Running
<1>3. CASE TakeUndo
  <2>1. /\ undo # <<>> /\ Enter("undoing") /\ phase' = "undoing"
        /\ taken' = Last(undo) /\ undo' = Front(undo) /\ redo' = redo
        /\ store' = store /\ revision' = revision
        /\ grouping' = Closed(grouping) /\ token' = token
    BY <1>3 DEF TakeUndo, Enter
  <2>2. UndoStack' = undo /\ RedoStack' = redo
    BY <1>1, <2>1, HeldIsTop DEF UndoStack, RedoStack
  <2>3. QED
    BY <2>1, <2>2, EnterFinds DEF Running
<1>4. CASE TakeRedo
  <2>1. /\ redo # <<>> /\ Enter("redoing") /\ phase' = "redoing"
        /\ taken' = Last(redo) /\ redo' = Front(redo) /\ undo' = undo
        /\ store' = store /\ revision' = revision
        /\ grouping' = Closed(grouping) /\ token' = token
    BY <1>4 DEF TakeRedo, Enter
  <2>2. UndoStack' = undo /\ RedoStack' = redo
    BY <1>1, <2>1, HeldIsTop DEF UndoStack, RedoStack
  <2>3. QED
    BY <2>1, <2>2, EnterFinds DEF Running
<1>5. QED
  BY <1>2, <1>3, <1>4

(* Inside a call, a collapse moves the selection and nothing that the call *)
(* remembers; a prepared cut remembers the session as it is.               *)
LEMMA InsideFinds ==
  ASSUME IInv, CallFound, CollapseCellRange \/ PrepareCut
  PROVE  CallFound'
<1>1. CASE CollapseCellRange
  <2>1. /\ phase = "intent" /\ phase' = "collapsed"
        /\ UNCHANGED <<store, revision, undo, redo, grouping, token, saved, begun>>
    BY <1>1 DEF CollapseCellRange
  <2>2. UndoStack' = UndoStack /\ RedoStack' = RedoStack
    BY <2>1 DEF UndoStack, RedoStack
  <2>3. QED
    BY <2>1, <2>2 DEF CallFound, Running
<1>2. CASE PrepareCut
  <2>1. /\ phase' = "cut" /\ begun' = Session
        /\ UNCHANGED <<store, revision, selection, undo, redo, grouping, marks, token>>
    BY <1>2 DEF PrepareCut
  <2>2. begun' = Session'
    BY <2>1 DEF Session
  <2>3. QED
    BY <2>1, <2>2 DEF CallFound, Running
<1>3. QED
  BY <1>1, <1>2

\* The steps that leave no call running.
Ends ==
  \/ Commits \/ NoChange \/ StorePendingMarks \/ Navigate \/ Fail \/ FailTraversal
  \/ ReplayUndo \/ ReplayRedo \/ TraverseNothing \/ CloseHistoryGroup \/ SetSelection
  \/ PublishCut \/ CancelCut

(* Every other step leaves the session idle.                               *)
LEMMA EndsIdle ==
  ASSUME IInv, Ends
  PROVE  phase' = "idle"
<1>1. CASE Commits
  BY <1>1, CommitCandidate DEF Publish, Leave
<1>2. CASE NoChange \/ StorePendingMarks \/ Navigate
  BY <1>2 DEF NoChange, StorePendingMarks, Navigate, FinishUnchanged, Leave
<1>3. CASE Fail \/ FailTraversal \/ ReplayUndo \/ ReplayRedo
  BY <1>3 DEF Fail, FailTraversal, ReplayUndo, ReplayRedo, Leave
<1>4. CASE TraverseNothing \/ CloseHistoryGroup \/ SetSelection \/ PublishCut \/ CancelCut
  BY <1>4 DEF TraverseNothing, CloseHistoryGroup, SetSelection, PublishCut, CancelCut
<1>5. QED
  BY <1>1, <1>2, <1>3, <1>4 DEF Ends

(* Every step keeps what the call found.                                   *)
LEMMA NextKeepsFound ==
  ASSUME IInv, CallFound, [Next]_vars
  PROVE  CallFound'
<1>1. CASE BeginIntent \/ BeginApply \/ TakeUndo \/ TakeRedo
  BY <1>1, BeginFinds
<1>2. CASE CollapseCellRange \/ PrepareCut
  BY <1>2, InsideFinds
<1>3. CASE Ends
  BY <1>3, EndsIdle DEF CallFound, Running
<1>4. CASE UNCHANGED vars
  BY <1>4 DEF vars, CallFound, UndoStack, RedoStack, Session
<1>5. QED
  BY <1>1, <1>2, <1>3, <1>4 DEF Next, Commits, Ends

-----------------------------------------------------------------------------
(* The token and the clock.                                                *)

(* Every step keeps the token where it was created.                        *)
LEMMA NextKeepsToken ==
  ASSUME IInv, CallFound, TokenKept, [Next]_vars
  PROVE  TokenKept'
<1>1. CASE BeginIntent \/ BeginApply \/ TakeUndo \/ TakeRedo
  <2>1. /\ phase = "idle" /\ phase' \in Running
        /\ saved'.token = token /\ saved'.selection = selection
        /\ store' = store /\ revision' = revision
    BY <1>1 DEF BeginIntent, BeginApply, TakeUndo, TakeRedo, Enter, Running
  <2>2. FreshAt(token, selection)
    BY <2>1 DEF TokenKept, Running
  <2>3. QED
    BY <2>1, <2>2 DEF TokenKept, FreshAt
<1>2. CASE CollapseCellRange
  <2>1. /\ phase \in Running /\ phase' \in Running
        /\ saved' = saved /\ store' = store /\ revision' = revision
    BY <1>2 DEF CollapseCellRange, Running
  <2>2. QED
    BY <2>1 DEF TokenKept, FreshAt
<1>3. CASE Commits
  <2>1. PICK final \in Stages, group \in Group, g \in {grouping, Closed(grouping)},
             time \in Option(Nat), m \in PendingMarks, tok \in Option(Token) :
          /\ tok = None \/ tok \in Offers(final)
          /\ Publish(CandidateOf(final, group), g, time, m, tok)
    BY <1>3, CommitCandidate
  <2>2. /\ phase' = "idle" /\ revision' = RevisionOf(final)
        /\ store' = Last(final).to /\ selection' = Last(final).after /\ token' = tok
    BY <2>1 DEF Publish, PublishCandidate, CandidateOf, Leave
  <2>3. QED
    BY <2>1, <2>2, OfferedIsFresh DEF TokenKept, FreshAt, Running
<1>4. CASE NoChange \/ StorePendingMarks \/ Navigate
  <2>1. /\ phase \in Running /\ phase' = "idle" /\ store' = store /\ revision' = revision
        /\ token' = None \/ (token' = token /\ selection' = saved.selection)
    BY <1>4 DEF NoChange, StorePendingMarks, Navigate, FinishUnchanged, Leave, Running
  <2>2. token \in {None, saved.token} /\ FreshAt(saved.token, saved.selection)
    BY <2>1 DEF CallFound, TokenKept
  <2>3. QED
    BY <2>1, <2>2 DEF TokenKept, FreshAt, Running
<1>5. CASE Fail \/ FailTraversal
  <2>1. /\ phase \in Running /\ phase' = "idle" /\ store' = store /\ revision' = revision
        /\ token' = saved.token /\ selection' = saved.selection
    BY <1>5 DEF Fail, FailTraversal, RestoreTransient, Leave, Running
  <2>2. QED
    BY <2>1 DEF TokenKept, FreshAt, Running
<1>6. CASE ReplayUndo \/ ReplayRedo \/ SetSelection \/ PublishCut
  <2>1. phase' = "idle" /\ token' = None
    BY <1>6 DEF ReplayUndo, ReplayRedo, Replay, Leave, SetSelection, PublishCut, PublishCandidate
  <2>2. QED
    BY <2>1 DEF TokenKept, FreshAt, Running
<1>7. CASE TraverseNothing \/ CloseHistoryGroup \/ PrepareCut \/ CancelCut
  <2>1. /\ phase \notin Running /\ phase' \notin Running
        /\ UNCHANGED <<store, revision, selection, token>>
    BY <1>7 DEF TraverseNothing, CloseHistoryGroup, PrepareCut, CancelCut, Running
  <2>2. QED
    BY <2>1 DEF TokenKept, FreshAt
<1>8. CASE UNCHANGED vars
  BY <1>8 DEF vars, TokenKept, FreshAt
<1>9. QED
  BY <1>1, <1>2, <1>3, <1>4, <1>5, <1>6, <1>7, <1>8 DEF Next, Commits

(* Closing and recording keep the last keystroke inside the clock          *)
(* (history.rs, GroupingState::close and record).                          *)
LEMMA GroupingClocked ==
  ASSUME NEW g \in GroupingState, Clocked(g), NEW group, NEW time \in Option(Nat)
  PROVE  Clocked(Closed(g)) /\ Clocked(GroupingAfter(g, group, time))
<1>1. Clocked(Closed(g))
  BY DEF Clocked, Closed, GroupingState
<1>2. Clocked([g EXCEPT !.open = TRUE, !.last = None])
  BY DEF Clocked, GroupingState
<1>3. ASSUME ClockAccepts(g, time)
      PROVE  Clocked([open |-> TRUE, last |-> time, high |-> time])
  BY <1>3 DEF Clocked, ClockAccepts, Option
<1>4. QED
  BY <1>1, <1>2, <1>3 DEF GroupingAfter

(* Every step keeps the clock ahead of the last keystroke.                 *)
LEMMA NextKeepsClock ==
  ASSUME IInv, ClockOrdered, [Next]_vars
  PROVE  ClockOrdered'
<1>1. /\ grouping \in GroupingState /\ Clocked(grouping)
      /\ Closed(grouping) \in GroupingState /\ Clocked(Closed(grouping))
      /\ Closed(Closed(grouping)) = Closed(grouping)
  <2>1. grouping \in GroupingState /\ Clocked(grouping)
    BY DEF IInv, TypeOK, ClockOrdered
  <2>2. Closed(Closed(grouping)) = Closed(grouping)
    BY <2>1 DEF Closed, GroupingState
  <2>3. QED
    BY <2>1, <2>2, ClosedIsClosed, GroupingClocked DEF Option
<1>2. CASE BeginIntent \/ BeginApply \/ TakeUndo \/ TakeRedo
  <2>1. saved'.grouping = grouping /\ grouping' \in {grouping, Closed(grouping)}
    BY <1>2 DEF BeginIntent, BeginApply, TakeUndo, TakeRedo, Enter
  <2>2. QED
    BY <1>1, <2>1 DEF ClockOrdered
<1>3. CASE CollapseCellRange
  <2>1. phase \in Running /\ saved' = saved /\ grouping' = grouping
    BY <1>3 DEF CollapseCellRange, Running
  <2>2. QED
    BY <1>1, <2>1 DEF ClockOrdered
<1>4. CASE Ends
  <2>1. Clocked(grouping')
    <3>1. CASE Commits
      <4>1. PICK final \in Stages, group \in Group, g \in {grouping, Closed(grouping)},
                 time \in Option(Nat), m \in PendingMarks, tok \in Option(Token) :
              Publish(CandidateOf(final, group), g, time, m, tok)
        BY <3>1, CommitCandidate
      <4>2. grouping' = GroupingAfter(g, CandidateOf(final, group).entry.group, time)
        BY <4>1 DEF Publish, PublishCandidate
      <4>3. g \in GroupingState /\ Clocked(g)
        BY <1>1, <4>1
      <4>4. QED
        BY <4>2, <4>3, GroupingClocked
    <3>2. CASE PublishCut
      <4>1. grouping' = GroupingAfter(grouping, prepared.entry.group, None)
        BY <3>2 DEF PublishCut, PublishCandidate
      <4>2. QED
        BY <1>1, <4>1, GroupingClocked DEF Option
    <3>3. CASE Fail \/ FailTraversal
      <4>1. phase \in Running /\ grouping' = saved.grouping
        BY <3>3 DEF Fail, FailTraversal, RestoreTransient, Running
      <4>2. QED
        BY <4>1 DEF ClockOrdered
    <3>4. CASE NoChange \/ StorePendingMarks \/ Navigate
      <4>1. grouping' \in {grouping, Closed(grouping)}
        BY <1>1, <3>4 DEF NoChange, StorePendingMarks, Navigate, FinishUnchanged
      <4>2. QED
        BY <1>1, <4>1
    <3>5. CASE \/ ReplayUndo \/ ReplayRedo \/ TraverseNothing \/ CloseHistoryGroup
               \/ SetSelection \/ CancelCut
      <4>1. grouping' \in {grouping, Closed(grouping)}
        BY <3>5 DEF ReplayUndo, ReplayRedo, TraverseNothing, CloseHistoryGroup,
           SetSelection, CancelCut
      <4>2. QED
        BY <1>1, <4>1
    <3>6. QED
      BY <1>4, <3>1, <3>2, <3>3, <3>4, <3>5 DEF Ends
  <2>2. QED
    BY <1>4, <2>1, EndsIdle DEF ClockOrdered, Running
<1>5. CASE PrepareCut
  BY <1>1, <1>5 DEF PrepareCut, ClockOrdered, Running
<1>6. CASE UNCHANGED vars
  BY <1>6 DEF vars, ClockOrdered
<1>7. QED
  BY <1>2, <1>3, <1>4, <1>5, <1>6 DEF Next, Commits, Ends

(* What a call found, the token and the clock, in every reachable state.   *)
LEMMA HonestyHolds == Spec => [](IInv /\ Honesty)
<1>1. Init => IInv /\ Honesty
  BY InitOK DEF Init, Honesty, CallFound, TokenKept, FreshAt, ClockOrdered, Clocked,
     NewGrouping, Running
<1>2. IInv /\ Honesty /\ [Next]_vars => (IInv /\ Honesty)'
  BY NextKeeps, NextKeepsFound, NextKeepsToken, NextKeepsClock DEF Honesty
<1>3. QED
  BY <1>1, <1>2, PTL DEF Spec

(* Between calls a token is only offered where it was created: on the same *)
(* snapshot, at the same selection, with a reversal that still runs        *)
(* (input_rule_undo.rs).                                                   *)
THEOREM TokenStaysFresh == Spec => []TokenIsFresh
<1>1. Honesty => TokenIsFresh
  BY DEF Honesty, TokenKept, FreshAt, TokenIsFresh, Running
<1>2. QED
  BY <1>1, HonestyHolds, PTL

-----------------------------------------------------------------------------
(* Answers.                                                                *)

(* A rolled-back call leaves the session it found, a rejected traversal    *)
(* with its entry where it was (policy.rs, with_transient_rollback).       *)
LEMMA FailureRestores ==
  ASSUME IInv, CallFound, Fail \/ FailTraversal
  PROVE  outcome' = "Error" /\ phase # "idle" /\ Session' = begun
<1>1. /\ phase \in Running /\ phase # "idle" /\ outcome' = "Error"
      /\ store' = store /\ revision' = revision
      /\ selection' = saved.selection /\ marks' = saved.marks
      /\ grouping' = saved.grouping /\ token' = saved.token
  BY DEF Fail, FailTraversal, RestoreTransient, Leave, Running
<1>2. undo' = UndoStack /\ redo' = RedoStack
  BY DEF Fail, FailTraversal, UndoStack, RedoStack
<1>3. /\ begun \in SessionState
      /\ begun.store = store /\ begun.revision = revision
      /\ begun.undo = UndoStack /\ begun.redo = RedoStack
      /\ begun.selection = saved.selection /\ begun.marks = saved.marks
      /\ begun.grouping = saved.grouping /\ begun.token = saved.token
  BY <1>1 DEF CallFound
<1>4. begun = [store |-> begun.store, revision |-> begun.revision,
               selection |-> begun.selection, undo |-> begun.undo, redo |-> begun.redo,
               grouping |-> begun.grouping, marks |-> begun.marks, token |-> begun.token]
  BY <1>3 DEF SessionState
<1>5. Session' = [store |-> store', revision |-> revision', selection |-> selection',
                  undo |-> undo', redo |-> redo', grouping |-> grouping',
                  marks |-> marks', token |-> token']
  BY DEF Session
<1>6. QED
  BY <1>1, <1>2, <1>3, <1>4, <1>5

(* What an intent that committed nothing answers.                          *)
LEMMA UnchangedAnswers ==
  ASSUME IInv, CallFound, NoChange \/ StorePendingMarks \/ Navigate
  PROVE  /\ phase # "idle"
         /\ <<store', revision', undo', redo'>> =
              <<begun.store, begun.revision, begun.undo, begun.redo>>
         /\ \/ outcome' = "NoChange" /\ selection' = begun.selection /\ heard' = heard
            \/ outcome' = "SelectionChanged"
<1>1. /\ phase \in {"intent", "collapsed"}
      /\ UNCHANGED <<store, revision, undo, redo>>
      /\ \/ outcome' = "NoChange" /\ selection' = saved.selection /\ heard' = heard
         \/ outcome' = "SelectionChanged"
  BY DEF NoChange, StorePendingMarks, Navigate, FinishUnchanged, Leave
<1>2. /\ begun.store = store /\ begun.revision = revision
      /\ begun.undo = undo /\ begun.redo = redo /\ begun.selection = saved.selection
  BY <1>1 DEF CallFound, UndoStack, RedoStack, Running
<1>3. QED
  BY <1>1, <1>2

(* Appending an entry keeps the stack below it.                            *)
LEMMA AppendKeepsFront ==
  ASSUME NEW stack \in Seq(HistoryEntry), NEW entry \in HistoryEntry
  PROVE  Append(stack, entry) # <<>> /\ Front(Append(stack, entry)) = stack
<1> DEFINE n == Len(stack)
           more == Append(stack, entry)
<1>1. /\ n \in Nat /\ more \in Seq(HistoryEntry) /\ more # <<>> /\ Len(more) = n + 1
      /\ \A i \in 1..n : more[i] = stack[i]
  BY AppendProperties
<1> HIDE DEF more
<1>2. /\ Front(more) \in Seq(HistoryEntry) /\ Len(Front(more)) = n
      /\ \A i \in 1..n : Front(more)[i] = more[i]
  <2>1. Len(more) - 1 = n
    BY <1>1
  <2>2. QED
    BY <1>1, <2>1, FrontElements
<1>3. Front(more) = stack
  BY <1>1, <1>2
<1>4. QED
  BY <1>1, <1>3 DEF more

(* Recording touches the newest unit at most (history.rs, record).         *)
LEMMA RecordedOnTop ==
  ASSUME NEW stack \in Seq(HistoryEntry), NEW entry \in HistoryEntry, NEW mayMerge
  PROVE  /\ Recorded(stack, entry, mayMerge) # <<>>
         /\ Front(Recorded(stack, entry, mayMerge)) \in {stack, Front(stack)}
<1>1. CASE mayMerge /\ stack # <<>> /\ Continues(Last(stack), entry)
  <2>1. Front(stack) \in Seq(HistoryEntry) /\ Last(stack) \in HistoryEntry
    BY <1>1, FrontElements
  <2>2. MergeEntries(Last(stack), entry) \in HistoryEntry
    BY <1>1, <2>1, MergeType
  <2>3. QED
    BY <1>1, <2>1, <2>2, AppendKeepsFront DEF Recorded
<1>2. CASE ~(mayMerge /\ stack # <<>> /\ Continues(Last(stack), entry))
  BY <1>2, AppendKeepsFront DEF Recorded
<1>3. QED
  BY <1>1, <1>2

(* A candidate with a later revision is published as a document change: as *)
(* one unit of history, in however many transactions it was made           *)
(* (commit.rs, publish_prepared_commit).                                   *)
LEMMA CandidateAnswers ==
  ASSUME IInv, CallFound, NEW candidate \in Candidate, candidate.revision > revision,
         phase \in Running \cup {"cut"}, phase \notin {"undoing", "redoing"},
         NEW g, NEW time, NEW m, NEW tok, PublishCandidate(candidate, g, time, m, tok)
  PROVE  revision' > begun.revision /\ OneUnitMoved
<1> DEFINE mayMerge == MayMerge(g, candidate.entry.group, time)
<1>1. /\ revision' = candidate.revision /\ redo' = <<>>
      /\ undo' = Recorded(undo, candidate.entry, mayMerge)
  BY DEF PublishCandidate
<1>2. begun.revision = revision /\ begun.undo = undo
  BY DEF CallFound, UndoStack, Session, Running
<1>3. undo \in Seq(HistoryEntry) /\ candidate.entry \in HistoryEntry
  BY DEF IInv, TypeOK, Candidate
<1> HIDE DEF mayMerge
<1>4. undo' # <<>> /\ Front(undo') \in {undo, Front(undo)}
  BY <1>1, <1>3, RecordedOnTop
<1>5. phase # "idle"
  BY DEF Running
<1>6. OneUnitMoved
  BY <1>1, <1>2, <1>4, <1>5 DEF OneUnitMoved, Found
<1>7. QED
  BY <1>1, <1>2, <1>6

(* A traversal moves one unit from one stack to the other (mod.rs,         *)
(* undo_inner and redo_inner).                                             *)
LEMMA ReplayAnswers ==
  ASSUME IInv, CallFound, ReplayUndo \/ ReplayRedo
  PROVE  revision' > begun.revision /\ OneUnitMoved
<1> DEFINE back == Undone(taken)
           ahead == Redone(taken)
<1>0. /\ phase \in {"undoing", "redoing"} /\ revision' = revision + 1 /\ revision \in Nat
      /\ undo \in Seq(HistoryEntry) /\ redo \in Seq(HistoryEntry) /\ selection \in Selections
      /\ taken \in HistoryEntry
  BY DEF ReplayUndo, ReplayRedo, Replay, IInv, TypeOK, CallOK
<1>1. /\ revision' > revision /\ phase # "idle"
      /\ undo \in Seq(HistoryEntry) /\ redo \in Seq(HistoryEntry) /\ taken \in HistoryEntry
      /\ back \in HistoryEntry /\ ahead \in HistoryEntry
  BY <1>0 DEF Undone, Redone, HistoryEntry
<1>2. begun.revision = revision /\ begun.undo = UndoStack /\ begun.redo = RedoStack
  BY <1>0 DEF CallFound, Running
<1>3. CASE ReplayUndo
  <2>1. phase = "undoing" /\ undo' = undo /\ redo' = Append(redo, back)
    BY <1>3 DEF ReplayUndo
  <2>2. begun.undo = Append(undo, taken) /\ begun.redo = redo
    BY <1>2, <2>1 DEF UndoStack, RedoStack
  <2>3. begun.undo # <<>> /\ Front(begun.undo) = undo /\ redo' # <<>> /\ Front(redo') = redo
    BY <1>1, <2>1, <2>2, AppendKeepsFront
  <2>4. QED
    BY <1>1, <1>2, <2>1, <2>2, <2>3 DEF OneUnitMoved, Found
<1>4. CASE ReplayRedo
  <2>1. phase = "redoing" /\ redo' = redo /\ undo' = Append(undo, ahead)
    BY <1>4 DEF ReplayRedo
  <2>2. begun.redo = Append(redo, taken) /\ begun.undo = undo
    BY <1>2, <2>1 DEF UndoStack, RedoStack
  <2>3. begun.redo # <<>> /\ Front(begun.redo) = redo /\ undo' # <<>> /\ Front(undo') = undo
    BY <1>1, <2>1, <2>2, AppendKeepsFront
  <2>4. QED
    BY <1>1, <1>2, <2>1, <2>2, <2>3 DEF OneUnitMoved, Found
<1>5. QED
  BY <1>3, <1>4

(* Publishing a document is a later revision and one unit of history.      *)
LEMMA PublishAnswers ==
  ASSUME IInv, CallFound, Commits \/ ReplayUndo \/ ReplayRedo \/ PublishCut
  PROVE  /\ phase # "idle" /\ outcome' = "DocumentChanged"
         /\ revision' > begun.revision /\ OneUnitMoved
<1>1. CASE Commits
  <2>1. PICK final \in Stages, group \in Group, g \in {grouping, Closed(grouping)},
             time \in Option(Nat), m \in PendingMarks, tok \in Option(Token) :
          Publish(CandidateOf(final, group), g, time, m, tok)
    BY <1>1, CommitCandidate
  <2>2. phase \in {"intent", "collapsed", "apply"}
    BY <1>1, CommitPublishes
  <2>3. CandidateOf(final, group) \in Candidate
    BY CandidateType DEF IInv
  <2>4. CandidateOf(final, group).revision > revision
    BY RevisionGrows DEF IInv, CandidateOf
  <2>5. /\ PublishCandidate(CandidateOf(final, group), g, time, m, tok)
        /\ outcome' = "DocumentChanged"
    BY <2>1 DEF Publish, Leave
  <2>6. QED
    BY <2>2, <2>3, <2>4, <2>5, CandidateAnswers DEF Running
<1>2. CASE ReplayUndo \/ ReplayRedo
  <2>1. phase # "idle" /\ outcome' = "DocumentChanged"
    BY <1>2 DEF ReplayUndo, ReplayRedo, Leave
  <2>2. QED
    BY <1>2, <2>1, ReplayAnswers
<1>3. CASE PublishCut
  <2>1. /\ phase = "cut" /\ outcome' = "DocumentChanged"
        /\ PublishCandidate(prepared, grouping, None, None, None)
    BY <1>3 DEF PublishCut
  <2>2. prepared \in Candidate /\ prepared.revision > revision
    BY <2>1 DEF IInv, CallOK
  <2>3. QED
    BY <2>1, <2>2, CandidateAnswers
<1>4. QED
  BY <1>1, <1>2, <1>3

(* The calls of one step answer for the session they found.                *)
LEMMA DirectAnswers ==
  ASSUME IInv, CallFound, TraverseNothing \/ CloseHistoryGroup \/ SetSelection \/ CancelCut
  PROVE  Honest(outcome')
<1>1. CASE TraverseNothing
  <2>1. /\ phase = "idle" /\ outcome' = "NoChange"
        /\ UNCHANGED <<store, revision, selection, undo, redo, heard>>
    BY <1>1 DEF TraverseNothing
  <2>2. QED
    BY <2>1 DEF Honest, Found, Session
<1>2. CASE CloseHistoryGroup \/ CancelCut
  <2>1. outcome' = "None" /\ UNCHANGED <<store, revision, selection>>
    BY <1>2 DEF CloseHistoryGroup, CancelCut
  <2>2. QED
    BY <2>1 DEF Honest
<1>3. CASE SetSelection
  <2>1. /\ phase = "idle" /\ UNCHANGED <<store, revision, undo, redo>>
        /\ \/ outcome' = "NoChange" /\ selection' = selection /\ heard' = heard
           \/ outcome' = "SelectionChanged"
    BY <1>3 DEF SetSelection
  <2>2. QED
    BY <2>1 DEF Honest, Found, Session
<1>4. QED
  BY <1>1, <1>2, <1>3

(* What a call answers is what happened: an error leaves the session       *)
(* exactly as the call found it, a no-op and a selection change leave      *)
(* document and history, a document change, staged, amended or replayed,   *)
(* is a later revision and moves one unit of history (outcome.rs).         *)
THEOREM OutcomesAreHonest == Spec => OutcomeIsHonest
<1>1. ASSUME IInv, Honesty, Next, phase' = "idle" PROVE Honest(outcome')
  <2>1. CASE Fail \/ FailTraversal
    BY <1>1, <2>1, FailureRestores DEF Honesty, Honest, Found
  <2>2. CASE NoChange \/ StorePendingMarks \/ Navigate
    BY <1>1, <2>2, UnchangedAnswers DEF Honesty, Honest, Found
  <2>3. CASE Commits \/ ReplayUndo \/ ReplayRedo \/ PublishCut
    BY <1>1, <2>3, PublishAnswers DEF Honesty, Honest, Found
  <2>4. CASE TraverseNothing \/ CloseHistoryGroup \/ SetSelection \/ CancelCut
    BY <1>1, <2>4, DirectAnswers DEF Honesty
  <2>5. CASE BeginIntent \/ BeginApply \/ TakeUndo \/ TakeRedo \/ CollapseCellRange \/ PrepareCut
    BY <1>1, <2>5 DEF BeginIntent, BeginApply, TakeUndo, TakeRedo, CollapseCellRange,
       PrepareCut, Enter
  <2>6. QED
    BY <1>1, <2>1, <2>2, <2>3, <2>4, <2>5 DEF Next, Commits
<1>2. IInv /\ Honesty /\ [Next]_vars => [phase' = "idle" => Honest(outcome')]_vars
  BY <1>1
<1>3. QED
  BY <1>2, HonestyHolds, PTL DEF Spec, OutcomeIsHonest

(* Recording adds one entry, or extends the newest one when time and place *)
(* let it (history.rs, HistoryStack::record).                              *)
LEMMA RecordedExtends ==
  ASSUME NEW stack \in Seq(HistoryEntry), NEW entry, NEW mayMerge,
         Len(Recorded(stack, entry, mayMerge)) = Len(stack)
  PROVE  mayMerge
<1>1. Len(Append(stack, entry)) = Len(stack) + 1 /\ Len(stack) \in Nat
  OBVIOUS
<1>2. QED
  BY <1>1 DEF Recorded

(* Keystrokes share an undo unit only while its group is open and, with a  *)
(* delay, only within it, on a clock that never ran backwards (history.rs, *)
(* GroupingState::record).                                                 *)
THEOREM UnitsKeepDelay == Spec => UnitsRespectDelay
<1>1. ASSUME IInv, Honesty, Next, Extends
      PROVE  /\ begun.grouping.open
             /\ Delay # None => grouping'.last - begun.grouping.last \in 0..Delay
  <2>1. /\ phase \in {"intent", "apply"} /\ phase \in Running
        /\ revision' # revision /\ Len(undo') = Len(undo)
        /\ undo \in Seq(HistoryEntry) /\ grouping \in GroupingState
    BY <1>1 DEF Extends, Running, IInv, TypeOK
  <2>2. Commits
    BY <1>1, <2>1 DEF Next, Commits, BeginIntent, BeginApply, NoChange,
       StorePendingMarks, FinishUnchanged, CollapseCellRange, Navigate, Fail, Enter,
       TraverseNothing, TakeUndo, TakeRedo, ReplayUndo, ReplayRedo, FailTraversal,
       CloseHistoryGroup, SetSelection, PrepareCut, PublishCut, CancelCut
  <2>3. PICK final \in Stages, group \in Group, g \in {grouping, Closed(grouping)},
             time \in Option(Nat), m \in PendingMarks, tok \in Option(Token) :
          Publish(CandidateOf(final, group), g, time, m, tok)
    BY <1>1, <2>2, CommitCandidate
  <2>4. EntryOf(final, group).group = group
    BY DEF EntryOf
  <2>5. /\ undo' = Recorded(undo, EntryOf(final, group), MayMerge(g, group, time))
        /\ grouping' = GroupingAfter(g, group, time)
    BY <2>3, <2>4 DEF Publish, PublishCandidate, CandidateOf
  <2>6. MayMerge(g, group, time)
    BY <2>1, <2>5, RecordedExtends
  <2>7. g.open /\ group # Isolated
    BY <2>6 DEF MayMerge
  <2>8. g = grouping
    BY <2>1, <2>3, <2>7, ClosedIsClosed
  <2>9. begun.grouping = grouping
    <3>1. grouping \in {saved.grouping, Closed(saved.grouping)} /\ begun.grouping = saved.grouping
      BY <1>1, <2>1 DEF Honesty, CallFound
    <3>2. saved.grouping \in GroupingState
      BY <1>1, <2>1 DEF IInv, CallOK, Transient
    <3>3. QED
      BY <2>7, <2>8, <3>1, <3>2, ClosedIsClosed
  <2>10. ASSUME Delay # None
         PROVE  grouping'.last - grouping.last \in 0..Delay
    <3>1. /\ ClockAccepts(grouping, time) /\ grouping.last # None
          /\ time - grouping.last <= Delay
      BY <2>6, <2>8, <2>10 DEF MayMerge
    <3>2. grouping'.last = time
      BY <2>5, <2>7, <2>8, <2>10, <3>1 DEF GroupingAfter
    <3>3. grouping.high # None /\ grouping.last <= grouping.high
      BY <1>1, <3>1 DEF Honesty, ClockOrdered, Clocked
    <3>4. /\ time \in Nat /\ grouping.last \in Nat /\ grouping.high \in Nat
          /\ time >= grouping.high /\ Delay \in Nat
      BY <2>1, <2>10, <3>1, <3>3, DelayAssumption DEF ClockAccepts, GroupingState, Option
    <3>5. QED
      BY <3>1, <3>2, <3>3, <3>4
  <2>11. QED
    BY <2>7, <2>8, <2>9, <2>10
<1>2. IInv /\ Honesty /\ [Next]_vars =>
        [Extends => /\ begun.grouping.open
                    /\ Delay # None => grouping'.last - begun.grouping.last \in 0..Delay]_vars
  BY <1>1
<1>3. QED
  BY <1>2, HonestyHolds, PTL DEF Spec, UnitsRespectDelay

(* Timed typing units: bounded by the delay, on a clock that only runs on  *)
(* (history.rs, GroupingState).                                            *)
THEOREM TimedUnitsHold == Spec => TimedUnits
  BY UnitsKeepDelay, ClockRuns DEF TimedUnits

-----------------------------------------------------------------------------
(* The undo timeline.                                                      *)

(* The stacks with the entry a traversal holds lead to the live document   *)
(* from both sides (the invariant, on the whole stacks).                   *)
LEMMA StacksReach ==
  ASSUME IInv
  PROVE  /\ UndoStack \in Seq(HistoryEntry) /\ RedoStack \in Seq(HistoryEntry)
         /\ UndoReaches(UndoStack, store) /\ RedoReaches(RedoStack, store)
<1>1. undo \in Seq(HistoryEntry) /\ redo \in Seq(HistoryEntry)
  BY DEF IInv, TypeOK
<1>2. phase \in {"undoing", "redoing"} => taken \in HistoryEntry /\ EntryReplays(taken)
  BY DEF IInv, CallOK
<1>3. UndoStack \in Seq(HistoryEntry) /\ UndoReaches(UndoStack, store)
  <2>1. CASE phase = "undoing"
    BY <1>1, <1>2, <2>1, UndoPush DEF IInv, StacksOK, UndoStack
  <2>2. CASE phase # "undoing"
    BY <1>1, <2>2 DEF IInv, StacksOK, UndoStack
  <2>3. QED
    BY <2>1, <2>2
<1>4. RedoStack \in Seq(HistoryEntry) /\ RedoReaches(RedoStack, store)
  <2>1. CASE phase = "redoing"
    BY <1>1, <1>2, <2>1, RedoPush DEF IInv, StacksOK, RedoStack
  <2>2. CASE phase # "redoing"
    BY <1>1, <2>2 DEF IInv, StacksOK, RedoStack
  <2>3. QED
    BY <2>1, <2>2
<1>5. QED
  BY <1>3, <1>4

(* An entry that replays starts at a document and ends at one.             *)
LEMMA EntryEnds ==
  ASSUME NEW entry \in HistoryEntry, EntryReplays(entry)
  PROVE  Start(entry) \in Stores /\ Finish(entry) \in Stores
<1>1. entry.redo \in Transaction /\ Accepts(entry.redo, Start(entry))
  BY DEF EntryReplays, HistoryEntry
<1>2. QED
  BY <1>1, AcceptedChain DEF Finish

\* A stack whose entries replay.
Replayable(stack) ==
  /\ stack \in Seq(HistoryEntry)
  /\ \A i \in 1..Len(stack) : EntryReplays(stack[i])

(* The documents in reach form a sequence, with the live one after those   *)
(* of the undo stack.                                                      *)
LEMMA ReachType ==
  ASSUME NEW back, Replayable(back), NEW live \in Stores, NEW ahead, Replayable(ahead)
  PROVE  /\ DocumentsInReach(back, live, ahead) \in Seq(Stores)
         /\ Len(DocumentsInReach(back, live, ahead)) = Len(back) + 1 + Len(ahead)
         /\ DocumentsInReach(back, live, ahead)[Len(back) + 1] = live
         /\ \A i \in 1..Len(back) : DocumentsInReach(back, live, ahead)[i] = Start(back[i])
<1> DEFINE row == DocumentsInReach(back, live, ahead)
           n == Len(back)
           m == Len(ahead)
<1>1. n \in Nat /\ m \in Nat
  BY DEF Replayable
<1>2. ASSUME NEW i \in 1..n PROVE Start(back[i]) \in Stores
  <2>1. back[i] \in HistoryEntry /\ EntryReplays(back[i])
    BY <1>1 DEF Replayable
  <2>2. QED
    BY <2>1, EntryEnds
<1>3. ASSUME NEW i \in 1..m PROVE Finish(ahead[i]) \in Stores
  <2>1. ahead[i] \in HistoryEntry /\ EntryReplays(ahead[i])
    BY <1>1 DEF Replayable
  <2>2. QED
    BY <2>1, EntryEnds
<1>4. row = [i \in 1..(n + 1 + m) |->
               IF i <= n THEN Start(back[i])
               ELSE IF i = n + 1 THEN live
               ELSE Finish(ahead[n + 2 + m - i])]
  BY DEF DocumentsInReach
<1> HIDE DEF n, m, row
<1>5. ASSUME NEW i \in 1..(n + 1 + m)
      PROVE  (IF i <= n THEN Start(back[i])
              ELSE IF i = n + 1 THEN live
              ELSE Finish(ahead[n + 2 + m - i])) \in Stores
  <2>1. i <= n => i \in 1..n
    BY <1>1
  <2>2. i > n + 1 => n + 2 + m - i \in 1..m
    BY <1>1
  <2>3. QED
    BY <1>1, <1>2, <1>3, <2>1, <2>2
<1>6. row \in [1..(n + 1 + m) -> Stores]
  BY <1>4, <1>5
<1>7. row \in Seq(Stores) /\ Len(row) = n + 1 + m
  BY <1>1, <1>6
<1>8. row[n + 1] = live
  BY <1>1, <1>4
<1>9. ASSUME NEW i \in 1..n PROVE row[i] = Start(back[i])
  BY <1>1, <1>4
<1>10. QED
  BY <1>7, <1>8, <1>9 DEF n, m, row

(* The documents past the live one are what the redo stack leads to, its   *)
(* newest entry first.                                                     *)
LEMMA ReachAhead ==
  ASSUME NEW back, Replayable(back), NEW live \in Stores, NEW ahead, Replayable(ahead),
         NEW j \in 1..Len(ahead)
  PROVE  DocumentsInReach(back, live, ahead)[Len(back) + 1 + j]
           = Finish(ahead[Len(ahead) + 1 - j])
<1> DEFINE n == Len(back)
           m == Len(ahead)
<1>1. n \in Nat /\ m \in Nat
  BY DEF Replayable
<1>2. DocumentsInReach(back, live, ahead)
        = [i \in 1..(n + 1 + m) |->
             IF i <= n THEN Start(back[i])
             ELSE IF i = n + 1 THEN live
             ELSE Finish(ahead[n + 2 + m - i])]
  BY DEF DocumentsInReach
<1>3. j \in 1..m
  OBVIOUS
<1> HIDE DEF n, m
<1>4. /\ n + 1 + j \in 1..(n + 1 + m) /\ ~(n + 1 + j <= n) /\ n + 1 + j # n + 1
      /\ n + 2 + m - (n + 1 + j) = m + 1 - j
  BY <1>1, <1>3
<1>5. DocumentsInReach(back, live, ahead)[n + 1 + j] = Finish(ahead[m + 1 - j])
  BY <1>2, <1>4
<1>6. QED
  BY <1>5 DEF n, m

(* With nothing to redo, the live document is the last one in reach.       *)
LEMMA ReachNewest ==
  ASSUME NEW back, Replayable(back), NEW live \in Stores
  PROVE  /\ DocumentsInReach(back, live, <<>>) \in Seq(Stores)
         /\ Len(DocumentsInReach(back, live, <<>>)) = Len(back) + 1
         /\ DocumentsInReach(back, live, <<>>)[Len(back) + 1] = live
         /\ \A i \in 1..Len(back) : DocumentsInReach(back, live, <<>>)[i] = Start(back[i])
<1> DEFINE ahead == <<>>
<1>1. Replayable(ahead) /\ Len(ahead) = 0 /\ Len(back) \in Nat
  BY DEF Replayable
<1> HIDE DEF ahead
<1>2. /\ DocumentsInReach(back, live, ahead) \in Seq(Stores)
      /\ Len(DocumentsInReach(back, live, ahead)) = Len(back) + 1 + Len(ahead)
      /\ DocumentsInReach(back, live, ahead)[Len(back) + 1] = live
      /\ \A i \in 1..Len(back) : DocumentsInReach(back, live, ahead)[i] = Start(back[i])
  BY <1>1, ReachType
<1>3. Len(back) + 1 + Len(ahead) = Len(back) + 1
  BY <1>1
<1>4. QED
  BY <1>2, <1>3 DEF ahead

(* Equal sequences of documents.                                           *)
LEMMA SameDocuments ==
  ASSUME NEW a \in Seq(Stores), NEW b \in Seq(Stores), Len(a) = Len(b),
         \A i \in 1..Len(a) : a[i] = b[i]
  PROVE  a = b
OBVIOUS

(* Recording a new entry cuts off what lies ahead and adds the document it *)
(* ends in.                                                                *)
LEMMA ReachPushed ==
  ASSUME NEW back, Replayable(back), NEW live \in Stores, NEW ahead, Replayable(ahead),
         NEW entry \in HistoryEntry, EntryReplays(entry), Start(entry) = live,
         NEW next \in Stores
  PROVE  DocumentsInReach(Append(back, entry), next, <<>>)
           = Append(SubSeq(DocumentsInReach(back, live, ahead), 1, Len(back) + 1), next)
<1> DEFINE n == Len(back)
           row == DocumentsInReach(back, live, ahead)
           more == Append(back, entry)
           after == DocumentsInReach(more, next, <<>>)
           cut == SubSeq(row, 1, n + 1)
<1>1. n \in Nat /\ back \in Seq(HistoryEntry)
  BY DEF Replayable
<1>2. /\ more \in Seq(HistoryEntry) /\ Len(more) = n + 1
      /\ \A i \in 1..n : more[i] = back[i]
      /\ more[n + 1] = entry
  BY <1>1
<1>3. Replayable(more)
  <2>1. ASSUME NEW i \in 1..(n + 1) PROVE EntryReplays(more[i])
    <3>1. CASE i = n + 1
      BY <1>2, <3>1
    <3>2. CASE i # n + 1
      <4>1. i \in 1..n
        BY <1>1, <3>2
      <4>2. EntryReplays(back[i]) /\ more[i] = back[i]
        BY <1>2, <4>1 DEF Replayable
      <4>3. QED
        BY <4>2
    <3>3. QED
      BY <3>1, <3>2
  <2>2. QED
    BY <1>2, <2>1 DEF Replayable
<1>5. /\ row \in Seq(Stores) /\ Len(row) = n + 1 + Len(ahead) /\ row[n + 1] = live
      /\ \A i \in 1..n : row[i] = Start(back[i])
  BY ReachType
<1> HIDE DEF row, more
<1>6. /\ after \in Seq(Stores) /\ Len(after) = n + 2 /\ after[n + 2] = next
      /\ \A i \in 1..(n + 1) : after[i] = Start(more[i])
  <2>1. /\ after \in Seq(Stores) /\ Len(after) = Len(more) + 1
        /\ after[Len(more) + 1] = next
        /\ \A i \in 1..Len(more) : after[i] = Start(more[i])
    BY <1>3, ReachNewest
  <2>2. QED
    BY <1>1, <1>2, <2>1
<1> HIDE DEF after
<1>7. Len(ahead) \in Nat
  BY DEF Replayable
<1>8. cut \in Seq(Stores) /\ Len(cut) = n + 1 /\ \A i \in 1..(n + 1) : cut[i] = row[i]
  BY <1>1, <1>5, <1>7
<1> HIDE DEF cut
<1>9. /\ Append(cut, next) \in Seq(Stores) /\ Len(Append(cut, next)) = n + 2
      /\ Append(cut, next)[n + 2] = next
      /\ \A i \in 1..(n + 1) : Append(cut, next)[i] = row[i]
  BY <1>1, <1>8
<1>10. ASSUME NEW i \in 1..(n + 2) PROVE after[i] = Append(cut, next)[i]
  <2>1. CASE i = n + 2
    BY <1>6, <1>9, <2>1
  <2>2. CASE i = n + 1
    <3>1. i \in 1..(n + 1)
      BY <1>1, <2>2
    <3>2. QED
      BY <1>2, <1>5, <1>6, <1>9, <2>2, <3>1
  <2>3. CASE i # n + 2 /\ i # n + 1
    <3>1. i \in 1..n /\ i \in 1..(n + 1)
      BY <1>1, <2>3
    <3>2. QED
      BY <1>2, <1>5, <1>6, <1>9, <3>1
  <2>4. QED
    BY <2>1, <2>2, <2>3
<1>11. after = Append(cut, next)
  BY <1>6, <1>9, <1>10, SameDocuments
<1>12. QED
  BY <1>11 DEF after, cut, row, more

(* Extending the newest entry replaces the document it ended in.           *)
LEMMA ReachExtended ==
  ASSUME NEW back, Replayable(back), back # <<>>, NEW live \in Stores,
         NEW entry \in HistoryEntry, EntryReplays(entry), Start(entry) = Start(Last(back)),
         NEW next \in Stores
  PROVE  DocumentsInReach(Append(Front(back), entry), next, <<>>)
           = [DocumentsInReach(back, live, <<>>) EXCEPT ![Len(back) + 1] = next]
<1> DEFINE n == Len(back)
           row == DocumentsInReach(back, live, <<>>)
           more == Append(Front(back), entry)
           after == DocumentsInReach(more, next, <<>>)
           swapped == [row EXCEPT ![n + 1] = next]
<1>1. /\ n \in Nat /\ n > 0 /\ Last(back) = back[n]
      /\ Front(back) \in Seq(HistoryEntry) /\ Len(Front(back)) = n - 1
      /\ \A i \in 1..(n - 1) : Front(back)[i] = back[i]
  BY FrontElements DEF Replayable
<1>2. /\ more \in Seq(HistoryEntry) /\ Len(more) = n
      /\ \A i \in 1..(n - 1) : more[i] = back[i]
      /\ more[n] = entry
  BY <1>1
<1>3. ASSUME NEW i \in 1..n
      PROVE  EntryReplays(more[i]) /\ Start(more[i]) = Start(back[i])
  <2>1. CASE i = n
    BY <1>1, <1>2, <2>1
  <2>2. CASE i # n
    <3>1. i \in 1..(n - 1)
      BY <1>1, <2>2
    <3>2. EntryReplays(back[i]) /\ more[i] = back[i]
      BY <1>2, <3>1 DEF Replayable
    <3>3. QED
      BY <3>2
  <2>3. QED
    BY <2>1, <2>2
<1>4. Replayable(more)
  BY <1>2, <1>3 DEF Replayable
<1>5. /\ row \in Seq(Stores) /\ Len(row) = n + 1
      /\ \A i \in 1..n : row[i] = Start(back[i])
  BY ReachNewest
<1>6. /\ after \in Seq(Stores) /\ Len(after) = n + 1 /\ after[n + 1] = next
      /\ \A i \in 1..n : after[i] = Start(more[i])
  <2> HIDE DEF more
  <2>1. /\ after \in Seq(Stores) /\ Len(after) = Len(more) + 1
        /\ after[Len(more) + 1] = next
        /\ \A i \in 1..Len(more) : after[i] = Start(more[i])
    BY <1>4, ReachNewest
  <2>2. QED
    BY <1>1, <1>2, <2>1
<1> HIDE DEF row, more, after
<1>7. /\ swapped \in Seq(Stores) /\ Len(swapped) = n + 1 /\ swapped[n + 1] = next
      /\ \A i \in 1..n : swapped[i] = row[i]
  BY <1>1, <1>5
<1> HIDE DEF swapped
<1>8. ASSUME NEW i \in 1..(n + 1) PROVE after[i] = swapped[i]
  <2>1. CASE i = n + 1
    BY <1>6, <1>7, <2>1
  <2>2. CASE i # n + 1
    <3>1. i \in 1..n
      BY <1>1, <2>2
    <3>2. QED
      BY <1>3, <1>5, <1>6, <1>7, <3>1
  <2>3. QED
    BY <2>1, <2>2
<1>9. after = swapped
  BY <1>6, <1>7, <1>8, SameDocuments
<1>10. QED
  BY <1>9 DEF after, swapped, row, more

(* Moving an entry from the undo to the redo stack, whatever selection it  *)
(* captured on the way, keeps every document in reach.                     *)
LEMMA ReachStepped ==
  ASSUME NEW back, Replayable(back), NEW ahead, Replayable(ahead),
         NEW moved \in HistoryEntry, EntryReplays(moved),
         NEW put \in HistoryEntry, EntryReplays(put),
         Start(put) = Start(moved), Finish(put) = Finish(moved)
  PROVE  DocumentsInReach(Append(back, moved), Finish(moved), ahead)
           = DocumentsInReach(back, Start(moved), Append(ahead, put))
<1> DEFINE n == Len(back)
           m == Len(ahead)
           longer == Append(back, moved)
           further == Append(ahead, put)
           row == DocumentsInReach(longer, Finish(moved), ahead)
           after == DocumentsInReach(back, Start(moved), further)
<1>1. /\ n \in Nat /\ m \in Nat /\ back \in Seq(HistoryEntry) /\ ahead \in Seq(HistoryEntry)
      /\ Start(moved) \in Stores /\ Finish(moved) \in Stores
  BY EntryEnds DEF Replayable
<1>2. /\ longer \in Seq(HistoryEntry) /\ Len(longer) = n + 1
      /\ \A i \in 1..n : longer[i] = back[i]
      /\ longer[n + 1] = moved
  BY <1>1
<1>3. /\ further \in Seq(HistoryEntry) /\ Len(further) = m + 1
      /\ \A i \in 1..m : further[i] = ahead[i]
      /\ further[m + 1] = put
  BY <1>1
<1> HIDE DEF longer, further
<1>4. Replayable(longer)
  <2>1. ASSUME NEW i \in 1..(n + 1) PROVE EntryReplays(longer[i])
    <3>1. CASE i = n + 1
      BY <1>2, <3>1
    <3>2. CASE i # n + 1
      <4>1. i \in 1..n
        BY <1>1, <3>2
      <4>2. QED
        BY <1>2, <4>1 DEF Replayable
    <3>3. QED
      BY <3>1, <3>2
  <2>2. QED
    BY <1>2, <2>1 DEF Replayable
<1>5. Replayable(further)
  <2>1. ASSUME NEW i \in 1..(m + 1) PROVE EntryReplays(further[i])
    <3>1. CASE i = m + 1
      BY <1>3, <3>1
    <3>2. CASE i # m + 1
      <4>1. i \in 1..m
        BY <1>1, <3>2
      <4>2. QED
        BY <1>3, <4>1 DEF Replayable
    <3>3. QED
      BY <3>1, <3>2
  <2>2. QED
    BY <1>3, <2>1 DEF Replayable
<1>6. /\ row \in Seq(Stores) /\ Len(row) = n + 2 + m
      /\ row[n + 2] = Finish(moved)
      /\ \A i \in 1..(n + 1) : row[i] = Start(longer[i])
  <2>1. /\ row \in Seq(Stores) /\ Len(row) = Len(longer) + 1 + m
        /\ row[Len(longer) + 1] = Finish(moved)
        /\ \A i \in 1..Len(longer) : row[i] = Start(longer[i])
    BY <1>1, <1>4, ReachType
  <2> HIDE DEF row
  <2>2. QED
    BY <1>1, <1>2, <2>1
<1>7. /\ after \in Seq(Stores) /\ Len(after) = n + 2 + m
      /\ after[n + 1] = Start(moved)
      /\ \A i \in 1..n : after[i] = Start(back[i])
  <2>1. /\ after \in Seq(Stores) /\ Len(after) = n + 1 + Len(further)
        /\ after[n + 1] = Start(moved)
        /\ \A i \in 1..n : after[i] = Start(back[i])
    BY <1>1, <1>5, ReachType
  <2> HIDE DEF after
  <2>2. QED
    BY <1>1, <1>3, <2>1
<1>8. ASSUME NEW j \in 1..m PROVE row[n + 2 + j] = Finish(ahead[m + 1 - j])
  <2>1. row[Len(longer) + 1 + j] = Finish(ahead[Len(ahead) + 1 - j])
    BY <1>1, <1>4, ReachAhead
  <2> HIDE DEF row
  <2>2. Len(longer) + 1 + j = n + 2 + j
    BY <1>1, <1>2
  <2>3. QED
    BY <2>1, <2>2
<1>9. ASSUME NEW j \in 1..(m + 1) PROVE after[n + 1 + j] = Finish(further[m + 2 - j])
  <2>1. j \in 1..Len(further)
    BY <1>3
  <2>2. after[n + 1 + j] = Finish(further[Len(further) + 1 - j])
    BY <1>1, <1>5, <2>1, ReachAhead
  <2> HIDE DEF after
  <2>3. Len(further) + 1 - j = m + 2 - j
    BY <1>1, <1>3
  <2>4. QED
    BY <2>2, <2>3
<1> HIDE DEF row, after
<1>10. ASSUME NEW i \in 1..(n + 2 + m) PROVE row[i] = after[i]
  <2>1. CASE i <= n
    <3>1. i \in 1..n /\ i \in 1..(n + 1)
      BY <1>1, <2>1
    <3>2. QED
      BY <1>2, <1>6, <1>7, <3>1
  <2>2. CASE i = n + 1
    <3>1. i \in 1..(n + 1)
      BY <1>1, <2>2
    <3>2. QED
      BY <1>2, <1>6, <1>7, <2>2, <3>1
  <2>3. CASE i = n + 2
    <3>1. 1 \in 1..(m + 1) /\ n + 1 + 1 = n + 2 /\ m + 2 - 1 = m + 1
      BY <1>1
    <3>2. after[n + 1 + 1] = Finish(further[m + 2 - 1])
      BY <1>9, <3>1
    <3>3. after[n + 2] = Finish(put)
      BY <1>3, <3>1, <3>2
    <3>4. QED
      BY <1>6, <2>3, <3>3
  <2>4. CASE i > n + 2
    <3>1. PICK j \in 1..m : i = n + 2 + j
      <4>1. i - (n + 2) \in 1..m /\ i = n + 2 + (i - (n + 2))
        BY <1>1, <2>4
      <4>2. QED
        BY <4>1
    <3>2. PICK k \in 1..(m + 1) : k = j + 1
      <4>1. j + 1 \in 1..(m + 1)
        BY <1>1
      <4>2. QED
        BY <4>1
    <3>3. i = n + 1 + k /\ m + 2 - k = m + 1 - j /\ m + 1 - j \in 1..m
      BY <1>1, <3>1, <3>2
    <3>4. row[i] = Finish(ahead[m + 1 - j])
      BY <1>8, <3>1
    <3>5. after[i] = Finish(further[m + 1 - j])
      BY <1>9, <3>3
    <3>6. further[m + 1 - j] = ahead[m + 1 - j]
      BY <1>3, <3>3
    <3>7. QED
      BY <3>4, <3>5, <3>6
  <2>5. QED
    BY <1>1, <2>1, <2>2, <2>3, <2>4
<1>11. row = after
  BY <1>6, <1>7, <1>10, SameDocuments
<1>12. QED
  BY <1>11 DEF row, after, longer, further

(* Publishing an edit adds a document or, inside an open typing unit,      *)
(* replaces the newest one (commit.rs, publish_prepared_commit).           *)
LEMMA PublishedStep ==
  ASSUME IInv, GroupKept, phase \in {"intent", "collapsed", "apply", "cut"}, phase' = "idle",
         NEW candidate \in Candidate,
         EntryReplays(candidate.entry), Start(candidate.entry) = store,
         Finish(candidate.entry) = candidate.store,
         candidate.selection \in ValidAt[candidate.store],
         NEW g \in {grouping, Closed(grouping)}, NEW time \in Option(Nat),
         NEW m \in PendingMarks, NEW tok \in Option(Token),
         PublishCandidate(candidate, g, time, m, tok)
  PROVE  Timeline!Edit \/ Timeline!Extend
<1> DEFINE entry == candidate.entry
           mayMerge == MayMerge(g, entry.group, time)
<1>1. /\ grouping \in GroupingState /\ g \in GroupingState
      /\ g.open => g = grouping
      /\ store \in Stores /\ undo \in Seq(HistoryEntry) /\ redo \in Seq(HistoryEntry)
  BY ClosedIsClosed DEF IInv, TypeOK
<1>2. UndoStack = undo /\ RedoStack = redo /\ Replayable(undo) /\ Replayable(redo)
  BY StacksReach DEF UndoStack, RedoStack, Replayable, UndoReaches, RedoReaches
<1>3. UndoReaches(undo, store)
  BY <1>2, StacksReach
<1>4. entry \in HistoryEntry /\ EntryReplays(entry) /\ Start(entry) = store
  BY DEF Candidate
<1>5. store' \in Stores /\ undo' \in Seq(HistoryEntry) /\ UndoReaches(undo', store')
  BY <1>1, PublishedReplays
<1>6. /\ redo' = <<>> /\ undo' = Recorded(undo, entry, mayMerge)
      /\ UndoStack' = undo' /\ RedoStack' = redo'
  BY DEF PublishCandidate, UndoStack, RedoStack
<1>7. Replayable(undo')
  BY <1>5 DEF Replayable, UndoReaches
<1>8. Timeline!Stand
  <2>1. DocumentsInReach(undo', store', <<>>)[Len(undo') + 1] = store'
    BY <1>5, <1>7, ReachNewest
  <2>2. QED
    BY <1>6, <2>1 DEF Timeline!Stand
<1> HIDE DEF entry
<1>9. CASE undo' = Append(undo, entry)
  <2>1. DocumentsInReach(Append(undo, entry), store', <<>>)
          = Append(SubSeq(DocumentsInReach(undo, store, redo), 1, Len(undo) + 1), store')
    BY <1>1, <1>2, <1>4, <1>5, ReachPushed
  <2>2. Len(undo') + 1 = (Len(undo) + 1) + 1
    BY <1>1, <1>9
  <2>3. Timeline!Edit
    BY <1>2, <1>5, <1>6, <1>8, <1>9, <2>1, <2>2 DEF Timeline!Edit
  <2>4. QED
    BY <2>3
<1>10. CASE /\ mayMerge /\ undo # <<>> /\ Continues(Last(undo), entry)
            /\ undo' = Append(Front(undo), MergeEntries(Last(undo), entry))
  <2> DEFINE previous == Last(undo)
             both == MergeEntries(previous, entry)
  <2>1. redo = <<>>
    BY <1>1, <1>10 DEF MayMerge, GroupKept, GroupOn
  <2>2. previous \in HistoryEntry /\ EntryReplays(previous) /\ Finish(previous) = store
    BY <1>1, <1>3, <1>10, UndoPop
  <2>3. both \in HistoryEntry /\ EntryReplays(both) /\ Start(both) = Start(previous)
    BY <1>4, <1>10, <2>2, MergeType, MergedReplays
  <2> HIDE DEF both
  <2>4. DocumentsInReach(Append(Front(undo), both), store', <<>>)
          = [DocumentsInReach(undo, store, <<>>) EXCEPT ![Len(undo) + 1] = store']
    BY <1>1, <1>2, <1>5, <1>10, <2>3, ReachExtended
  <2>5. Len(undo) \in Nat /\ Len(undo) > 0 /\ Len(undo') = Len(undo)
    <3>1. /\ Len(undo) \in Nat /\ Len(undo) > 0
          /\ Front(undo) \in Seq(HistoryEntry) /\ Len(Front(undo)) = Len(undo) - 1
      BY <1>1, <1>10, FrontElements
    <3>2. undo' = Append(Front(undo), both)
      BY <1>10 DEF both
    <3>3. QED
      BY <3>1, <3>2
  <2>6. Len(DocumentsInReach(undo, store, <<>>)) = Len(undo) + 1
    BY <1>1, <1>2, ReachNewest
  <2>7. DocumentsInReach(UndoStack', store', RedoStack')
          = [DocumentsInReach(UndoStack, store, RedoStack) EXCEPT ![Len(UndoStack) + 1] = store']
    BY <1>2, <1>6, <1>10, <2>1, <2>4 DEF both
  <2>8. /\ Len(UndoStack) + 1 > 1
        /\ Len(UndoStack) + 1 = Len(DocumentsInReach(UndoStack, store, RedoStack))
        /\ Len(UndoStack') + 1 = Len(UndoStack) + 1
    BY <1>2, <1>6, <2>1, <2>5, <2>6
  <2>9. Timeline!Extend
    BY <1>5, <1>8, <2>7, <2>8 DEF Timeline!Extend
  <2>10. QED
    BY <2>9
<1>11. QED
  BY <1>6, <1>9, <1>10 DEF Recorded

(* Commits and published cuts are edits of the timeline.                   *)
LEMMA CommitStep ==
  ASSUME IInv, GroupKept, Commits \/ PublishCut
  PROVE  Timeline!Edit \/ Timeline!Extend
<1>1. CASE Commits
  <2>1. PICK final \in Stages, group \in Group, g \in {grouping, Closed(grouping)},
             time \in Option(Nat), m \in PendingMarks, tok \in Option(Token) :
          Applies(final) /\ Publish(CandidateOf(final, group), g, time, m, tok)
    BY <1>1, CommitCandidate
  <2> DEFINE candidate == CandidateOf(final, group)
  <2>2. phase \in {"intent", "collapsed", "apply"}
    BY <1>1, CommitPublishes
  <2>3. /\ candidate \in Candidate
        /\ EntryReplays(candidate.entry)
        /\ Start(candidate.entry) = store
        /\ Finish(candidate.entry) = candidate.store
        /\ candidate.selection \in ValidAt[candidate.store]
    BY <2>1, CandidateType, CandidateReplays DEF IInv, CallOK
  <2> HIDE DEF candidate
  <2>4. PublishCandidate(candidate, g, time, m, tok) /\ phase' = "idle"
    BY <2>1 DEF Publish, Leave, candidate
  <2>5. QED
    BY <2>1, <2>2, <2>3, <2>4, PublishedStep
<1>2. CASE PublishCut
  <2>1. /\ phase = "cut" /\ phase' = "idle"
        /\ PublishCandidate(prepared, grouping, None, None, None)
    BY <1>2 DEF PublishCut
  <2>2. /\ prepared \in Candidate
        /\ EntryReplays(prepared.entry)
        /\ Start(prepared.entry) = store
        /\ Finish(prepared.entry) = prepared.store
        /\ prepared.selection \in ValidAt[prepared.store]
    BY <2>1 DEF IInv, CallOK
  <2>3. None \in Option(Nat) /\ None \in PendingMarks /\ None \in Option(Token)
    BY DEF Option, PendingMarks
  <2>4. QED
    BY <2>1, <2>2, <2>3, PublishedStep
<1>3. QED
  BY <1>1, <1>2

(* Capturing the selection on a traversal does not change what the entry   *)
(* does (mod.rs, undo_inner and redo_inner).                               *)
LEMMA CaptureKeeps ==
  ASSUME IInv, phase \in {"undoing", "redoing"}
  PROVE  /\ taken \in HistoryEntry /\ EntryReplays(taken)
         /\ Undone(taken) \in HistoryEntry /\ Redone(taken) \in HistoryEntry
         /\ Start(Undone(taken)) = Start(taken) /\ Finish(Undone(taken)) = Finish(taken)
         /\ Start(Redone(taken)) = Start(taken) /\ Finish(Redone(taken)) = Finish(taken)
         /\ Finish(taken) = store => EntryReplays(Undone(taken))
         /\ Start(taken) = store => EntryReplays(Redone(taken))
<1>1. taken \in HistoryEntry /\ EntryReplays(taken) /\ selection \in Selections
  BY DEF IInv, CallOK, TypeOK
<1>2. /\ Undone(taken) \in HistoryEntry /\ Redone(taken) \in HistoryEntry
      /\ Undone(taken).redo = taken.redo /\ Undone(taken).undo = taken.undo
      /\ Undone(taken).before = taken.before /\ Undone(taken).after \in {taken.after, selection}
      /\ Redone(taken).redo = taken.redo /\ Redone(taken).undo = taken.undo
      /\ Redone(taken).after = taken.after /\ Redone(taken).before \in {taken.before, selection}
  BY <1>1 DEF Undone, Redone, HistoryEntry
<1>3. /\ Start(Undone(taken)) = Start(taken) /\ Finish(Undone(taken)) = Finish(taken)
      /\ Start(Redone(taken)) = Start(taken) /\ Finish(Redone(taken)) = Finish(taken)
  BY <1>2 DEF Start, Finish
<1>4. selection \in ValidAt[store]
  BY SelectionTypes
<1>5. Finish(taken) = store => EntryReplays(Undone(taken))
  BY <1>1, <1>2, <1>3, <1>4 DEF EntryReplays
<1>6. Start(taken) = store => EntryReplays(Redone(taken))
  BY <1>1, <1>2, <1>3, <1>4 DEF EntryReplays
<1>7. QED
  BY <1>1, <1>2, <1>3, <1>5, <1>6

(* A replayed undo steps back and a replayed redo forth, to exactly the    *)
(* document that was left there.                                           *)
LEMMA ReplayStep ==
  ASSUME IInv, ReplayUndo \/ ReplayRedo
  PROVE  Timeline!Undo \/ Timeline!Redo
<1>1. /\ undo \in Seq(HistoryEntry) /\ redo \in Seq(HistoryEntry) /\ store \in Stores
      /\ Len(undo) \in Nat /\ Len(redo) \in Nat
  BY DEF IInv, TypeOK
<1>2. CASE ReplayUndo
  <2>1. /\ phase = "undoing" /\ phase' = "idle"
        /\ store' = ResultOf(taken.undo)
        /\ redo' = Append(redo, Undone(taken)) /\ undo' = undo
    BY <1>2 DEF ReplayUndo, Replay, Leave
  <2>2. Finish(taken) = store /\ Replayable(undo) /\ Replayable(redo)
    BY <1>1, <2>1 DEF IInv, StacksOK, Replayable, UndoReaches, RedoReaches
  <2>3. /\ taken \in HistoryEntry /\ EntryReplays(taken)
        /\ Undone(taken) \in HistoryEntry /\ EntryReplays(Undone(taken))
        /\ Start(Undone(taken)) = Start(taken) /\ Finish(Undone(taken)) = Finish(taken)
    BY <2>1, <2>2, CaptureKeeps
  <2>4. store' = Start(taken) /\ Start(taken) \in Stores
    BY <2>1, <2>3, EntryEnds DEF EntryReplays
  <2>5. DocumentsInReach(Append(undo, taken), Finish(taken), redo)
          = DocumentsInReach(undo, Start(taken), Append(redo, Undone(taken)))
    BY <2>2, <2>3, ReachStepped
  <2>6. /\ UndoStack = Append(undo, taken) /\ RedoStack = redo
        /\ UndoStack' = undo /\ RedoStack' = Append(redo, Undone(taken))
    BY <2>1 DEF UndoStack, RedoStack
  <2>7. DocumentsInReach(UndoStack', store', RedoStack')
          = DocumentsInReach(UndoStack, store, RedoStack)
    BY <2>2, <2>4, <2>5, <2>6
  <2>8. Replayable(Append(redo, Undone(taken)))
    <3>1. RedoReaches(redo, Finish(taken))
      BY <2>1, <2>2 DEF IInv, StacksOK
    <3>2. RedoReaches(Append(redo, Undone(taken)), Start(Undone(taken)))
      BY <1>1, <2>3, <3>1, RedoPush
    <3>3. QED
      BY <1>1, <2>3, <3>2 DEF RedoReaches, Replayable
  <2>9. DocumentsInReach(undo, store', Append(redo, Undone(taken)))[Len(undo) + 1] = store'
    BY <2>2, <2>4, <2>8, ReachType
  <2>10. Len(UndoStack) = Len(undo) + 1
    BY <1>1, <2>3, <2>6
  <2>11. Timeline!Stand
    BY <2>6, <2>9 DEF Timeline!Stand
  <2>12. Len(UndoStack) + 1 > 1 /\ Len(UndoStack') + 1 = (Len(UndoStack) + 1) - 1
    BY <1>1, <2>6, <2>10
  <2>13. Timeline!Undo
    BY <2>7, <2>11, <2>12 DEF Timeline!Undo
  <2>14. QED
    BY <2>13
<1>3. CASE ReplayRedo
  <2>1. /\ phase = "redoing" /\ phase' = "idle"
        /\ store' = ResultOf(taken.redo)
        /\ undo' = Append(undo, Redone(taken)) /\ redo' = redo
    BY <1>3 DEF ReplayRedo, Replay, Leave
  <2>2. Start(taken) = store /\ Replayable(undo) /\ Replayable(redo)
    BY <1>1, <2>1 DEF IInv, StacksOK, Replayable, UndoReaches, RedoReaches
  <2>3. /\ taken \in HistoryEntry /\ EntryReplays(taken)
        /\ Redone(taken) \in HistoryEntry /\ EntryReplays(Redone(taken))
        /\ Start(Redone(taken)) = Start(taken) /\ Finish(Redone(taken)) = Finish(taken)
    BY <2>1, <2>2, CaptureKeeps
  <2>4. store' = Finish(taken) /\ Finish(taken) \in Stores
    BY <2>1, <2>3, EntryEnds DEF Finish
  <2>5. DocumentsInReach(Append(undo, Redone(taken)), Finish(Redone(taken)), redo)
          = DocumentsInReach(undo, Start(Redone(taken)), Append(redo, taken))
    BY <2>2, <2>3, ReachStepped
  <2>6. /\ UndoStack = undo /\ RedoStack = Append(redo, taken)
        /\ UndoStack' = Append(undo, Redone(taken)) /\ RedoStack' = redo
    BY <2>1 DEF UndoStack, RedoStack
  <2>7. DocumentsInReach(UndoStack', store', RedoStack')
          = DocumentsInReach(UndoStack, store, RedoStack)
    BY <2>2, <2>3, <2>4, <2>5, <2>6
  <2>8. Replayable(Append(undo, Redone(taken))) /\ Replayable(Append(redo, taken))
    <3>1. UndoReaches(undo, store) /\ RedoReaches(redo, Finish(taken))
      BY <2>1, <2>2 DEF IInv, StacksOK
    <3>2. /\ UndoReaches(Append(undo, Redone(taken)), Finish(Redone(taken)))
          /\ RedoReaches(Append(redo, taken), Start(taken))
      BY <1>1, <2>2, <2>3, <3>1, UndoPush, RedoPush
    <3>3. QED
      BY <1>1, <2>3, <3>2 DEF UndoReaches, RedoReaches, Replayable
  <2>9. /\ Len(UndoStack') = Len(undo) + 1 /\ Len(RedoStack) = Len(redo) + 1
    BY <1>1, <2>3, <2>6
  <2>10. DocumentsInReach(UndoStack', store', redo)[Len(UndoStack') + 1] = store'
    <3>1. DocumentsInReach(Append(undo, Redone(taken)), store', redo)
            [Len(Append(undo, Redone(taken))) + 1] = store'
      BY <2>2, <2>4, <2>8, ReachType
    <3>2. QED
      BY <2>6, <3>1
  <2>11. Len(DocumentsInReach(UndoStack, store, RedoStack)) = Len(undo) + 1 + (Len(redo) + 1)
    <3>1. Len(DocumentsInReach(undo, store, Append(redo, taken)))
            = Len(undo) + 1 + Len(Append(redo, taken))
      BY <1>1, <2>2, <2>8, ReachType
    <3>2. QED
      BY <2>6, <2>9, <3>1
  <2>12. Timeline!Stand
    BY <2>6, <2>10 DEF Timeline!Stand
  <2>13. /\ Len(UndoStack) + 1 < Len(DocumentsInReach(UndoStack, store, RedoStack))
         /\ Len(UndoStack') + 1 = (Len(UndoStack) + 1) + 1
    BY <1>1, <2>6, <2>9, <2>11
  <2>14. Timeline!Redo
    BY <2>7, <2>12, <2>13 DEF Timeline!Redo
  <2>15. QED
    BY <2>14
<1>4. QED
  BY <1>2, <1>3

(* Every other step leaves the timeline as it is: opening and abandoning a *)
(* call, taking an entry to replay and putting it back.                    *)
LEMMA StutterStep ==
  ASSUME IInv, [Next]_vars, ~(Commits \/ PublishCut), ~(ReplayUndo \/ ReplayRedo)
  PROVE  UNCHANGED Timeline!tvars
<1>1. undo \in Seq(HistoryEntry) /\ redo \in Seq(HistoryEntry)
  BY DEF IInv, TypeOK
<1>2. CASE TakeUndo
  <2>1. /\ phase = "idle" /\ phase' = "undoing" /\ undo # <<>> /\ store' = store
        /\ taken' = Last(undo) /\ undo' = Front(undo) /\ redo' = redo
    BY <1>2 DEF TakeUndo, Enter
  <2>2. UndoStack' = UndoStack /\ RedoStack' = RedoStack
    BY <1>1, <2>1, HeldIsTop DEF UndoStack, RedoStack
  <2>3. QED
    BY <2>1, <2>2 DEF Timeline!tvars
<1>3. CASE TakeRedo
  <2>1. /\ phase = "idle" /\ phase' = "redoing" /\ redo # <<>> /\ store' = store
        /\ taken' = Last(redo) /\ redo' = Front(redo) /\ undo' = undo
    BY <1>3 DEF TakeRedo, Enter
  <2>2. UndoStack' = UndoStack /\ RedoStack' = RedoStack
    BY <1>1, <2>1, HeldIsTop DEF UndoStack, RedoStack
  <2>3. QED
    BY <2>1, <2>2 DEF Timeline!tvars
<1>4. CASE FailTraversal
  <2>1. /\ phase' = "idle" /\ store' = store
        /\ \/ phase = "undoing" /\ undo' = Append(undo, taken) /\ redo' = redo
           \/ phase = "redoing" /\ redo' = Append(redo, taken) /\ undo' = undo
    BY <1>4 DEF FailTraversal, Leave
  <2>2. UndoStack' = UndoStack /\ RedoStack' = RedoStack
    BY <2>1 DEF UndoStack, RedoStack
  <2>3. QED
    BY <2>1, <2>2 DEF Timeline!tvars
<1>5. CASE \/ BeginIntent \/ BeginApply \/ CollapseCellRange \/ PrepareCut \/ NoChange
           \/ StorePendingMarks \/ Navigate \/ Fail \/ TraverseNothing
           \/ CloseHistoryGroup \/ SetSelection \/ CancelCut
  <2>1. /\ phase \notin {"undoing", "redoing"} /\ phase' \notin {"undoing", "redoing"}
        /\ store' = store /\ undo' = undo /\ redo' = redo
    BY <1>5 DEF BeginIntent, BeginApply, CollapseCellRange, PrepareCut, NoChange,
       StorePendingMarks, Navigate, FinishUnchanged, Fail, TraverseNothing,
       CloseHistoryGroup, SetSelection, CancelCut, Enter, Leave
  <2>2. UndoStack' = UndoStack /\ RedoStack' = RedoStack
    BY <2>1 DEF UndoStack, RedoStack
  <2>3. QED
    BY <2>1, <2>2 DEF Timeline!tvars
<1>6. CASE UNCHANGED vars
  BY <1>6 DEF vars, UndoStack, RedoStack, Timeline!tvars
<1>7. QED
  BY <1>2, <1>3, <1>4, <1>5, <1>6 DEF Next, Commits

(* The session implements the undo timeline: an edit, a merged keystroke,  *)
(* an undo and a redo are the only ways the document moves, each arrives   *)
(* at exactly the document that was left, and a failed or cancelled call   *)
(* is no step at all (mod.rs, history.rs, commit.rs).                      *)
THEOREM TimelineImplemented == Spec => ImplementsTimeline
<1>1. Init => Timeline!Init
  <2>1. SUFFICES ASSUME Init PROVE Timeline!Init
    OBVIOUS
  <2>2. /\ UndoStack = <<>> /\ RedoStack = <<>> /\ store = InitialStore
        /\ InitialStore \in Stores
    BY <2>1, DocumentAssumption DEF Init, UndoStack, RedoStack
  <2> DEFINE none == <<>>
             row == DocumentsInReach(none, InitialStore, <<>>)
  <2>3. Replayable(none) /\ Len(none) = 0
    BY DEF Replayable
  <2> HIDE DEF none
  <2>4. /\ row \in Seq(Stores) /\ Len(row) = Len(none) + 1
        /\ row[Len(none) + 1] = InitialStore
    BY <2>2, <2>3, ReachNewest
  <2> HIDE DEF row
  <2>5. Len(row) = 1 /\ row[1] = InitialStore
    BY <2>3, <2>4
  <2>6. /\ <<InitialStore>> \in Seq(Stores) /\ Len(<<InitialStore>>) = 1
        /\ <<InitialStore>>[1] = InitialStore
    BY <2>2
  <2>7. row = <<InitialStore>>
    <3>1. ASSUME NEW i \in 1..Len(row) PROVE row[i] = <<InitialStore>>[i]
      <4>1. i = 1
        BY <2>5
      <4>2. QED
        BY <2>5, <2>6, <4>1
    <3>2. Len(row) = Len(<<InitialStore>>)
      BY <2>5, <2>6
    <3>3. QED
      BY <2>4, <2>6, <3>1, <3>2, SameDocuments
  <2>8. QED
    <3>1. DocumentsInReach(UndoStack, store, RedoStack) = <<InitialStore>>
      BY <2>2, <2>7 DEF row, none
    <3>2. Len(UndoStack) + 1 = 1
      BY <2>2, <2>3 DEF none
    <3>3. QED
      BY <2>2, <3>1, <3>2 DEF Timeline!Init
<1>2. IInv /\ GroupKept /\ [Next]_vars => [Timeline!Next]_(Timeline!tvars)
  BY CommitStep, ReplayStep, StutterStep DEF Timeline!Next
<1>3. Init => GroupKept
  BY DEF Init, GroupKept, NewGrouping
<1>4. IInv /\ GroupKept /\ [Next]_vars => GroupKept'
  BY NextKeepsGroup
<1>5. QED
  BY <1>1, <1>2, <1>3, <1>4, Inductive, PTL DEF Spec, ImplementsTimeline, Timeline!Spec
=============================================================================
