------------------------------- MODULE Session -------------------------------
(***************************************************************************)
(* DocumentSession (crates/xiaomu-runtime/src/session): one live document, *)
(* its selection, pending typing marks, undo history and input-rule token. *)
(*                                                                         *)
(* A public call runs to its end before the next one starts (&mut self),   *)
(* but inside a call the session passes through tentative states: a target *)
(* selection is installed, marks are cleared, the typing group is closed,  *)
(* a history entry is popped, and only then does the fallible work run.    *)
(* "phase" is the place inside the call; every error leaves through Fail   *)
(* or FailTraversal, which do what with_transient_rollback restores.  A    *)
(* prepared cut holds the session while the host writes the clipboard.     *)
(*                                                                         *)
(* Planners, Core and the host policy are environment: any plan of the     *)
(* given sets may come out of a command, and anything may be rejected.     *)
(***************************************************************************)
EXTENDS HistoryStack

CONSTANTS
  InitialStore, InitialSelection,
  ValidAt,          \* [Stores -> SUBSET Selections]: DocumentSelection::validate
  Carets,           \* collapsed selections inside one inline node
  CellRanges,       \* selections with an active rectangular cell range
  LeadingCaret,     \* [CellRanges -> Selections]: start of the anchor cell
  MarkSets,         \* explicit pending mark sets
  Keep,             \* no stored-marks override in a plan
  TypingPlans,      \* [Selections -> SUBSET Plans]: default InsertText
  CaretPlans,       \* [Selections -> SUBSET StagedPlans]: the default commands
                    \* that keep pending marks
  StructuralPlans,  \* staged plans of the commands that clear marks
  CutPlans,         \* plans a policy offers for a prepared cut
  HostPlans,        \* plans a host policy or a direct caller commits
  Plans,            \* every plan of the sets above and below
  Amendments,       \* policy amendments of a local candidate
  Reversals,        \* input-rule reversals a host plan may offer
  Times,            \* caller timestamps
  ConsumePending,   \* DefaultTextInputMarks::ConsumePending
  CaptureOnTraversal, PreserveEditingState, PreserveGroupOnMove,
  MaxRevision       \* bound on the revision: on the transactions applied

Plan == [from : Stores, to : Stores, after : Selections, group : Group]

\* A plan by its stages, one transaction each; most plans have one stage.
StagedPlans == Seq(Plans) \ {<<>>}

ASSUME DocumentAssumption ==
  /\ ValidAt \in [Stores -> SUBSET Selections]
  /\ InitialStore \in Stores
  /\ InitialSelection \in ValidAt[InitialStore]
  /\ Carets \subseteq Selections
  /\ CellRanges \subseteq Selections
  /\ LeadingCaret \in [CellRanges -> Selections]
  /\ \A s \in Stores, r \in CellRanges : r \in ValidAt[s] => LeadingCaret[r] \in ValidAt[s]

\* The position a cell range projects to is a structural gap, never a caret.
ASSUME CellRangeAssumption == CellRanges \cap Carets = {}

\* Default typing and the commands that keep pending marks are planned by
\* the inline planners, whose after-selection is a caret.
ASSUME PlanAssumption ==
  /\ Plans \subseteq Plan
  /\ TypingPlans \in [Selections -> SUBSET Plans]
  /\ CaretPlans \in [Selections -> SUBSET StagedPlans]
  /\ StructuralPlans \subseteq StagedPlans
  /\ HostPlans \subseteq Plans
  /\ CutPlans \subseteq Plans
  /\ Amendments \subseteq Plans
  /\ Reversals \subseteq Plans
  /\ \A s \in Selections :
       /\ \A p \in TypingPlans[s] : p.after \in Carets
       /\ \A stages \in CaretPlans[s] : Last(stages).after \in Carets

ASSUME OptionAssumption ==
  /\ None \notin MarkSets
  /\ Keep \notin Option(MarkSets)
  /\ Times \subseteq Nat
  /\ {ConsumePending, CaptureOnTraversal, PreserveEditingState,
      PreserveGroupOnMove} \subseteq BOOLEAN
  /\ MaxRevision \in Nat

VARIABLES
  store, revision,    \* the document: its store and DocumentRevision
  selection,
  undo, redo,         \* HistoryStack
  grouping,           \* GroupingState
  marks,              \* stored_marks
  token,              \* input_rule_undo
  hsb, fsb,           \* history_/finalization_selection_before
  phase,              \* where the running call is
  saved,              \* locals of with_transient_rollback
  taken,              \* the entry popped by undo_inner / redo_inner
  prepared,           \* PreparedCut
  outcome,            \* what the last call returned
  begun,              \* auxiliary: the session as the running call found it
  heard               \* auxiliary: what a listener knows

document == <<store, revision>>
stacks == <<undo, redo>>
vars == <<store, revision, selection, undo, redo, grouping, marks, token, hsb, fsb,
          phase, saved, taken, prepared, outcome, begun, heard>>

-----------------------------------------------------------------------------
(* Types.                                                                  *)

PendingMarks == Option(MarkSets)

\* InputRuleUndoToken: the reversal, and where it is offered.
Token ==
  [reversal : Plan, marks : PendingMarks \cup {Keep}, revision : Nat, at : Selections]

\* Everything of the session a caller can see or an undo depends on.
SessionState ==
  [store : Stores, revision : Nat, selection : Selections,
   undo : Seq(HistoryEntry), redo : Seq(HistoryEntry), grouping : GroupingState,
   marks : PendingMarks, token : Option(Token)]

Transient ==
  [selection : Selections, marks : PendingMarks, grouping : GroupingState,
   hsb : Option(Selections), fsb : Option(Selections), token : Option(Token)]

Candidate == [store : Stores, revision : Nat, selection : Selections, entry : HistoryEntry]

Phases == {"idle", "intent", "collapsed", "apply", "undoing", "redoing", "cut"}

TypeOK ==
  /\ store \in Stores
  /\ revision \in Nat
  /\ selection \in Selections
  /\ undo \in Seq(HistoryEntry)
  /\ redo \in Seq(HistoryEntry)
  /\ grouping \in GroupingState
  /\ marks \in PendingMarks
  /\ token \in Option(Token)
  /\ hsb \in Option(Selections)
  /\ fsb \in Option(Selections)
  /\ phase \in Phases
  /\ saved \in Option(Transient)
  /\ taken \in Option(HistoryEntry)
  /\ prepared \in Option(Candidate)
  /\ outcome \in {"None", "DocumentChanged", "SelectionChanged", "NoChange", "Error"}
  /\ begun \in Option(SessionState)
  /\ heard \in [store : Stores, revision : Nat, selection : Selections]

Session ==
  [store |-> store, revision |-> revision, selection |-> selection,
   undo |-> undo, redo |-> redo, grouping |-> grouping, marks |-> marks, token |-> token]

Init ==
  /\ store = InitialStore
  /\ revision = 0
  /\ selection = InitialSelection
  /\ undo = <<>>
  /\ redo = <<>>
  /\ grouping = NewGrouping
  /\ marks = None
  /\ token = None
  /\ hsb = None
  /\ fsb = None
  /\ phase = "idle"
  /\ saved = None
  /\ taken = None
  /\ prepared = None
  /\ outcome = "None"
  /\ begun = None
  /\ heard = [store |-> InitialStore, revision |-> 0, selection |-> InitialSelection]

-----------------------------------------------------------------------------
(* with_transient_rollback.                                                *)

\* Mutant: the outer selection is not captured for finalization.
EnterWithoutOrigin(p) ==
  /\ phase = "idle"
  /\ phase' = p
  /\ saved' = [selection |-> selection, marks |-> marks, grouping |-> grouping,
               hsb |-> hsb, fsb |-> fsb, token |-> token]
  /\ fsb' = fsb
  /\ begun' = Session
  /\ outcome' = "None"

\* Entering an operation: its locals, and the outermost selection.
Enter(p) ==
  /\ phase = "idle"
  /\ phase' = p
  /\ saved' = [selection |-> selection, marks |-> marks, grouping |-> grouping,
               hsb |-> hsb, fsb |-> fsb, token |-> token]
  /\ fsb' = IF fsb = None THEN selection ELSE fsb
  /\ begun' = Session
  /\ outcome' = "None"

\* Mutant: the outermost operation leaves its target's origin behind.
LeaveKeepsOrigin(result) ==
  /\ phase' = "idle"
  /\ hsb' = hsb
  /\ fsb' = saved.fsb
  /\ saved' = None
  /\ taken' = None
  /\ begun' = None
  /\ outcome' = result

\* Leaving it, on success and on error alike.
Leave(result) ==
  /\ phase' = "idle"
  /\ hsb' = saved.hsb
  /\ fsb' = saved.fsb
  /\ saved' = None
  /\ taken' = None
  /\ begun' = None
  /\ outcome' = result

\* Mutant: the failed operation leaves its target behind.
RestoreKeepsTarget ==
  /\ selection' = selection
  /\ marks' = saved.marks
  /\ grouping' = saved.grouping
  /\ token' = saved.token

RestoreTransient ==
  /\ selection' = saved.selection
  /\ marks' = saved.marks
  /\ grouping' = saved.grouping
  /\ token' = saved.token

\* Any planning, Core, selection or policy error of an operation.
Fail ==
  /\ phase \in {"intent", "collapsed", "apply"}
  /\ RestoreTransient
  /\ Leave("Error")
  /\ UNCHANGED <<store, revision, undo, redo, prepared, heard>>

-----------------------------------------------------------------------------
(* Committing: prepare_commit_at, finalize_candidate, commit_staged and    *)
(* publish_prepared_commit.                                                *)

EdgeOf(plan) == [from |-> plan.from, to |-> plan.to]
TransactionOf(stages) == [i \in 1..Len(stages) |-> EdgeOf(stages[i])]

\* Mutant: the after-selection is published unchecked.
AppliesUnchecked(stages) == Accepts(TransactionOf(stages), store)

\* The stages run on the live document and its hidden successors, and the
\* selection they resolve to is valid for the candidate.
Applies(stages) ==
  /\ Accepts(TransactionOf(stages), store)
  /\ Last(stages).after \in ValidAt[Last(stages).to]

\* Mutant: an amendment may move pending marks off the caret.
AmendsUnderMarks(amendment, stages, pending) ==
  /\ Last(stages).to # store
  /\ amendment.from = Last(stages).to
  /\ amendment.after \in ValidAt[amendment.to]

\* finalize_candidate: the policy may amend a local candidate that differs
\* from the live document; pending marks must stay on a caret.
Amends(amendment, stages, pending) ==
  /\ Last(stages).to # store
  /\ amendment.from = Last(stages).to
  /\ amendment.after \in ValidAt[amendment.to]
  /\ pending # None => amendment.after \in Carets

\* The edit sequences a candidate may end up with.
Finalizations(stages, pending) ==
  {stages} \cup
  {Append(stages, a) : a \in {b \in Amendments : Amends(b, stages, pending)}}

\* Mutant: the target replaces the selection the operation came from.
EntryForgetsTarget(final, group) ==
  LET back == InverseOf(TransactionOf(final)) IN
  [redo |-> InverseOf(back), undo |-> back, before |-> selection,
   after |-> Last(final).after, group |-> group]

\* The history entry of a candidate; redo is the inverse of the undo, so it
\* restores the identities the commit allocated.
EntryOf(final, group) ==
  LET back == InverseOf(TransactionOf(final)) IN
  [redo   |-> InverseOf(back),
   undo   |-> back,
   before |-> IF hsb # None THEN hsb ELSE selection,
   after  |-> Last(final).after,
   group  |-> group]

\* Mutant: the candidate is given the revision its last transaction ran on.
RevisionBeforeLast(final) == revision + Len(final) - 1

\* Every transaction of the candidate, a hidden stage or the amendment, took a
\* revision of its own (Transaction::apply).
RevisionOf(final) == revision + Len(final)

CandidateOf(final, group) ==
  [store |-> Last(final).to, revision |-> RevisionOf(final),
   selection |-> Last(final).after, entry |-> EntryOf(final, group)]

\* publish_prepared_commit, which cannot fail: g is the grouping state and m
\* the pending marks the operation has reached.
PublishCandidate(candidate, g, time, m, tok) ==
  /\ candidate.revision <= MaxRevision
  /\ store' = candidate.store
  /\ revision' = candidate.revision
  /\ selection' = candidate.selection
  /\ redo' = <<>>
  /\ undo' = Recorded(undo, candidate.entry, MayMerge(g, candidate.entry.group, time))
  /\ grouping' = GroupingAfter(g, candidate.entry.group, time)
  /\ marks' = m
  /\ token' = tok
  /\ heard' = [store |-> store', revision |-> revision', selection |-> selection']

Publish(candidate, g, time, m, tok) ==
  /\ PublishCandidate(candidate, g, time, m, tok)
  /\ Leave("DocumentChanged")
  /\ UNCHANGED prepared

\* EditPlan::with_stored_marks: an explicit override of the pending marks
\* needs a caret to hold them.
Override(marksAfter, pending) == IF marksAfter = Keep THEN pending ELSE marksAfter

OverrideAllowed(marksAfter, final) == marksAfter # Keep => Last(final).after \in Carets

\* prepare_input_rule_undo: the reversal must run on the final candidate,
\* and the token remembers where it is offered.
Offers(final) ==
  {None} \cup
  {[reversal |-> r, marks |-> m, revision |-> RevisionOf(final), at |-> Last(final).after] :
     r \in {p \in Reversals : p.from = Last(final).to /\ p.after \in ValidAt[p.to]},
     m \in PendingMarks \cup {Keep}}

OfferAllowed(tok) ==
  (tok # None /\ tok.marks # Keep) => tok.reversal.after \in Carets

-----------------------------------------------------------------------------
(* apply_intent_with_selection_inner: the operation starts at a target     *)
(* selection; a target other than the live one is installed tentatively.   *)

BeginIntent ==
  /\ Enter("intent")
  /\ \E target \in ValidAt[store] :
       \/ /\ target = selection
          /\ UNCHANGED <<selection, hsb, token, marks, grouping>>
       \/ /\ target # selection
          /\ selection' = target
          /\ hsb' = selection
          /\ token' = None
          /\ marks' = None
          /\ grouping' = Closed(grouping)
  /\ UNCHANGED <<store, revision, undo, redo, taken, prepared, heard>>

\* Mutant: the moved selection is not announced.
FinishSilently(s, m, g, t) ==
  /\ selection' = s
  /\ marks' = m
  /\ IF s = saved.selection
     THEN grouping' = g /\ token' = t /\ Leave("NoChange")
     ELSE grouping' = Closed(g) /\ token' = None /\ Leave("SelectionChanged")
  /\ UNCHANGED <<store, revision, undo, redo, prepared, heard>>

\* The end of an intent that committed nothing, with selection s, marks m,
\* grouping state g and token t: a selection that moved is published.
FinishUnchanged(s, m, g, t) ==
  /\ selection' = s
  /\ marks' = m
  /\ IF s = saved.selection
     THEN /\ grouping' = g
          /\ token' = t
          /\ UNCHANGED heard
          /\ Leave("NoChange")
     ELSE /\ grouping' = Closed(g)
          /\ token' = None
          /\ heard' = [heard EXCEPT !.selection = s]
          /\ Leave("SelectionChanged")
  /\ UNCHANGED <<store, revision, undo, redo, prepared>>

\* A default command that turns out to be a no-op; some close the typing
\* group, and of those some clear pending marks, before they find out.
NoChange ==
  /\ phase \in {"intent", "collapsed"}
  /\ \/ FinishUnchanged(selection, marks, grouping, token)
     \/ FinishUnchanged(selection, marks, Closed(grouping), token)
     \/ FinishUnchanged(selection, None, Closed(grouping), token)

\* toggle_, set_ and remove_stored_mark, and IntentDisposition::StoredMarks.
StorePendingMarks ==
  /\ phase = "intent"
  /\ selection \in Carets
  /\ \E m \in PendingMarks : FinishUnchanged(selection, m, Closed(grouping), token)

\* collapse_cell_range, before caret moves and cell navigation.
CollapseCellRange ==
  /\ phase = "intent"
  /\ selection \in CellRanges
  /\ phase' = "collapsed"
  /\ selection' = LeadingCaret[selection]
  /\ UNCHANGED <<store, revision, undo, redo, grouping, marks, token, hsb, fsb,
                 saved, taken, prepared, outcome, begun, heard>>

\* install_selection inside an intent: caret moves, SetSelection, Tab.
Navigate ==
  /\ phase = "collapsed" \/ (phase = "intent" /\ selection \notin CellRanges)
  /\ \E next \in ValidAt[store] :
       IF next = selection
       THEN FinishUnchanged(selection, marks, grouping, None)
       ELSE /\ selection' = next
            /\ token' = None
            /\ marks' = None
            /\ grouping' = IF PreserveGroupOnMove THEN grouping ELSE Closed(grouping)
            /\ heard' = [heard EXCEPT !.selection = next]
            /\ Leave("SelectionChanged")
            /\ UNCHANGED <<store, revision, undo, redo, prepared>>

\* Default InsertText: the open typing group may go on.
CommitTyping ==
  /\ phase = "intent"
  /\ \E plan \in TypingPlans[selection], time \in Option(Times) :
       /\ Applies(<<plan>>)
       /\ \E final \in Finalizations(<<plan>>, marks) :
            LET marksAfter == IF ConsumePending THEN None ELSE Keep IN
            /\ OverrideAllowed(marksAfter, final)
            /\ Publish(CandidateOf(final, plan.group), grouping, time,
                       Override(marksAfter, marks), None)

\* Default commands that close the group and keep pending marks: composition
\* commit, plain paste, Backspace, Delete, SplitBlock, image and table
\* insertion.  Composition consumes the marks where typing does; Enter and
\* Backspace that split, outdent or lift a list item may run in stages, which
\* leave the marks alone.
CommitInline ==
  /\ phase = "intent"
  /\ \E stages \in CaretPlans[selection] :
       /\ Applies(stages)
       /\ \E final \in Finalizations(stages, marks),
             marksAfter \in IF ConsumePending /\ Len(stages) = 1 THEN {None, Keep} ELSE {Keep} :
            /\ OverrideAllowed(marksAfter, final)
            /\ Publish(CandidateOf(final, Isolated), Closed(grouping), None,
                       Override(marksAfter, marks), None)

\* Commands that close the group and clear pending marks: joins, lists,
\* range marks, tables, task items, structured paste; some run in stages.
\* From a collapsed cell range only Tab gets here, to append a row.
CommitStructural ==
  /\ phase \in {"intent", "collapsed"}
  /\ \E stages \in StructuralPlans :
       /\ phase = "collapsed" => Len(stages) = 1
       /\ Applies(stages)
       /\ \E final \in Finalizations(stages, None) :
            Publish(CandidateOf(final, Isolated), Closed(grouping), None, None, None)

\* A plan of the host: IntentDisposition::Apply, apply_plan and raw apply.
\* It may keep the typing policy, override the marks and offer a reversal.
CommitHostPlan ==
  /\ phase \in {"intent", "apply"}
  /\ \E plan \in HostPlans :
       /\ Applies(<<plan>>)
       /\ \E final \in Finalizations(<<plan>>, None), marksAfter \in PendingMarks \cup {Keep} :
            \E tok \in Offers(final) :
              /\ OverrideAllowed(marksAfter, final)
              /\ OfferAllowed(tok)
              /\ Publish(CandidateOf(final, plan.group), Closed(grouping), None,
                         Override(marksAfter, None), tok)

\* IntentDisposition::UndoInputRule: an isolated forward edit.
UndoInputRule ==
  /\ phase = "intent"
  /\ token # None
  /\ token.revision = revision
  /\ token.at = selection
  /\ Applies(<<token.reversal>>)
  /\ \E final \in Finalizations(<<token.reversal>>, None) :
       /\ OverrideAllowed(token.marks, final)
       /\ Publish(CandidateOf(final, Isolated), Closed(grouping), None,
                  Override(token.marks, None), None)

-----------------------------------------------------------------------------
(* apply and apply_plan.                                                   *)

BeginApply ==
  /\ Enter("apply")
  /\ grouping' = Closed(grouping)
  /\ marks' = None
  /\ UNCHANGED <<store, revision, selection, undo, redo, token, hsb, taken, prepared, heard>>

-----------------------------------------------------------------------------
(* undo and redo.                                                          *)

\* Nothing to traverse: an answer without an operation worth rolling back.
TraverseNothing ==
  /\ phase = "idle"
  /\ undo = <<>> \/ redo = <<>>
  /\ outcome' = "NoChange"
  /\ IF PreserveEditingState
     THEN UNCHANGED <<marks, grouping>>
     ELSE marks' = None /\ grouping' = Closed(grouping)
  /\ UNCHANGED <<store, revision, selection, undo, redo, token, hsb, fsb,
                 phase, saved, taken, prepared, begun, heard>>

TakeUndo ==
  /\ undo # <<>>
  /\ Enter("undoing")
  /\ marks' = None
  /\ grouping' = Closed(grouping)
  /\ taken' = Last(undo)
  /\ undo' = Front(undo)
  /\ UNCHANGED <<store, revision, selection, redo, token, hsb, prepared, heard>>

TakeRedo ==
  /\ redo # <<>>
  /\ Enter("redoing")
  /\ marks' = None
  /\ grouping' = Closed(grouping)
  /\ taken' = Last(redo)
  /\ redo' = Front(redo)
  /\ UNCHANGED <<store, revision, selection, undo, token, hsb, prepared, heard>>

\* Mutant: a traversal leaves the input-rule token standing.
ReplayKeepsToken(tx, landing) ==
  /\ revision < MaxRevision
  /\ Accepts(tx, store)
  /\ landing \in ValidAt[ResultOf(tx)]
  /\ store' = ResultOf(tx)
  /\ revision' = revision + 1
  /\ selection' = landing
  /\ token' = token
  /\ heard' = [store |-> store', revision |-> revision', selection |-> selection']

\* apply_history_transaction: replay, validate, publish.
Replay(tx, landing) ==
  /\ revision < MaxRevision
  /\ Accepts(tx, store)
  /\ landing \in ValidAt[ResultOf(tx)]
  /\ store' = ResultOf(tx)
  /\ revision' = revision + 1
  /\ selection' = landing
  /\ token' = None
  /\ heard' = [store |-> store', revision |-> revision', selection |-> selection']

\* Capturing overwrites the side of the entry the next traversal lands on.
Undone(entry) == IF CaptureOnTraversal THEN [entry EXCEPT !.after = selection] ELSE entry
Redone(entry) == IF CaptureOnTraversal THEN [entry EXCEPT !.before = selection] ELSE entry

ReplayUndo ==
  /\ phase = "undoing"
  /\ Replay(taken.undo, taken.before)
  /\ redo' = Append(redo, Undone(taken))
  /\ Leave("DocumentChanged")
  /\ UNCHANGED <<undo, grouping, marks, prepared>>

ReplayRedo ==
  /\ phase = "redoing"
  /\ Replay(taken.redo, taken.after)
  /\ undo' = Append(undo, Redone(taken))
  /\ Leave("DocumentChanged")
  /\ UNCHANGED <<redo, grouping, marks, prepared>>

\* Mutant: the popped entry of a rejected traversal is lost.
FailTraversalLosesEntry ==
  /\ phase \in {"undoing", "redoing"}
  /\ RestoreTransient
  /\ Leave("Error")
  /\ UNCHANGED <<store, revision, undo, redo, prepared, heard>>

\* A rejected traversal puts the entry back where it was.
FailTraversal ==
  /\ \/ phase = "undoing" /\ undo' = Append(undo, taken) /\ redo' = redo
     \/ phase = "redoing" /\ redo' = Append(redo, taken) /\ undo' = undo
  /\ RestoreTransient
  /\ Leave("Error")
  /\ UNCHANGED <<store, revision, prepared, heard>>

-----------------------------------------------------------------------------
(* The remaining public calls.                                             *)

CloseHistoryGroup ==
  /\ phase = "idle"
  /\ grouping' = Closed(grouping)
  /\ outcome' = "None"
  /\ UNCHANGED <<store, revision, selection, undo, redo, marks, token, hsb, fsb,
                 phase, saved, taken, prepared, begun, heard>>

\* set_document_, set_inline_, set_cell_range_ and set_atomic_selection.
SetSelection ==
  /\ phase = "idle"
  /\ \E next \in ValidAt[store] :
       /\ token' = None
       /\ selection' = next
       /\ IF next = selection
          THEN /\ outcome' = "NoChange"
               /\ UNCHANGED <<marks, grouping, heard>>
          ELSE /\ outcome' = "SelectionChanged"
               /\ marks' = None
               /\ grouping' = IF PreserveGroupOnMove THEN grouping ELSE Closed(grouping)
               /\ heard' = [heard EXCEPT !.selection = next]
  /\ UNCHANGED <<store, revision, undo, redo, hsb, fsb, phase, saved, taken, prepared, begun>>

\* prepare_cut evaluates everything fallible and changes nothing; the final
\* selection must be a caret because publication clears the marks.
PrepareCut ==
  /\ phase = "idle"
  /\ \E plan \in CutPlans :
       /\ Applies(<<plan>>)
       /\ \E final \in Finalizations(<<plan>>, marks) :
            /\ OverrideAllowed(None, final)
            /\ prepared' = CandidateOf(final, Isolated)
  /\ phase' = "cut"
  /\ begun' = Session
  /\ outcome' = "None"
  /\ UNCHANGED <<store, revision, selection, undo, redo, grouping, marks, token, hsb, fsb,
                 saved, taken, heard>>

\* The host's clipboard write succeeded.
PublishCut ==
  /\ phase = "cut"
  /\ prepared' = None
  /\ PublishCandidate(prepared, grouping, None, None, None)
  /\ phase' = "idle"
  /\ begun' = None
  /\ outcome' = "DocumentChanged"
  /\ UNCHANGED <<hsb, fsb, saved, taken>>

\* Dropping the guard: the clipboard write failed or the cut was abandoned.
CancelCut ==
  /\ phase = "cut"
  /\ prepared' = None
  /\ phase' = "idle"
  /\ begun' = None
  /\ outcome' = "None"
  /\ UNCHANGED <<store, revision, selection, undo, redo, grouping, marks, token, hsb, fsb,
                 saved, taken, heard>>

Next ==
  \/ BeginIntent \/ NoChange \/ StorePendingMarks \/ CollapseCellRange \/ Navigate
  \/ CommitTyping \/ CommitInline \/ CommitStructural \/ CommitHostPlan \/ UndoInputRule
  \/ BeginApply \/ Fail
  \/ TraverseNothing \/ TakeUndo \/ TakeRedo \/ ReplayUndo \/ ReplayRedo \/ FailTraversal
  \/ CloseHistoryGroup \/ SetSelection \/ PrepareCut \/ PublishCut \/ CancelCut

Spec == Init /\ [][Next]_vars

-----------------------------------------------------------------------------
(* Safety.                                                                 *)

\* The stacks with the entry a running traversal holds.
UndoStack == IF phase = "undoing" THEN Append(undo, taken) ELSE undo
RedoStack == IF phase = "redoing" THEN Append(redo, taken) ELSE redo

Start(entry) == entry.redo[1].from
Finish(entry) == ResultOf(entry.redo)

\* An entry replays in both directions, and each direction lands on a
\* selection of the document it produces.
EntryReplays(entry) ==
  /\ Accepts(entry.redo, Start(entry))
  /\ Accepts(entry.undo, Finish(entry))
  /\ ResultOf(entry.undo) = Start(entry)
  /\ entry.before \in ValidAt[Start(entry)]
  /\ entry.after \in ValidAt[Finish(entry)]

\* From store s every entry of the stack in turn, newest first, undoes.
UndoReaches(stack, s) ==
  /\ \A i \in 1..Len(stack) : EntryReplays(stack[i])
  /\ \A i \in 1..(Len(stack) - 1) : Finish(stack[i]) = Start(stack[i + 1])
  /\ stack # <<>> => Finish(Last(stack)) = s

\* And every entry of the redo stack in turn redoes.
RedoReaches(stack, s) ==
  /\ \A i \in 1..Len(stack) : EntryReplays(stack[i])
  /\ \A i \in 1..(Len(stack) - 1) : Start(stack[i]) = Finish(stack[i + 1])
  /\ stack # <<>> => Start(Last(stack)) = s

(* The whole history replays: from the live document every undo entry in   *)
(* turn, and every redo entry in turn, is accepted by Core and lands on a  *)
(* valid selection, whatever was merged, amended, captured or put back     *)
(* after a rejected traversal (history.rs, commit.rs, mod.rs undo_inner).  *)
HistoryReplays == UndoReaches(UndoStack, store) /\ RedoReaches(RedoStack, store)

(* The selection is valid for the live document at every moment, tentative *)
(* ones included (mod.rs, "always valid for the current snapshot").        *)
SelectionValid == selection \in ValidAt[store]

\* Inside a call: what its locals hold, so that every way out of it, error or
\* publication, finds a selection and entries that still fit the document.
Running == {"intent", "collapsed", "apply", "undoing", "redoing"}
CallOK ==
  /\ phase \notin Running => hsb = None
  /\ hsb # None => hsb \in ValidAt[store]
  /\ phase \in Running =>
       /\ saved \in Transient
       /\ saved.hsb = None
       /\ saved.selection \in ValidAt[store]
  /\ phase \in {"undoing", "redoing"} => taken \in HistoryEntry /\ EntryReplays(taken)
  /\ phase = "cut" =>
       /\ prepared \in Candidate
       /\ EntryReplays(prepared.entry)
       /\ Start(prepared.entry) = store
       /\ Finish(prepared.entry) = prepared.store
       /\ prepared.revision > revision
       /\ prepared.selection \in ValidAt[prepared.store]

\* The stacks as they are: a running traversal holds one entry of its own.
StacksOK ==
  /\ IF phase = "undoing"
     THEN Finish(taken) = store /\ UndoReaches(undo, Start(taken))
     ELSE UndoReaches(undo, store)
  /\ IF phase = "redoing"
     THEN Start(taken) = store /\ RedoReaches(redo, Finish(taken))
     ELSE RedoReaches(redo, store)

(* The inductive invariant behind HistoryReplays and SelectionValid: it    *)
(* also says what a call in progress holds.                                *)
IInv == TypeOK /\ SelectionValid /\ CallOK /\ StacksOK

(* An open typing group is the newest undo entry, it is a typing entry,    *)
(* and nothing is left to redo: the next keystroke can only extend the     *)
(* unit it continues (history.rs, record and break_group).                 *)
OpenGroupIsNewest ==
  grouping.open =>
    /\ undo # <<>>
    /\ Last(undo).group # Isolated
    /\ redo = <<>>

(* Pending marks exist only while a caret can hold them; ranges, gaps and  *)
(* whole-node selections never carry them, whatever a policy amends        *)
(* (stored_marks.rs, finalization.rs, commit.rs).                          *)
PendingMarksOnCaret == marks # None => selection \in Carets

(* Between calls an input-rule token is only ever offered where it was     *)
(* created: same snapshot, same selection, and its reversal runs there     *)
(* (input_rule_undo.rs, and every place that drops the token).             *)
TokenIsFresh ==
  phase = "idle" /\ token # None =>
    /\ token.revision = revision
    /\ token.at = selection
    /\ token.reversal.from = store
    /\ token.reversal.after \in ValidAt[token.reversal.to]

(* The selection finalize_edit is told the operation started from is the   *)
(* one the call found, through tentative targets and collapsed ranges      *)
(* (finalization.rs, finalize_candidate).                                  *)
FinalizerOrigin == IF fsb # None THEN fsb ELSE IF hsb # None THEN hsb ELSE selection
FinalizerSeesOuterSelection == phase # "idle" => FinalizerOrigin = begun.selection

(* A listener that only believes its notifications knows the live document *)
(* and selection whenever no call is running (listener.rs; the view layer  *)
(* renders from these notifications).                                      *)
ListenersInSync ==
  phase = "idle" => heard = [store |-> store, revision |-> revision, selection |-> selection]

-----------------------------------------------------------------------------
(* Action properties.                                                      *)

\* The session as the returning call found it.
Found == IF phase = "idle" THEN Session ELSE begun

\* One unit of history moved and no other one changed: it was recorded, alone
\* or into the newest one, and nothing is left to redo; or it went from one
\* stack to the other.
OneUnitMoved ==
  \/ redo' = <<>> /\ undo' # <<>> /\ Front(undo') \in {Found.undo, Front(Found.undo)}
  \/ /\ Found.undo # <<>> /\ undo' = Front(Found.undo)
     /\ redo' # <<>> /\ Front(redo') = Found.redo
  \/ /\ Found.redo # <<>> /\ redo' = Front(Found.redo)
     /\ undo' # <<>> /\ Front(undo') = Found.undo

(* What a call answers is what happened: an error leaves the session       *)
(* exactly as the call found it, a no-op leaves document, selection and    *)
(* history, a selection change leaves document and history, and a document *)
(* change, in however many stages and amended or not, is a later revision  *)
(* and one unit of history (outcome.rs).                                   *)
Honest(result) ==
  CASE result = "Error" -> Session' = Found
    [] result = "NoChange" ->
         /\ <<store', revision', undo', redo', selection'>> =
              <<Found.store, Found.revision, Found.undo, Found.redo, Found.selection>>
         /\ heard' = heard
    [] result = "SelectionChanged" ->
         /\ <<store', revision', undo', redo'>> =
              <<Found.store, Found.revision, Found.undo, Found.redo>>
    [] result = "DocumentChanged" -> revision' > Found.revision /\ OneUnitMoved
    [] OTHER -> <<store', revision', selection'>> = <<store, revision, selection>>
OutcomeIsHonest == [][phase' = "idle" => Honest(outcome')]_vars

\* A commit that extended the newest undo entry instead of adding one.
Extends ==
  phase \in {"intent", "apply"} /\ revision' # revision /\ Len(undo') = Len(undo)

(* Keystrokes share an undo unit only while its group is open, and with a  *)
(* delay only within it, on a clock that never ran backwards (history.rs,  *)
(* GroupingState::record).                                                 *)
UnitsRespectDelay ==
  [][Extends =>
       /\ begun.grouping.open
       /\ Delay # None => grouping'.last - begun.grouping.last \in 0..Delay]_vars

(* The clock's high-water mark survives every boundary, rollback and       *)
(* traversal, so an old timestamp can never look recent (history.rs,       *)
(* GroupingState::close).                                                  *)
ClockNeverRewinds ==
  [][grouping.high # None => grouping'.high # None /\ grouping'.high >= grouping.high]_vars

(* Timed typing units: bounded by the delay, on a clock that only runs on. *)
TimedUnits == UnitsRespectDelay /\ ClockNeverRewinds

\* The entry a running operation has just pushed.
Pushed == phase \in {"intent", "collapsed", "apply"} /\ Len(undo') > Len(undo)

(* Undo of an edit returns to the selection from before the whole          *)
(* operation, also when it was planned at a tentative target (policy.rs,   *)
(* apply_intent_with_selection).  A cell range that Tab has collapsed is    *)
(* left out: that convergence is selection-only and no part of the history *)
(* (table.rs:56-58), so its undo lands on the caret it converged to.       *)
UndoReturnsFromTarget ==
  [][Pushed /\ phase # "collapsed" => Last(undo').before = begun.selection]_vars

-----------------------------------------------------------------------------
(* What undo promises, without stacks (UndoTimeline).                      *)

\* The documents in reach of a session: what the entries to undo started from,
\* the live document, and what the entries to redo end in.
DocumentsInReach(back, live, ahead) ==
  [i \in 1..(Len(back) + 1 + Len(ahead)) |->
     IF i <= Len(back) THEN Start(back[i])
     ELSE IF i = Len(back) + 1 THEN live
     ELSE Finish(ahead[Len(back) + 2 + Len(ahead) - i])]

Timeline ==
  INSTANCE UndoTimeline WITH
    Documents <- Stores,
    FirstDocument <- InitialStore,
    timeline <- DocumentsInReach(UndoStack, store, RedoStack),
    here <- Len(UndoStack) + 1,
    live <- store

(* The session implements the undo timeline: an edit, a merged keystroke,  *)
(* an undo and a redo are the only ways the document moves, each arrives   *)
(* at exactly the document that was left, and a failed or cancelled call   *)
(* is no step at all (mod.rs, history.rs, commit.rs).                      *)
ImplementsTimeline == Timeline!Spec
=============================================================================
