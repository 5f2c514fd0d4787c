# A formal model of Xiaomu

Xiaomu is a rich-text editor core written in Rust: a canonical document tree
with atomic transactions (`xiaomu-core`), an editing session with selection,
undo history and host policy (`xiaomu-runtime`), a native frontend
(`xiaomu-gpui`) and a Markdown codec. This directory holds TLA+ modules that
model the transaction engine, tables included, the session and its planners,
the clipboard and the reading of documents, and the frontend's input methods
and gestures; TLC configurations that check them on small instances; and
proofs, checked by TLAPS, of the central invariants.

Paths below are relative to the repository; `core`, `runtime` and `gpui` stand
for `crates/xiaomu-core/src`, `crates/xiaomu-runtime/src` and
`crates/xiaomu-gpui/src`.

## 1. The system

### Parts, their state and their operations

| Part | State | Operations | What makes it correct |
|---|---|---|---|
| Document (`core/document`) | an immutable snapshot: root, node store, revision, lineage, next node id | validation, lookup | one tree under the root, every node reachable and referenced once, kinds allow their children, atoms placed in offset order, tables rectangular |
| Transactions (`core/transaction`) | the working store of one `apply_steps` call | twenty-odd steps on text, marks, atoms, nodes, tables, whole documents | all or nothing; the recorded inverse restores the old store exactly, and so does the inverse of the inverse; ids are never reused |
| Mapping (`core/mapping.rs`, `inline_mapping.rs`) | none, a list of step maps | map text points, inline points, gaps, node selections | a live position maps to a live position or to "deleted"; order and the side of an atom are kept |
| Tables (`core/document/table_grid.rs`, `transaction/apply/table*`) | the grid derived from rows, cells and spans; budgets | insert and delete axes, merge and split spans, isolate and replace rectangles | every logical slot covered once; spans inside the grid; inverses exact; limits refused before allocation |
| Forests, document replacement (`core/transaction/forest`, `apply/document.rs`) | templates with local ids, lineage tokens, budgets | insert a forest, replace and restore a document | fresh ids, restoration only onto the store it was recorded for |
| Session (`runtime/session`) | document, selection, undo and redo stacks, typing group, pending marks, input-rule token, transient origins | apply intents, plans and transactions; undo, redo; selection setters; prepared cut; close group | history always replays; calls are atomic; answers and notifications are true; nothing stale is offered |
| Planners (`runtime/session/*.rs` that build plans) | none | intent and document to `EditPlan` | the plan is accepted and lands where the user expects |
| Host policy (`SessionPolicy`) | the host's own | override an intent, validate, amend a candidate (`finalize_edit`) | one amendment per candidate, told the true origin |
| Clipboard (`runtime/clipboard*`) | fragments, projections, export budgets | export, wire encode and decode, import | round trip; limits |
| Reading (`runtime/reading`) | none | projection, prefix, search | positions of the projection map back |
| Frontend (`gpui`) | views, children, focus, composition, drags, caches | native input, focus, layout, clipboard, image import, column resize | derived state follows the document; late answers and stale gestures are refused; text of a composition enters once |
| Markdown codec, persistence seam, example harness | file, codec limits | parse, serialize, atomic save | round trip; old or new file, whole |

### How they interact

The frontend turns native events into intents and calls one session through a
shared `RefCell`. `DocumentSession` resolves the intent (asking the policy
first), a planner produces an `EditPlan`, Core applies its transaction to the
live snapshot and returns a candidate, the inverse and the change map, through
which the selection is mapped; the policy may amend and must accept the
candidate; only then document, selection, history, marks and token are
replaced, and listeners are called. Undo and redo apply recorded
transactions. A `PreparedCut` holds the session mutably while the host writes
the platform clipboard. Nothing below the frontend is concurrent: `&mut self`
serialises calls. What is hard there is the order of things *inside* a call, the
sequences of calls that history, groups, tokens and marks depend on, and the
exact inverse of every step in every context. The frontend is one thread too,
but events, frames, deferred work, host callbacks and the platform's input
method interleave, and a gesture spans many of them.

### Hard behaviours

`PROJECT.json` lists them as hazards, each at its line, with the properties
that guard it. The groups are: tentative changes and their rollback
(`policy.rs`, `mod.rs`); redo derived from the inverse of undo (`commit.rs`);
typing groups, merging and timestamps (`history.rs`); the host's amendments
(`finalization.rs`); tokens and pending marks that outlive their caret;
inverses of text, mark, atom, split, join and kind steps (`inverse.rs`,
`apply*`); positions at seams (`mapping.rs`, `inline_mapping.rs`); identities
over undo (`subtree_restore.rs`, `apply/document.rs`); deletion through merged
cells and the shared grid budget (`table_axis`, `table_grid.rs`); staged
plans and payloads captured too early (`cross_block.rs`, `paste_hierarchy.rs`);
boundaries in projections (`position.rs`, `visual_navigation.rs`, `clipped.rs`);
writer and reader of the clipboard that disagree (`wire.rs`); and in the
frontend compositions that end in different orders, children rebuilt under an
input handler, answers that come late, caches keyed by a revision, commits
deferred to the end of a frame, and scrolls that several parties ask for
(`reading_scroll.rs`).

## 2. Modules

| Modules | Model | Role |
|---|---|---|
| `HistoryStack` | `runtime/session/history.rs` | operators on stacks, entries and the typing group |
| `Session` | `runtime/session/{mod,policy,commit,finalization,dispatch,stored_marks,caret,input_rule_undo,prepared_cut,history_options,table}.rs` | the state machine of the session |
| `UndoTimeline` | what undo promises, no code of its own | abstract specification |
| `InlineContent` | `core/document/content.rs`, `transaction/inline.rs`, `inline_atom.rs`, `split_content`, `spans_within` | operators on mixed inline content |
| `StepMaps` | `core/mapping.rs`, `inline_mapping.rs` | the maps of a step and of a transaction |
| `TreeTransaction` | `core/transaction/{apply,step,inverse}.rs`, `apply/{atom,structure,subtree_restore}.rs`, `document/{snapshot,store,node,input_marks}.rs` | the transaction engine as a state machine |
| `TableGrid` | `core/document/{table_grid,table_attrs}.rs` | occupancy, closed rectangles, budget, validation |
| `TableSteps`, `TableTemplates`, `TableTransaction` | `core/transaction/apply/table*`, `table_restore*`, `forest`, `apply/document.rs` | the table steps, templates, and sequences of steps |
| `TableSelections`, `TableSession` | `runtime/session/{selection,cell_range,table,table_commands,cell_edit,paste_table}.rs` | the session of table commands, with undo and redo |
| `LogicalTable` | what table editing promises | abstract specification |
| `CellExport` | `runtime/clipboard/cell_export*` | copies of cell ranges |
| `BlockPlans`, `BlockStructure`, `BlockRanges`, `BlockPaste` | the planners of `runtime/session`, `clipboard/{projection,fragment}.rs` | plans of intents, over `TreeTransaction` |
| `BlockSession` | `runtime/session/{selection,dispatch,resolve,commit,caret}.rs` | a session that runs those plans |
| `AtomDisplay`, `Navigation` | `gpui/inline_atom_display.rs`, `document_view/{navigation,visual_navigation,actions}.rs` | the display string, keyboard motion over it |
| `Reading` | `runtime/reading` | projection, positions, prefixes, search |
| `ClipboardWire` | `runtime/clipboard/{wire,export_budget,text_projection}.rs` | provenance, versions, what a reader accepts |
| `EditorViews` | `gpui/document_view`, `gpui/block_view`, `gpui/input/composition.rs` | views, children, focus, input methods |
| `EditorHost`, `TableCapability`, `ColumnResize`, `AtomGestures`, `EditorClipboard` | the same names under `gpui` | gestures that span events and callbacks |
| `EditorGestures` | | the composition of those five |
| `ReadingReveal` | `gpui/document_view/reading*.rs`, `gpui/block_view/{reading,scroll,passive}.rs`, `document_view/{child_sync,host_passive_plan,table_scroll}.rs` | highlights, reveals, caret scrolls, the start of reading |
| `MCSession`, `MCTree`, `MCTable`, `MCBlocks`, `MCEditor`, `MCGestures`, `MCReveal` | | instances for TLC |
| `SessionProofs`, `SessionTimelineProofs` | | theorems about the session |
| `EditorViewProofs`, `GestureProofs` | | theorems about the frontend |
| `TreeProofs` | | theorems about the ids of the tree engine and position mapping |
| `InlineProofs` | | theorems about inline content and its edits |
| `TreeShapeProofs` | | theorems about the shape of the tree under edits |
| `TreeMappingProofs` | | theorems about positions carried through edits |

`PROJECT.json` maps every definition to the lines it stands for. A definition
whose comment begins with "Mutant" is none of the model's: it is the model's
next definition with a plausible bug.

### Session

A public call runs to its end before the next, but within it the session is
in tentative states, and every error leaves from one of them. `phase` is the
place inside the call:

- `idle`: no call is running.
- `intent`: `BeginIntent` has entered `with_transient_rollback` (`saved` holds
  its locals) and installed the target selection, clearing token and marks and
  closing the group when the target is not the live selection. From here a
  call ends in `NoChange`, `StorePendingMarks`, `Navigate`, one of the
  `Commit...` actions, `UndoInputRule` or `Fail`.
- `collapsed`: `collapse_cell_range` has replaced a cell range by its anchor's
  leading caret, before navigation or an appended row.
- `apply`: `apply` and `apply_plan`, which close the group and clear the marks.
- `undoing`, `redoing`: the entry is off its stack (`taken`) and has not been
  replayed yet; `ReplayUndo`/`ReplayRedo` publish, `FailTraversal` puts it
  back and restores the rest.
- `cut`: a `PreparedCut` is alive; `PublishCut` or `CancelCut` ends it. The
  borrow keeps every other call out, in the code and in the model.

`Fail` is enabled wherever the code can return an error: planner errors, Core
refusals, invalid selections, policy vetoes and failed amendments all take the
same way out. Committing is one action because `prepare_commit_at` takes
`&self` and publication cannot fail; its parts are the operators `Applies`,
`Finalizations`, `EntryOf`, `Offers` and `PublishCandidate`. A listener is the
variable `heard`, updated by exactly the notifications the code sends. `begun`
remembers the session as the call found it; it is auxiliary.

A Core transaction is a sequence of *edges* between stores: Core accepts an
edge on the store it was recorded for and leaves the other end, and its
inverse is the reversed edges in reverse order. That is the contract of
`AppliedTransaction` and an assumption of `Session`. `TreeTransaction` checks
the contract at the level of steps, in `tree_inline` and `tree_blocks`, and
`TableSession` for tables; `tree_kinds` shows the one place where Core breaks
it (section 5). The break cannot corrupt a session's history:
`prepare_commit_at` derives redo by applying the undo to the candidate, so a
plan whose inverse is refused is refused as a whole before anything is
published. It can make an edit fail that Core alone accepts.

Planners and the policy are the environment here. They offer any plan of the
sets given as constants, with the shape the code guarantees (`PlanAssumption`:
default typing and the commands that keep pending marks end on a caret). The
planners themselves are in the block and table modules.

### UndoTimeline

The abstract specification knows no stacks: a row of documents, a place in it
and the live document, which is always the one of that place. An edit cuts off
what lies ahead and adds a document, or replaces the newest one (typing that
continues a unit); undo and redo step. `ImplementsTimeline` is its `Spec`
under the mapping at the end of `Session`: `DocumentsInReach` lists the undo
entries' starting documents, the live one, the redo entries' results. It
includes the entry a running traversal holds, so taking, failing and putting
back are stuttering steps.

### InlineContent, StepMaps, TreeTransaction

Text is a sequence of marked letters. Normalized text runs are the maximal
stretches of equal marks, so runs and letters determine each other, and run
merging needs no model. Atoms have an offset and an order among the atoms
there; a gap is an offset and an ordinal. Offsets count letters; a byte offset
inside a letter, which the code refuses, has no counterpart. Affinity is
carried through mapping unchanged in the code and left out.

`TreeTransaction` keeps a committed document (`doc`) and the working document
(`work`) of the transaction being built. `Step(s)` applies one offered step
with all its guards, recording its map and prepending its group of inverse
steps; `Commit` validates the whole tree and publishes; `Reject` is a refused
step or a refused tree and drops everything; `ApplyInverse` runs the recorded
inverse of the last transaction and records *its* inverse, as undo and redo
do. The code runs the steps of a transaction in one call; a state per prefix
only makes more prefixes visible to the invariants. The steps offered are
those a caller can build: every node, offset, gap and range of the working
document. The steps only inverses contain (`RestoreSubtree`,
`RestoreInlineAtom`, `RestoreJoinedNode`) are run by `ApplyInverse`.

### Tables

`TableGrid` places the cells of a row-major layout on the slots they cover and
says when a document is valid; `TableSteps` has the steps with their guards,
maps and inverses, `TableTemplates` the trees a step gives fresh identities to,
`TableTransaction` the application of a sequence of steps with one validation
at the end and the guards of `RestoreDocument`. `TableSession` plans steps from
intents and selections (`TableSelections`), commits them and traverses. Its
actions are calls: a command from any selection, a host plan of one step, undo,
redo. A text is one value, so a text edit in a cell replaces all of it.

`LogicalTable` states what a user of tables relies on: a matrix of slots, each
holding the cell that covers it. `LogicalRefinement` says that every action is
one of its edits, without an id that any earlier document held.

`CellExport` is the copy of a cell range as a table of its own, whole cells or
clipped at the range's edge; `ClipsAreExact` compares it slot by slot with the
source.

### Blocks, navigation, reading, clipboard

`BlockPlans`, `BlockStructure`, `BlockRanges` and `BlockPaste` translate the
planners, whose plans `TreeTransaction`'s operators then apply: a staged plan
is a chain of transactions, each planned on the result of the one before.
`BlockSession` is one session with a selection: an intent, its plan, the commit
and the selection afterwards; moves that change the selection alone; copy and
paste. `EditsAreExact` states what an edit is in terms of the document read as
a sequence of tokens; it knows nothing of stages, joins or payloads.

`Navigation` moves the caret over the string that `AtomDisplay` lays out;
`Reading` is the projection of a document with its position tables, in both
directions, its prefixes and its search, each against a declarative reading of
the document; `ClipboardWire` is the metadata of a copy: writer, preflight
budget, reader, versions, frames. They have no state of their own and their
properties range over the documents the block session reaches and over sample
documents of up to four letters and two atoms.

### EditorViews

The window has one focus, one owner of the platform's input handler
(`handler`), and an input method that begins, updates, commits, cancels or
unmarks a composition in the order of its platform. Each view has children that
follow the document when a frame is drawn, and a child that is dropped takes
its composition with it. An entity is a view, a part (block, cell, range
proxy), a node and whether it still lives; `Kept` marks what a sync dropped.
`Draw` and the event actions are whole handlers. Each composed text is used
once (`ime.left` holds those still to come), so that `CompositionEntersOnce`
can count it in the document.

### Gestures

`EditorHost` is what a view shares with its host: the session, the state that
gestures compare with, and the callback the host is inside of (`call`). Inside
a callback the host may edit, select, reload or reconfigure, and no other event
is delivered; afterwards the view reads everything anew. `TableCapability` is
the cache of keys per snapshot; `ColumnResize` the drag with its preview, its
measurement by a frame and its deferred commit; `AtomGestures` activation of a
chip by key or by press and release; `EditorClipboard` the cut that is
prepared or generic, and an image import that answers late. A behaviour of
`EditorGestures` is of one of the three features: they share the host and
nothing else, so their product says nothing more.

### ReadingReveal

Over the same `EditorHost`, what a view shows a reader who does not edit. A
host asks for highlights and for the reveal of a range; a frame (`Draw`) drops
what belongs to another document, paints, and plans the scrolls of the reveal
from the innermost table outward (`Planned`); a deferred callback (`Deferred`)
makes them unless something came between, and the next frame confirms. A
focused caret asks for the same viewport: a child that wants its caret seen
queues a scroll in one frame, and `CaretScrolls` makes it before the next. The
scroll handles are `offset`; `reading`, `plan` and `frame` are the state the
view keeps between those steps, `caret` what its children keep. `steady` is
auxiliary: the last range asked for, until something other than the reveal
moves the view. A child that is built after the call asks for its own caret as
any new child does; a frame that builds the selection's child clears `steady`.
Geometry is one letter wide and one row high, with tables in tables and
viewports narrower than a range; positions are integers, and alignment, wraps
and mixed sizes are left out.

## 3. Runs

| Run | Question | Instance |
|---|---|---|
| `session_text` | is a unit of history one insertion within its delay, and do listeners know the live session? | one paragraph of at most 2 letters, 3 commits; delay 1, times 0 to 2, preserved groups and state, consumed marks |
| `session_policy` | is nothing stale (marks, tokens, origins) under a host that amends candidates and offers reversals? | 1 letter, a table of 1 or 2 rows, a cell range, a mark, revision 2, capture on traversal |
| `session_stages` | is a session an undo timeline whose histories replay, and does it answer honestly, when a commit may take several transactions? | the same without marks and reversals, commands of one and two stages, each amended or not, revision 3 |
| `tree_inline` | are inverses and mappings of text, mark, atom, split and join steps exact? | a paragraph of three letters under three mark sets with two atoms at one offset |
| `tree_blocks` | the same for node steps; are identities unique over undo and redo? | a paragraph and a quote of two blocks and an atom |
| `tree_kinds` | the same for changes of kind in nested lists (violated) | a task list of one item |
| `table_edits` | are table commands edits of a matrix of slots, with exact undo, no lost selection and exact copies? | tables of unit cells, of merged cells, of a nested table; two edits, undo, redo |
| `editor_input` | does composed text enter once, whatever the window does meanwhile? | two panes, one for reading; two paragraphs and a cell; bursts of 2 events between frames |
| `editor_commit` | does a commit stay in the block of its composition? (violated) | the same, both panes editing |
| `editor_gestures` | does a gesture deliver only what still fits the document? | three documents for a resize, two screens, two changes by the host |
| `editor_reveal` | is what a reader is shown, brought to or told is there in place, and is every reveal answered? | a caret's row, a table in a table two letters wide, two sizes of window; two reveals, two changes around them |
| `blocks` | do the default plans edit exactly what they name, and do copies, reading and motion agree with the document? | three documents, eight foreign slices, samples of at most four letters |

What the properties say, and which code they are about, is in the comment
above each definition.

**Bounds.** `MaxRevision` bounds the transactions applied by commits, undos and
redos together, `MaxEdits` and `MaxSteps` the steps offered overall and per
transaction. In a session every transaction takes a revision
(`Transaction::apply`), so a commit takes one for each of its stages and one
more when the policy amends it. Three revisions are an edit, a second one
(merged, or on top of it) and its undo, or an edit, its undo and its redo; or a
commit of two stages and its undo, or one of two stages that is amended. A
fourth adds no new kind of neighbour to the newest entry of either stack.
`session_policy` stops at two, for its reversals, marks and tables: an edit with an
amendment, or an edit that offers a reversal and what is done next. The
three runs give every option both values, and all but one of the session's
properties are proved without any bound. Two letters are the least for a typing unit of two
keystrokes and a text range. In the tree runs two steps show how a step meets
what another left (marks over inserted text, a join after a split, a removal of
something the transaction made), in one transaction and in two with an undo
between; three marked letters give every run boundary, and two atoms at one
offset every ordinal. Gaps and ranges are exhaustive on each instance.
`MappedOrderKept` is quadratic in the gaps; it and `MappedPositionsLive` are
checked on the inline instance only.

In `table_edits` the first edit is any step or command from any selection, the
second one of `Later`, which meets what every first edit can leave: a fresh
row, a restored cell, a document of another lineage. Two
insertions in a table of four cells make nine, so with `MaxSlots` 9 and
`MaxCells` 7 the budget is met and exceeded. In `blocks` an edit comes after at most one move, from
every selection a move reaches, and after a copy only its paste; documents mix
an atom between blocks with an image, a nested list and quotes with tasks. Chip
width 3 is the least that has an inside; limits 0, 1 and 10 are none, one
below and one above every count; `MaxValues` 280 lies between the sizes of the
fragments. In `editor_input`
two revisions are a composed commit and an edit around it, and two events in a
burst are what may come between two frames; the run has the order of signals of
Linux, and the theorems of `EditorViewProofs` hold for every platform. In `editor_gestures` each feature has the changes it
needs: a resize two revisions and two changes, a chip one reload, a clipboard
two revisions and a reload (`MCGestures`); `GestureProofs` has no bound. In
`editor_reveal` two reveals are one that supersedes the other while its scrolls
are scheduled, and two changes are, for instance, a selection that makes the caret want
the viewport and a reload that reuses the revision of the highlights; the
range of two letters is wider than the window, so both of its ends are met.

**Fairness.** `EditorGestures` assumes weak fairness of `Frame` and of
`Deferred` in a resize, because GPUI draws a window that was notified and runs
deferred work at the end of the frame; `ReadingReveal` the same of `Draw`,
`Deferred` and `CaretScrolls` (a callback of the next frame), each named by its
effect on one variable. `ReleaseSettles` and `RevealSettles`, the two liveness
properties, need it. A session has no work of its own between calls, and a call
is a synchronous function that returns. The user, the host and the input
method are never obliged to do anything.

**Deadlock.** `CHECK_DEADLOCK FALSE` is set because revision and edit bounds
stop the models; the programs themselves accept calls and events for ever.

**Abstractions.** A frame is atomic: layout and painting call no one who edits.
The host's `keyboard_focusable`, asked while drawing, does not mutate. A
policy's callbacks run under the session's borrow, so each is atomic. Ranges of
a composition stay in one block, as the handler's coordinates do; there is one
preedit text. Whether a slice can be carried whole is a choice of the
environment in `EditorClipboard`. One letter is one scalar, one grapheme and
one unit of every offset. Soft wraps and columns are kept only as the freedom
of Up and Down to reach any gap of the next block.

## 4. Proofs

All theorems hold for every value of the constants under the named
assumptions; no bound of the runs enters them (`MaxRevision`, `Burst` and the
like are any natural number).

### The session

Assumptions: `SentinelAssumption`, `DelayAssumption`, `DocumentAssumption`,
`CellRangeAssumption`, `PlanAssumption`, `OptionAssumption`.

To a session a transaction is a chain of edges between documents, and an
inverse the edges turned round: this is Core's contract, assumed and not proved
here, and every theorem of the session is conditional on it. Whether Core's
steps honour it is the subject of `TreeTransaction` (`InverseReplays`), and
`tree_kinds` shows where they do not; an edit whose inverse is refused is never
published, because a commit applies its undo first (section 2). On that
contract rest two lemmas, that the inverse of an accepted transaction is accepted and
leads back (`InverseReturns`), and that concatenation is replay in sequence
(`ConcatReplays`). A third, `RevisionGrows`, is that every candidate, in however
many transactions it was made, is later than the live document.
Then `TypeCorrect` (`[]TypeOK`), `SelectionAlwaysValid`
(`[]SelectionValid`, inside calls too) and `HistoryAlwaysReplays`
(`[]HistoryReplays`). `HistoryReplays` is not inductive by itself: in the
middle of a call the facts live in locals. `IInv` adds what they hold: `CallOK`
says that the saved selection and the transient origin still fit the document
(so rolling back, and recording the origin in an entry, yields a valid
selection), that the popped entry replays, and that a prepared cut starts at
the live store; `StacksOK` says the two stacks chain through the popped entry
instead of the live store while a traversal runs. `Inductive` proves `[]IInv`
with one lemma per action; `session_stages` checks `IInv` with TLC.

`SessionTimelineProofs` builds on `Inductive`. A call's own memory is the missing
part of its properties, so `Remembers` adds it: `begun`, the session at the
call's entry, agrees with the saved locals and with the selection the listeners
last heard. From it follow `ListenersStayInSync` (`[]ListenersInSync`),
`FinalizerSeesOrigin` (`[]FinalizerSeesOuterSelection`), `UndoReturns`
(`UndoReturnsFromTarget`, an action property, from the one place an entry is
built: `CommitPublishes` reduces the five commits to it) and `ClockRuns`
(`ClockNeverRewinds`, from the fact that a rollback restores the very clock the
call began with).

Of what outlives a call, `MarksStayOnCaret` (`[]PendingMarksOnCaret`) needs the
marks a running call has saved, and that an amendment under pending marks ends
on a caret; `CellRangeAssumption` (a cell range is never a caret, as the code's
selection type has it) keeps marks out of the step that collapses a range.
`OpenGroupStaysNewest` (`[]OpenGroupIsNewest`) needs `GroupKept`: a rollback
reopens the group the call saved, so the entry it extends must still be on top,
or be the popped entry a failed undo puts back.

Its second part extends the call's memory to the whole session
(`CallFound`: what a call has not touched is live, the rest is in its locals),
and adds that a token, live or saved, was issued for the selection and document
it would be offered at (`TokenKept`), and that the last keystroke of a group is
not newer than the clock (`ClockOrdered`). From their conjunction `Honesty`:

- `OutcomesAreHonest` (`OutcomeIsHonest`): a call that answers "failed" or
  "unchanged" left every part of the session as it found it, and one that
  answers "document changed" left a later revision and moved one unit of
  history, recorded, merged into the newest one, or taken from one stack to the
  other (`OneUnitMoved`), whatever number of stages and amendments made it;
- `TokenStaysFresh` (`[]TokenIsFresh`);
- `UnitsKeepDelay` (`UnitsRespectDelay`), which with `ClockRuns` gives
  `TimedUnitsHold` (`TimedUnits`);
- `TimelineImplemented` (`ImplementsTimeline`), the refinement of
  `UndoTimeline`. It goes over the row of documents in reach: a recorded edit
  cuts the row and adds one (`ReachPushed`), a merged one replaces the newest
  (`ReachExtended`, which needs that nothing is to be redone while a group is
  open), a traversal moves along the same row (`ReachStepped`), and taking an
  entry or putting it back changes nothing (`StutterStep`).

### The frontend

`EditorViewProofs` (assumption `ViewsAssumption`: composed texts are not in the
documents the host brings, so that they can be counted). `ViewInv`: a
composition exists only while the input method composes, belongs to the entity
that owns the input handler and has the method's text, however children are
dropped and rebuilt. `SessionInv`: documents and selections are well formed,
and a composed text that is still to come is in no block, the one being
composed in no more than the method has committed. The second rests on what
splicing does to the occurrences of a letter (`Splice`, `SpliceBrings`). They
give `OneCompositionHolds`, `IdleMethodIsQuiet`, `ComposedTextEntersOnce` and
the action property `HiddenCellStays`, for any number of views and all
platforms.

`GestureProofs` (assumption `HostAssumption`). `CacheHolds`: every cached entry
is what the snapshot's document says of its table, through preparation, lookup,
measurement and revocation; it gives `CacheTransparent`. `ResizeInv` carries a
measurement's key and document from the frame that took it through drag, queue
and call, and needs `RulesKept` (only the host changes the rules, and then
nothing stays measured); it gives `MeasuredCommits`. `AtomInv` says that a
stamp of session, revision and epoch identifies a document (`StampsStay`), so
equal stamps make what was painted what is live; it gives `ShownChipsActivate`.
`ImportHolds` does the same for a pending import and gives `ImagesLand`.

### The tree engine

`TreeProofs` (assumptions `FirstAllocator`: the first snapshot's allocator is
above its ids, as `next_id_after` has it; `MarksAreFinite`; `OpsAreOffered`:
callers offer no restoring step). `IdsInv` says that the ids of both stores, of
every store ever published and of every node an inverse would bring back are
below the allocator, and that the working allocator is not behind the published
one. The ids in inverses are needed because undo puts nodes back under the ids
they had: without them a restored node could be the next one allocated.
`StepIsSound` shows, operation by operation, that a step whose restored ids are
below the allocator leaves a store and an inverse group with the same property;
`RunIsSound` carries that over a whole group, and `IdsNeverReusedAlways`
(`[]IdsNeverReused`) follows. Groups are built from the spans of a range and the
marks of a span, so the proof also needs that these flatten to finite sequences
(`Flat`). Both `RunUnfolds`, on which `RunIsSound` rests, and `Flat` are
inductions over a recursive function; they rest on `InductionOverNat`, induction as a statement about a
set of numbers, proved by counting: the numbers a set misses up to a bound would
shift into themselves without the bound.

`InlineMapsKeepOrder`: no map of a text edit, an atom insertion or removal, a
split or a join swaps two positions of a node, with either bias; a split sends
the earlier one to the head, a join keeps the first node's positions before the
second's. `Checked` lists what the step guards ensure of the map and the
positions (in particular, that a deletion finds no atom behind the seam at its
start: without it the theorem is false). It is one step of what
`MappedOrderKept` checks over whole transactions.

`EveryStepKeepsTheTreeAlways` (`Ops \subseteq ContentOps => (Spec =>
[]EveryStepKeepsTheTree)`): a behaviour of text, mark, atom, split and join
steps, with undo and redo, never leaves the valid trees of normalized nodes, so
the validation at the end of a transaction never drops one. The hypothesis
names the operations of `tree_inline`; with `SetNodeKind` or `InsertNode` the
conclusion is false (`tree_blocks` drops such transactions). Assumptions
besides those above: `FirstIsDocument` (the behaviour starts from a valid
document), `TextsAreWords`, `AtomKindsApart` (no kind is both an atom and
something else) and `BoundsAreNumbers`. The argument has three layers.

- `InlineProofs`: `InlineEditsKeepContent`. Each edit of inline content gives
  normalized content with exactly the atoms it should have. The work is in the
  order of placements: `SeamSplits` (the atoms before a seam are the first
  ones), `SegmentIsInterval` and `CutPoint` (the atoms at an offset are
  consecutive, so a gap is a place in the sequence of all atoms), from which
  attaching keeps the order and a cut shares the atoms out. `GapMarksAre` adds
  that inherited marks are marks of the schema.
- `TreeShapeProofs`, documents: `Subtree` walks level by level as often as the
  store has nodes, which no induction over a tree reaches. `ReachingAll` proves
  that reaching every node this way is the same as `Connected` (every set that
  holds the root and what its members refer to holds all), by counting: a level
  that adds nothing is closed, and there are at least as many levels as nodes.
  With it, how each edit moves references is one lemma: an atom enters
  (`AtomEnters`) or leaves (`AtomLeaves`) the content of a node, a tail enters
  as the next sibling and takes its atoms along (`TailEnters`), a node is
  joined to the one before (`TailLeaves`), or references stay
  (`ContentRewritten`, `AtomRemarked`).
- `TreeShapeProofs`, behaviours: `ShapeInv` holds the published and the working
  document, and `KeptAll(inverse)`: undo gives back text, marks of the schema,
  and nodes that were well made when they left. Without that part the invariant
  is not inductive, since an inverse would be any sequence of steps. `StepIsGood`
  shows, step by step, that documents and groups of such steps are kept
  (`RemarkIs`, `ReviveIs`: the marks given back to spans are), `RunIsGood`
  carries it over the group an undo applies, with `RunIsSound` for the ids.

`MappedPositionsLiveAlways` (`Ops \subseteq ContentOps => (Spec =>
[]MappedPositionsLive)`): in such behaviours every gap in text, gap between
nodes and node of the published document is mapped by the whole
pending transaction, with either bias, to one of the working document, or is
deleted, and deleted only if its node is gone. The assumption
`DeletedIsNoPosition` says that the model value for a deleted position is none
of the positions. The layers of `TreeMappingProofs`:

- where an edit puts the letters and atoms of a node, and with it how many
  atoms there are at each offset (the ordinals a position may have);
- one lemma per step map (`OverMap`, `InPlace`): what was a position of the
  node before is one of the node after;
- `StepMoves`: a step of `Apply` is one of four moves of a document (in place, a
  tail enters, a tail leaves, an edit alone), each of which carries every sort
  of position (`Carried`);
- composition. The images along a list of maps are a recursive function
  (`ImagesExist`), and a map more is a value more. A node that left in a join
  must not come back within the transaction, or a selection of it would be
  mapped to nothing while its node is there: `Trail` says that the inverse so far
  brings back, once each, nodes that are not there, among them all that left, and
  `RunLeavesTrail` that a group an undo applies keeps to this. `MapInv` adds to
  `ShapeInv` that the pending transaction is such a trail from the published to
  the working document.

### Model-checked only

- `ReleaseSettles` and `RevealSettles`, liveness properties.
- `ReadingIsInPlace`: most of it is arithmetic of clamped offsets through nested
  viewports, one table after another.
- `TypingUnitIsOneInsertion` speaks of the letters of `MCSession`'s documents.
- The properties of tables, blocks, reading, copies and the wire
  (`ChecksAgree`, the tables' `HistoryReplays`, `SelectionsSurvive`,
  `ClipsAreExact`, `LogicalRefinement`, `EditsAreExact`, `CaretKeepsItsPlace`,
  `NavigationVisitsEveryStop`, `ReadingIsExact`, `CopiesAreCarried`): each says
  what an iteration over rows, blocks or fragments computes. `TreeProofs` shows
  that a set-based induction over a count is within reach; the inductions over
  the data of these components have not been written.
- `NoPositionOvertakes` (`MappedOrderKept` and `CaretsKeepTheirSide`) of `TreeTransaction`.
  `InlineMapsKeepOrder` is the first within one node and for one step; between
  nodes it needs that the subtrees of siblings share nothing, which has not been
  proved. The second speaks of single atoms, which the lemmas on positions do
  not follow.
- `InverseReplays` of `TreeTransaction`: `EveryStepKeepsTheTreeAlways` shows
  that what an inverse leads to is a document, not that it is the old one. For
  text and marks that needs what a group of mark steps computes on the runs of
  a range, span by span.

## 5. Findings

Two runs show a disagreement between the code and what the repository says.

- `tree_kinds`. `apply_set_node_kind` checks the parent of the moment and not
  the children (`transaction/apply.rs:317`), so turning a task list and its
  item into a bullet list works list first, and the inverse, item first, is
  refused, against the documentation of `AppliedTransaction::inverse`
  (`transaction/mod.rs:80`). `tree_blocks` keeps to kinds no parent restricts,
  and `InverseReplays` holds there.
- `editor_commit`. `commit_composition` (`gpui/block_view/ime.rs:60`) commits
  the offsets of its own block through an intent that names no block; after a
  click into another block in the same frame the text replaces a range there,
  against "over the composition's canonical base range" (`ime.rs:32`).

Behaviour that the models reproduce and a reader of the code may not expect:

- Tab from a rectangular cell range converges the range to a caret before it
  appends a row (`session/table.rs:56`, a convergence of the selection alone, no
  part of the history), so undo of the row lands on that caret. An intent with a
  target selection undoes to where it was called from (`UndoReturnsFromTarget`).
- A commit can advance the revision by more than one: hidden stages and the
  policy's amendment take revisions that are never published.
- Lifting the first item of a list of several leaves an empty list before what
  was lifted (`session/structure.rs:371`; the comment above it has the lifted
  item above the rest). Splitting a list item puts the tail behind the item's
  nested list. Backspace at the start of a block after one it cannot join
  merges into an item further back (`structure.rs:99`); the comment at
  `structure.rs:56` describes a case in which the code changes nothing.
- Backspace that joins into the tail of a list by text loses the marks of what
  it moves (`structure/join.rs:25`). A deletion across blocks leaves the atomic
  blocks between its ends. Backspace on "select all" is refused by default.
- A paste of several flat blocks into a block with atoms is refused by Core; one
  that ends in atoms leaves the caret before them; closed slices, and slices
  over a selected node, are refused by default.
- A step forward into a block of atoms alone lands behind the atoms
  (`visual_navigation.rs:137`).
- After a cancelled column drag the next press takes its initial width from the
  cancelled preview until a frame measures again.
- `focus_selection_without_scroll` (`document_view/reading.rs:275`) synchronises
  the children first and cancels the caret scrolls of those that are left. A
  child whose table the host has just stopped showing is gone by then, and the
  scroll it queued for the next frame still happens, although the comment above
  the function has "This also cancels queued caret scrolling";
  `apply_passive_edit_plan` cancels before and after for this reason.
- The export preflight admits a depth of slice whose envelope exceeds the
  reader's nesting of 128; a framed cell-range envelope relabelled as open
  would be accepted.

## 6. Not modelled

In the modelled parts: attribute values beyond a small set, custom kinds,
exhaustion of node ids and of the revision counter, empty transactions in
`TreeTransaction` (in `Session` an edge may return to its own store), payload
budgets in bytes, panics of listeners and allocation failure, caret affinity,
depth and bytes of JSON.

Geometry and rendering are out of TLC's reach beyond what `ReadingReveal` needs
of scrolling: layout, hit testing, painting, accessibility trees. Text processing is left out: JSON, Unicode
folding and segmentation, Markdown tokenising. The example harness replaces a
file through the file system alone and is no part of the editor. Vendored
crates, tools and test support are not part of the program's own logic.

## 7. Plan

Done: the tree and table engines, the session and its planners, clipboard,
reading and navigation, the frontend's input methods, gestures and reading
surfaces; and the theorems of section 4. Worth proving next:

1. `InverseReplays` for text and marks: what a group of mark steps computes span
   by span, and that replaying it backwards restores every span.
2. The order of mapped positions across nodes (`MappedOrderKept`), on the lemmas of
   `TreeMappingProofs`.
3. The tables' allocator and the ids its restores bring back, by the argument
   of `IdsInv`.
