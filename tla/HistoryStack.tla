---------------------------- MODULE HistoryStack ----------------------------
(***************************************************************************)
(* The undo and redo stacks of one editing session, their entries and the  *)
(* typing group (crates/xiaomu-runtime/src/session/history.rs), as         *)
(* operators on the stacks; module Session is the state machine that uses  *)
(* them.                                                                   *)
(*                                                                         *)
(* A Core transaction is a sequence of edges between canonical document    *)
(* stores: Core accepts an edge exactly on the store it starts from, and   *)
(* leaves the store it ends in.  Steps inside one edge are left to the     *)
(* modules about Core; what the stacks must get right is which edges are   *)
(* replayed, in which order, on which store.                               *)
(***************************************************************************)
EXTENDS Integers, SequencesExt

CONSTANTS
  Stores,      \* canonical document stores (root and node store)
  Selections,  \* document selections
  Nodes,       \* inline nodes typing can happen in
  Isolated,    \* HistoryGroup::Isolated
  None,        \* Option::None
  Delay        \* typing_group_delay_ms: None, or the milliseconds

ASSUME SentinelAssumption ==
  /\ None \notin Nat
  /\ None \notin Selections
  /\ Isolated \notin [node : Nodes, start : Nat, end : Nat]

ASSUME DelayAssumption == Delay \in Nat \cup {None}

Option(S) == S \cup {None}

Edge == [from : Stores, to : Stores]
Transaction == Seq(Edge)

TypingGroup == [node : Nodes, start : Nat, end : Nat]
Group == TypingGroup \cup {Isolated}

HistoryEntry ==
  [redo : Transaction, undo : Transaction,
   before : Selections, after : Selections, group : Group]

GroupingState ==
  [open : BOOLEAN, last : Option(Nat), high : Option(Nat)]

-----------------------------------------------------------------------------
(* Transactions.                                                           *)

\* Core accepts the transaction on store s: every step finds the store it
\* was built for.
Accepts(tx, s) ==
  /\ tx # <<>>
  /\ tx[1].from = s
  /\ \A i \in 1..(Len(tx) - 1) : tx[i].to = tx[i + 1].from

ResultOf(tx) == Last(tx).to

Reversed(edge) == [from |-> edge.to, to |-> edge.from]

\* Mutant: the inverse steps are not put in reverse order.
InverseInOrder(tx) == [i \in 1..Len(tx) |-> Reversed(tx[i])]

\* The exact inverse: the inverse steps in reverse order.
InverseOf(tx) == [i \in 1..Len(tx) |-> Reversed(tx[Len(tx) + 1 - i])]

-----------------------------------------------------------------------------
(* The typing group.                                                       *)

NewGrouping == [open |-> FALSE, last |-> None, high |-> None]

\* Mutant: closing forgets to close.
CloseKeepsOpen(g) == [g EXCEPT !.last = None]

\* Mutant: closing starts a new clock domain.
CloseResetsClock(g) == NewGrouping

\* Closing keeps the clock's high-water mark: a boundary never starts a new
\* clock domain.
Closed(g) == [g EXCEPT !.open = FALSE, !.last = None]

ClockAccepts(g, time) == time # None /\ (g.high # None => time >= g.high)

\* The grouping state after an entry is recorded.
GroupingAfter(g, group, time) ==
  IF group = Isolated THEN Closed(g)
  ELSE IF Delay = None THEN [g EXCEPT !.open = TRUE, !.last = None]
  ELSE IF ClockAccepts(g, time) THEN [open |-> TRUE, last |-> time, high |-> time]
  ELSE Closed(g)

\* Mutant: the delay is only asked for, never compared.
MergeAtAnyAge(g, group, time) ==
  group # Isolated /\ g.open /\ (Delay # None => ClockAccepts(g, time) /\ g.last # None)

\* Whether time lets the entry extend the open unit.
MayMerge(g, group, time) ==
  /\ group # Isolated
  /\ g.open
  /\ Delay # None => /\ ClockAccepts(g, time)
                     /\ g.last # None
                     /\ time - g.last <= Delay

-----------------------------------------------------------------------------
(* The stacks.                                                             *)

\* HistoryGroup::merge and the selection check of HistoryStack::record.
Continues(previous, entry) ==
  /\ previous.group # Isolated
  /\ entry.group # Isolated
  /\ previous.group.node = entry.group.node
  /\ previous.group.end = entry.group.start
  /\ previous.after = entry.before

\* Mutant: the merged group keeps the end of its first keystroke.
MergeKeepsEnd(previous, next) ==
  [redo |-> previous.redo \o next.redo, undo |-> next.undo \o previous.undo,
   before |-> previous.before, after |-> next.after, group |-> previous.group]

MergeEntries(previous, next) ==
  [redo   |-> previous.redo \o next.redo,
   undo   |-> next.undo \o previous.undo,
   before |-> previous.before,
   after  |-> next.after,
   group  |-> [previous.group EXCEPT !.end = next.group.end]]

\* The undo stack after HistoryStack::record; redo is always cleared.
Recorded(stack, entry, mayMerge) ==
  IF mayMerge /\ stack # <<>> /\ Continues(Last(stack), entry)
  THEN Append(Front(stack), MergeEntries(Last(stack), entry))
  ELSE Append(stack, entry)
=============================================================================
