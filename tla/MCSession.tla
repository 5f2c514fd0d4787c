------------------------------ MODULE MCSession ------------------------------
(***************************************************************************)
(* A small editor for Session: one paragraph "p" of up to MaxLen letters   *)
(* and a table of up to MaxRows rows, with carets, a text range over the      *)
(* first letter, a rectangular cell range and a caret inside the table.    *)
(***************************************************************************)
EXTENDS Session

CONSTANTS InitLen, MaxLen, MaxRows, WithAmendments, WithReversals

Caret(i) == [kind |-> "caret", at |-> i]
TextRange == [kind |-> "range", at |-> 0]
Cells == [kind |-> "cells", at |-> 0]
InCell == [kind |-> "cell", at |-> 0]

MCStores == [len : 0..MaxLen, rows : 1..MaxRows]
MCSelections == {Caret(i) : i \in 0..MaxLen} \cup {TextRange, Cells, InCell}
MCCarets == {Caret(i) : i \in 0..MaxLen} \cup {InCell}
MCValidAt ==
  [s \in MCStores |->
     {Caret(i) : i \in 0..s.len} \cup {Cells, InCell}
     \cup (IF s.len > 0 THEN {TextRange} ELSE {})]
MCCellRanges == {Cells}
MCLeadingCaret == [r \in MCCellRanges |-> InCell]

PlanTo(s, len, rows, after, group) ==
  [from |-> s, to |-> [len |-> len, rows |-> rows], after |-> after, group |-> group]

\* Typing at caret i is one keystroke; over the text range it replaces a
\* letter and is isolated.
Typing(s, sel) ==
  CASE sel = TextRange /\ s.len > 0 -> {PlanTo(s, s.len, s.rows, Caret(1), Isolated)}
    [] sel.kind = "caret" /\ sel.at <= s.len /\ s.len < MaxLen ->
         {PlanTo(s, s.len + 1, s.rows, Caret(sel.at + 1),
                 [node |-> "p", start |-> sel.at, end |-> sel.at + 1])}
    [] OTHER -> {}

\* Backspace, over the range or before the caret.
Deleting(s, sel) ==
  CASE sel = TextRange /\ s.len > 0 -> {PlanTo(s, s.len - 1, s.rows, Caret(0), Isolated)}
    [] sel.kind = "caret" /\ sel.at \in 1..s.len ->
         {PlanTo(s, s.len - 1, s.rows, Caret(sel.at - 1), Isolated)}
    [] OTHER -> {}

\* Appending a table row, leaving a caret or a cell range.
Growing(s) ==
  IF s.rows < MaxRows
  THEN {PlanTo(s, s.len, s.rows + 1, after, Isolated) : after \in {InCell, Cells}}
  ELSE {}

\* A policy that keeps the paragraph from being empty.
Filling(s) ==
  IF s.len = 0
  THEN {PlanTo(s, 1, s.rows, after, Isolated) : after \in {Caret(1), TextRange}}
  ELSE {}

\* Enter over a letter, in stages: the letter goes, then a row is appended
\* (standing for the new item) and the caret stays.
Splitting(s, sel) ==
  {<<p, PlanTo(p.to, p.to.len, p.to.rows + 1, p.after, Isolated)>> :
     p \in {q \in Deleting(s, sel) : q.to.rows < MaxRows}}

\* A raw transaction without effect, and one whose selection does not survive.
Odd(s) ==
  {PlanTo(s, s.len, s.rows, Caret(0), Isolated)}
  \cup (IF s.len > 0 THEN {PlanTo(s, 0, s.rows, Caret(s.len), Isolated)} ELSE {})

MCTypingPlans == [sel \in MCSelections |-> UNION {Typing(s, sel) : s \in MCStores}]
Deletions(sel) == UNION {Deleting(s, sel) : s \in MCStores}
MCCaretPlans ==
  [sel \in MCSelections |->
     {<<p>> : p \in Deletions(sel)} \cup UNION {Splitting(s, sel) : s \in MCStores}]
MCHostPlans ==
  UNION {Odd(s) : s \in MCStores} \cup MCTypingPlans[Caret(0)]
MCCutPlans == Deletions(TextRange)
\* One row, or two stages: delete a letter and append a row.
MCStructuralPlans ==
  {<<p>> : p \in UNION {Growing(s) : s \in MCStores}}
  \cup {<<p, q>> : p \in Deletions(Caret(1)), q \in UNION {Growing(s) : s \in MCStores}}
MCPlans ==
  UNION {MCTypingPlans[sel] \cup UNION {Range(stages) : stages \in MCCaretPlans[sel]} : sel \in MCSelections}
  \cup MCHostPlans \cup UNION {Growing(s) \cup Filling(s) : s \in MCStores}
\* A policy may fill the paragraph or append a row to the table.
MCAmendments ==
  IF WithAmendments THEN UNION {Growing(s) \cup Filling(s) : s \in MCStores} ELSE {}
MCReversals == IF WithReversals THEN Deletions(Caret(1)) ELSE {}

InitStore == [len |-> InitLen, rows |-> 1]
InitCaret == Caret(0)

-----------------------------------------------------------------------------
(* A typing unit is one uninterrupted insertion: it stands for exactly the *)
(* letters its group counts, in its one paragraph, and touches nothing     *)
(* else (history.rs, HistoryGroup::merge and merge_entries).               *)
TypingUnitIsOneInsertion ==
  \A i \in 1..Len(undo) :
    undo[i].group # Isolated =>
      /\ Finish(undo[i]).len - Start(undo[i]).len = undo[i].group.end - undo[i].group.start
      /\ Finish(undo[i]).rows = Start(undo[i]).rows
      /\ undo[i].after = Caret(undo[i].group.end)
=============================================================================
