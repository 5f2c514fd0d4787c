----------------------------- MODULE MCGestures -----------------------------
(* A small instance of the gestures of a view.                             *)
EXTENDS EditorGestures

Table(row, width, within) ==
  [row |-> row, width |-> width, spans |-> FALSE, within |-> within]
Chip(attrs, place, hidden) == [attrs |-> attrs, place |-> place, hidden |-> hidden]
Plain == [tables |-> <<>>, chips |-> <<>>, text |-> "a"]
Tables(ts) == [Plain EXCEPT !.tables = ts]
Nested == Tables(("o" :> Table(None, 1, None)) @@ ("i" :> Table(None, 1, "o")))
With(chips) == [Plain EXCEPT !.chips = chips]

MCDocuments ==
  [resize |-> {Nested, [Nested EXCEPT !.tables["i"].width = 2],
               Tables("o" :> Table("m", 1, None))},
   atoms |-> {With("c" :> Chip("x", 1, FALSE)), With("c" :> Chip("y", 1, FALSE)),
              With("c" :> Chip("x", 1, TRUE)),
              With(("c" :> Chip("x", 2, FALSE)) @@ ("d" :> Chip("x", 1, FALSE)))},
   clipboard |-> {Plain, [Plain EXCEPT !.text = "b"]}]

Caret == [at |-> "caret", code |-> FALSE, hidden |-> FALSE, marks |-> None]
MCSelections ==
  [resize |-> {Caret},
   atoms |-> {Caret, [Caret EXCEPT !.at = "range"]},
   clipboard |-> {Caret, [Caret EXCEPT !.marks = "bold"], [Caret EXCEPT !.code = TRUE],
                  [Caret EXCEPT !.at = "cells", !.hidden = TRUE]}]

MCScreens == {[available |-> w, origin |-> w] : w \in {1, 2}}
MCMaxRevision == [resize |-> 2, atoms |-> 1, clipboard |-> 2]
MCMaxEpoch == [resize |-> 0, atoms |-> 1, clipboard |-> 1]
MCMaxChanges == [resize |-> 2, atoms |-> 2, clipboard |-> 2]
=============================================================================
