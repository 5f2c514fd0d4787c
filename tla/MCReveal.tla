------------------------------ MODULE MCReveal ------------------------------
(* A small instance of passive reading: a caret in the first row, a table  *)
(* in a table in the third, two letters wide on screen, and a last row.    *)
EXTENDS ReadingReveal

Block(top, left, len, within) == [top |-> top, left |-> left, len |-> len, within |-> within]
Table(left, width, room, within) ==
  [left |-> left, width |-> width, room |-> room, within |-> within, fits |-> TRUE]
Nested ==
  [high |-> 3,
   blocks |-> ("a" :> Block(0, 0, 1, None)) @@ ("x" :> Block(2, 1, 3, "i")),
   tables |-> ("o" :> Table(0, 5, 5, None)) @@ ("i" :> Table(1, 5, 3, "o"))]
Shorter == [Nested EXCEPT !.blocks["x"].len = 1, !.tables["i"].fits = FALSE]
Flat ==
  [high |-> 2, blocks |-> ("a" :> Block(0, 0, 1, None)) @@ ("x" :> Block(1, 0, 2, None)),
   tables |-> <<>>]
MCDocuments == [reading |-> {Nested, Shorter, Flat}]
MCSelections == [reading |-> {[at |-> "a"], [at |-> "x"]}]
MCMaxRevision == [reading |-> 1]
MCMaxEpoch == [reading |-> 1]
Range1 == [node |-> "x", from |-> 1, to |-> 3]
MCRanges == {Range1, [node |-> "a", from |-> 0, to |-> 0]}
MCHighlightLists == {<<Range1>>}
MCSizes == {[wide |-> 2, high |-> 1], [wide |-> 3, high |-> 2]}
=============================================================================
