------------------------------ MODULE MCEditor ------------------------------
(***************************************************************************)
(* Two panes over a document of two paragraphs and a table, for            *)
(* EditorViews.                                                            *)
(***************************************************************************)
EXTENDS EditorViews

Plain == [text |-> [p |-> <<Chip>>, c |-> <<"a">>], grid |-> "plain"]
Merged == [Plain EXCEPT !.grid = "spans"]
Bare == [text |-> [p |-> <<Chip>>], grid |-> None]
MCDocs == {Plain, Merged, Bare}
=============================================================================
