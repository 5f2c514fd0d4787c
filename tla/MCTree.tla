------------------------------- MODULE MCTree -------------------------------
(***************************************************************************)
(* Small documents for TreeTransaction.  Ids of the first store are 0 (the *)
(* root) and up; Bold and two links (two values of one kind) are the marks.*)
(***************************************************************************)
EXTENDS TreeTransaction

Bold == [kind |-> "Bold", value |-> 0]
LinkTo(v) == [kind |-> "Link", value |-> v]
MCKinds == {m.kind : m \in Marks}
MCTexts == {<<>>, <<"x">>}
OneMark == {Bold}
TwoMarks == {Bold, LinkTo(1)}

Plain(letters) == [i \in DOMAIN letters |-> Letter(letters[i], {})]

\* One paragraph: a plain letter, a hard break and a mention, a bold letter
\* and a linked one.
InlineStore ==
  0 :> Node("Document", NoAttrs, Children(<<1>>))
  @@ 1 :> Node("Paragraph", NoAttrs,
               Inline(<<Letter("a", {}), Letter("b", {Bold}), Letter("c", {LinkTo(1)})>>,
                      <<Placement(2, 1), Placement(3, 1)>>))
  @@ 2 :> Node("HardBreak", NoAttrs, AtomContent({}))
  @@ 3 :> Node("Mention", NoAttrs, AtomContent({}))

\* A paragraph, then a quote that holds a heading and a rule.
BlockStore ==
  0 :> Node("Document", NoAttrs, Children(<<1, 2>>))
  @@ 1 :> Node("Paragraph", NoAttrs, Inline(Plain(<<"a">>), <<>>))
  @@ 2 :> Node("Quote", NoAttrs, Children(<<3, 4>>))
  @@ 3 :> Node("Heading", "one", Inline(Plain(<<"b">>), <<Placement(5, 1)>>))
  @@ 4 :> Node("Paragraph", NoAttrs, Inline(<<>>, <<>>))
  @@ 5 :> Node("Mention", NoAttrs, AtomContent({}))

\* A task list of one item.
TaskStore ==
  0 :> Node("Document", NoAttrs, Children(<<1>>))
  @@ 1 :> Node("TaskList", NoAttrs, Children(<<2>>))
  @@ 2 :> Node("TaskItem", NoAttrs, Children(<<3>>))
  @@ 3 :> Node("Paragraph", NoAttrs, EmptyInline)
=============================================================================
