------------------------------ MODULE MCBlocks ------------------------------
(***************************************************************************)
(* Small documents for BlockSession: paragraphs with an atom between them  *)
(* and an image, a list with a nested list, quotes and a task list.        *)
(***************************************************************************)
EXTENDS ClipboardWire

Bold == [kind |-> "Bold", value |-> 0]
MCMarks == {Bold}
MCKinds == {"Bold"}
MCTexts == {<<"x">>}

Doc(kids) == Node("Document", NoAttrs, Children(kids))
Of(kind, kids) == Node(kind, NoAttrs, Children(kids))
Para(text, atoms) == Node("Paragraph", NoAttrs, Inline(text, atoms))
Atom(kind) == Node(kind, NoAttrs, AtomContent({}))
L(l) == Letter(l, {})
B(l) == Letter(l, {Bold})

\* a M b*, an image, c* M.
MixedStore ==
  0 :> Doc(<<1, 3, 4>>)
  @@ 1 :> Para(<<L("a"), B("b")>>, <<Placement(2, 1)>>)
  @@ 2 :> Atom("Mention")
  @@ 3 :> Node("Image", NoAttrs, Atomic)
  @@ 4 :> Para(<<B("c")>>, <<Placement(5, 1)>>)
  @@ 5 :> Atom("HardBreak")

\* An item with a nested list of two, a second item, a paragraph.
ListStore ==
  0 :> Doc(<<1, 9>>)
  @@ 1 :> Of("BulletList", <<2, 8>>)
  @@ 2 :> Of("ListItem", <<3, 4>>)
  @@ 3 :> Para(<<L("a")>>, <<>>)
  @@ 4 :> Of("OrderedList", <<5, 7>>)
  @@ 5 :> Of("ListItem", <<6>>)
  @@ 6 :> Para(<<B("b")>>, <<>>)
  @@ 7 :> Of("ListItem", <<10>>)
  @@ 8 :> Of("ListItem", <<11>>)
  @@ 9 :> Para(<<L("d")>>, <<>>)
  @@ 10 :> Para(<<>>, <<>>)
  @@ 11 :> Para(<<L("c")>>, <<Placement(12, 0)>>)
  @@ 12 :> Atom("Mention")

\* A paragraph, a quote with two, a task.
QuoteStore ==
  0 :> Doc(<<1, 2, 5>>)
  @@ 1 :> Para(<<L("a")>>, <<>>)
  @@ 2 :> Of("Quote", <<3, 4>>)
  @@ 3 :> Para(<<B("b")>>, <<>>)
  @@ 4 :> Para(<<>>, <<>>)
  @@ 5 :> Of("TaskList", <<6>>)
  @@ 6 :> Node("TaskItem", "open", Children(<<7>>))
  @@ 7 :> Para(<<L("c")>>, <<>>)

MCScenes == <<MixedStore, ListStore, QuoteStore>>

\* One paragraph of up to four letters with up to two atoms anywhere, a
\* break before a mention.
SampleTexts == UNION {[1..n -> {"a", "b"}] : n \in 0..4}
SampleAtoms(n) ==
  {<<>>} \cup {<<Placement(2, o)>> : o \in 0..n}
    \cup {<<Placement(2, o), Placement(3, p)>> : o, p \in 0..n}
Sample(text, atoms) ==
  (0 :> Doc(<<1>>) @@ 1 :> Para([i \in DOMAIN text |-> L(text[i])], atoms))
    @@ [n \in {atoms[i].atom : i \in DOMAIN atoms} |-> Atom(IF n = 2 THEN "HardBreak" ELSE "Mention")]
MCSamples ==
  UNION {{Sample(t, as) : as \in {as \in SampleAtoms(Len(t)) :
                                    Len(as) = 2 => as[1].offset <= as[2].offset}} : t \in SampleTexts}

\* Nothing emitted; one of the letters; a letter of its own for breaks.
MCOptions == {[breaks |-> <<>>, others |-> <<>>],
              [breaks |-> <<"a">>, others |-> <<"b">>],
              [breaks |-> <<"n">>, others |-> <<>>]}
\* A break takes one unit of the row, a chip three.
MCDisplayWidth == [HardBreak |-> 1, Mention |-> 3]
Letters == {"a", "b", "c", "d", "x", "y", "z", "n"}
MCCases == {[l \in Letters |-> l], [l \in Letters |-> IF l \in {"b", "d"} THEN "b" ELSE l]}
MCQueries == {<<>>, <<"a">>, <<"b">>, <<"a", "b">>, <<"a", "a">>, <<"a", "b", "a">>, <<"d", "a", "d">>,
              <<"a", "a", "b">>, <<"a", "b", "a", "b">>}

\* Three paragraphs, copied from elsewhere: y, empty, z z*.
PlainStore ==
  0 :> Doc(<<1, 2, 3>>)
  @@ 1 :> Para(<<L("y")>>, <<>>)
  @@ 2 :> Node("Heading", NoAttrs, EmptyInline)
  @@ 3 :> Para(<<L("z"), B("z")>>, <<>>)

At(node, offset, index) == InlinePoint(node, offset, index)
From(store, a, f) == SliceSelection(store, Selection(a, f))

\* A letter with an atom on each side and none of the text; two and three
\* blocks; an item with its nested list; into a quote; an image; what paste
\* refuses: an image among text, a task, a whole block.
MCSlices ==
  From(MixedStore, At(1, 1, 0), At(1, 2, 0))
    \cup From(MixedStore, At(1, 1, 0), At(1, 1, 1))
    \cup From(PlainStore, At(1, 0, 0), At(3, 2, 0))
    \cup From(ListStore, At(6, 0, 0), At(11, 0, 1))
    \cup From(QuoteStore, At(1, 0, 0), At(3, 1, 0))
    \cup From(MixedStore, AtomicAt(3), AtomicAt(3))
    \cup From(MixedStore, At(1, 0, 0), At(4, 1, 1))
    \cup From(QuoteStore, At(4, 0, 0), At(7, 1, 0))

-----------------------------------------------------------------------------
(* Fragments to carry.  Marks with attributes stay in stores of their own: *)
(* their values are records.                                               *)

LinkOf(href, title, target) ==
  [kind |-> "Link", value |-> [href |-> href, title |-> title, target |-> target,
                               rel |-> "missing", class |-> "missing"]]
StyleOf(color) ==
  [kind |-> "TextStyle", value |-> [color |-> color, font_family |-> "missing", font_size |-> "null"]]
Classic == LinkOf("u", "t", "missing")
Untitled == LinkOf("u", "missing", "missing")
Exact == LinkOf("u", "null", "missing")
Targeted == LinkOf("u", "missing", "t")
Nowhere == LinkOf("null", "missing", "missing")

Fragment(nodes, roots, closed) == [nodes |-> nodes, roots |-> roots, closed |-> closed]
LoneOf(node) == 1 :> node
MarkedText(marks) == LoneOf(Para(<<L("a"), Letter("b", marks), L("c")>>, <<>>))
AtomStore(kind, attrs, marks) ==
  1 :> Para(<<L("a")>>, <<Placement(2, 1)>>) @@ 2 :> Node(kind, attrs, AtomContent(marks))

\* A table of two rows: a, b and an image in a cell, c with a break after it.
CellStore(cell, attrs) ==
  2 :> Node(cell, attrs, Children(<<5>>))
  @@ 3 :> Of("TableCell", <<6, 7>>)
  @@ 4 :> Of("TableCell", <<8>>)
  @@ 5 :> Para(<<L("a")>>, <<>>)
  @@ 6 :> Para(<<L("b")>>, <<>>)
  @@ 7 :> Node("Image", "src", Atomic)
  @@ 8 :> Para(<<L("c")>>, <<Placement(9, 1)>>)
  @@ 9 :> Atom("HardBreak")
\* Cells cut out of a table, and a table as a whole block.
CutTable(cell, attrs, rows) ==
  1 :> Node("Table", "none", Rows(<<<<2, 3>>, <<4>>>>, rows)) @@ CellStore(cell, attrs)
WholeTable(cell, attrs) ==
  1 :> Of("Table", <<10, 11>>)
  @@ 10 :> Node("TableRow", "other", Children(<<2, 3>>))
  @@ 11 :> Of("TableRow", <<4>>)
  @@ CellStore(cell, attrs)

TaskStore ==
  1 :> Of("TaskList", <<2, 3>>)
  @@ 2 :> Node("TaskItem", "done", Children(<<4>>))
  @@ 3 :> Node("TaskItem", "open", Children(<<5>>))
  @@ 4 :> Para(<<L("a")>>, <<>>)
  @@ 5 :> Para(<<>>, <<>>)
ImageStore ==
  1 :> Node("Heading", "none", Inline(<<L("a"), L("b")>>, <<>>))
  @@ 2 :> Node("Image", "src", Atomic)
  @@ 3 :> Node("HorizontalRule", "none", Atomic)
\* More paragraphs than a JSON text may hold here.
LongStore(n) == [k \in 1..n |-> Para(<<L("a"), Letter("b", {Targeted}), L("c")>>, <<>>)]

MCFragments ==
  {Fragment(MarkedText(ms), <<1>>, FALSE) :
     ms \in {{Classic}, {Untitled}, {Exact}, {Targeted}, {Nowhere}, {StyleOf("missing")}, {StyleOf("c"), Classic}}}
  \cup {Fragment(AtomStore(k, attrs, ms), <<1>>, FALSE) :
          k \in {"HardBreak", "Mention"}, attrs \in {"none", "null", "other"},
          ms \in {{}, {Untitled}, {StyleOf("c")}}}
  \cup {Fragment(LoneOf(Node("Heading", attrs, Inline(<<L("a")>>, <<>>))), <<1>>, closed) :
          attrs \in {"none", "null"}, closed \in BOOLEAN}
  \cup {Fragment(CutTable("TableCell", "none", rows), <<1>>, FALSE) :
          rows \in {<<>>, <<"other", "none">>, <<"null", "other">>}}
  \cup {Fragment(CutTable("TableHeader", "none", <<>>), <<1>>, FALSE),
        Fragment(CutTable("TableCell", "geometry", <<"other", "none">>), <<1>>, FALSE)}
  \cup {Fragment(WholeTable(cell, attrs), <<1>>, TRUE) :
          cell \in {"TableCell", "TableHeader"}, attrs \in {"none", "geometry"}}
  \cup {Fragment(TaskStore, <<1>>, closed) : closed \in BOOLEAN}
  \cup {Fragment(ImageStore, <<1, 2, 3>>, closed) : closed \in BOOLEAN}
  \cup {Fragment(LongStore(n), [k \in 1..n |-> k], FALSE) : n \in {4, 7, 12}}
MCFallbacks == [HardBreak |-> <<"LF">>, Mention |-> <<"@">>]
=============================================================================
