---------------------------- MODULE ClipboardWire ----------------------------
(***************************************************************************)
(* The metadata a copied slice travels in: export provenance, the plain    *)
(* text, versions and frames, and what a reader accepts                    *)
(* (crates/xiaomu-runtime/src/clipboard/wire.rs, wire/, export.rs,         *)
(* text_projection.rs, export_budget.rs, fragment/exported.rs).            *)
(*                                                                         *)
(* DTOs keep the ids their nodes had, so that both ends can be compared;   *)
(* the code has none.  The attributes of a node are one value: none, one   *)
(* that holds a null, one with cell geometry, or any other.  Malformed     *)
(* JSON and invalid trees, bytes and depth of the budgets are left out.    *)
(***************************************************************************)
EXTENDS Reading

CONSTANTS Fragments,          \* trees to carry: [nodes, roots, closed], besides what is copied
          LeafKinds,          \* the atoms a projection may name
          Fallbacks,          \* the fallback text of an atom, by kind
          LF, TAB, SPACE,     \* letters
          MaxValues           \* bound of a JSON text, and of the preflight

NullAttrs == "null"
Geometry == "geometry"
Missing == "missing"
Null == "null"

\* A table as it is carried: rows of cells, and attributes of the rows, if any.
Rows(rows, attrs) == [shape |-> "table", rows |-> rows, attrs |-> attrs]
IsTable(node) == node.content.shape = "table"
LoneTable(nodes, roots) == Len(roots) = 1 /\ IsTable(nodes[roots[1]])

-----------------------------------------------------------------------------
(* Plain text.                                                             *)

JoinedBy(parts, separator) ==
  FlattenSeq([i \in DOMAIN parts |-> IF i = 1 THEN parts[i] ELSE separator \o parts[i]])

\* The leaves below a node, cells in reading order.
LeavesBelow(nodes, top) ==
  LET walk[id \in DOMAIN nodes] ==
        LET c == nodes[id].content
        IN CASE c.shape = "children" -> FlattenSeq(<<>> @@ [i \in DOMAIN c.kids |-> walk[c.kids[i]]])
             [] c.shape = "table" ->
                  LET cells == FlattenSeq(c.rows)
                  IN FlattenSeq(<<>> @@ [i \in DOMAIN cells |-> walk[cells[i]]])
             [] OTHER -> <<id>>
  IN walk[top]
LeavesOf(nodes, roots) == FlattenSeq([i \in DOMAIN roots |-> LeavesBelow(nodes, roots[i])])
TextsOf(nodes, roots) ==
  LET blocks == SelectSeq(LeavesOf(nodes, roots), LAMBDA n : nodes[n].content.shape = "inline")
      plain(c, o) == FlattenSeq([i \in DOMAIN AtomsAt(c, o) |-> Fallbacks[nodes[AtomsAt(c, o)[i].atom].kind]])
      of(c) == FlattenSeq([k \in 1..(Len(c.text) + 1) |->
                 plain(c, k - 1) \o (IF k > Len(c.text) THEN <<>> ELSE <<c.text[k].letter>>)])
  IN [i \in DOMAIN blocks |-> of(nodes[blocks[i]].content)]

\* An image speaks for itself when its attributes name a source.
ImageTexts(nodes, roots) ==
  LET images == SelectSeq(LeavesOf(nodes, roots),
                          LAMBDA n : nodes[n].kind = "Image" /\ nodes[n].attrs = "src")
  IN [i \in DOMAIN images |-> <<"u">>]

RootsText(nodes, roots) ==
  LET body == JoinedBy(TextsOf(nodes, roots), <<LF>>)
      images == ImageTexts(nodes, roots)
  IN body \o (IF body = <<>> THEN <<>> ELSE IF images = <<>> THEN <<>> ELSE <<LF>>) \o JoinedBy(images, <<LF>>)

\* Separators inside a cell become spaces.
TableText(nodes, table) ==
  LET rows == nodes[table].content.rows
      flat(text) == [i \in DOMAIN text |-> IF text[i] \in {LF, TAB} THEN SPACE ELSE text[i]]
      cell(id) == flat(JoinedBy(TextsOf(nodes, <<id>>) \o ImageTexts(nodes, <<id>>), <<SPACE>>))
      row(cells) == JoinedBy([i \in DOMAIN cells |-> cell(cells[i])], <<TAB>>)
  IN JoinedBy([r \in DOMAIN rows |-> row(rows[r])], <<LF>>)

\* A slice as it is first made, without provenance.
FragmentSlice(nodes, roots, closed) ==
  [nodes |-> nodes, roots |-> roots, closed |-> closed, boundary |-> "None", projection |-> {},
   text |-> IF LoneTable(nodes, roots) /\ ~closed THEN TableText(nodes, roots[1])
            ELSE RootsText(nodes, roots)]

-----------------------------------------------------------------------------
(* Text between blocks.  A projection names the extension atoms that are   *)
(* line breaks, as a hard break always is; any other atom refuses it.      *)

Emits(named, kind) == kind = HardBreak \/ kind \in named

\* Stretches of equal marks: from, to.
RunsOf(c) ==
  LET n == Len(c.text)
      starts == SelectSeq([i \in 1..n |-> i - 1],
                          LAMBDA o : o = 0 \/ c.text[o].marks # c.text[o + 1].marks)
  IN [i \in DOMAIN starts |-> [from |-> starts[i], to |-> IF i = Len(starts) THEN n ELSE starts[i + 1]]]

InlineBetween(c) ==
  LET letters(from, to) == LettersOf(c, from, to)
      emit(a, i) == [text |-> a.text \o letters(a.offset, c.atoms[i].offset) \o <<LF>>,
                     offset |-> c.atoms[i].offset, done |-> i]
      due(a, r) == SelectSeq([i \in DOMAIN c.atoms |-> i],
                             LAMBDA i : i > a.done /\ c.atoms[i].offset <= r.to)
      run(a, r) == LET b == FoldLeft(emit, [a EXCEPT !.offset = r.from], due(a, r))
                   IN [b EXCEPT !.text = @ \o letters(b.offset, r.to)]
      through == FoldLeft(run, [text |-> <<>>, offset |-> 0, done |-> 0], RunsOf(c))
  IN through.text \o [i \in 1..Len(c.atoms) - through.done |-> LF]

Project(nodes, roots, named) ==
  LET leaves == LeavesOf(nodes, roots)
      known == \A n \in DOMAIN nodes : nodes[n].kind \in AtomKinds => Emits(named, nodes[n].kind)
      add(text, i) == (IF i = 1 THEN text ELSE Append(text, LF))
                        \o (IF nodes[leaves[i]].content.shape = "inline"
                            THEN InlineBetween(nodes[leaves[i]].content) ELSE <<LF>>)
  IN {FoldLeft(add, <<>>, [i \in DOMAIN leaves |-> i]) : k \in {k \in {1} : known}}

-----------------------------------------------------------------------------
(* What a node costs: as the preflight counts it, and as JSON.             *)

Total(f) == MapThenSumSet(LAMBDA i : f[i], DOMAIN f)

\* The marks with attributes of their own, each missing, null or a string.
Attributed == {"Link", "TextStyle"}
Given(value) == {k \in DOMAIN value : value[k] \notin {Missing, Null}}
MarkCost(m) == IF m.kind \in Attributed THEN 3 + 3 * Cardinality(DOMAIN m.value) + Cardinality(Given(m.value)) ELSE 3
MarksCost(marks) == MapThenSumSet(MarkCost, marks)
AttrsCost(attrs) == IF attrs = NoAttrs THEN 0 ELSE 5

AtomCost(node) == 16 + 2 + AttrsCost(node.attrs) + MarksCost(node.content.marks)
NodeCost(nodes, id) ==
  LET node == nodes[id]
      c == node.content
      runs == RunsOf(c)
  IN CASE node.kind \in AtomKinds -> AtomCost(node)
       [] c.shape = "inline" ->
            16 + AttrsCost(node.attrs)
              + Total([i \in DOMAIN runs |-> 5 + MarksCost(c.text[runs[i].to].marks)])
       [] c.shape = "table" ->
            16 + AttrsCost(node.attrs) + 16 * Len(c.rows) + Total([r \in DOMAIN c.attrs |-> AttrsCost(c.attrs[r])])
       [] OTHER -> 16 + AttrsCost(node.attrs)
ProjectionCost(projection) == MapThenSumSet(LAMBDA named : IF named = {} THEN 0 ELSE 8 + Cardinality(named), projection)
RootsCost(nodes, projection) ==
  32 + ProjectionCost(projection) + MapThenSumSet(LAMBDA id : NodeCost(nodes, id), DOMAIN nodes)

-----------------------------------------------------------------------------
(* DTOs.                                                                   *)

\* The historical form of a link has no more than an address and a title.
ClassicLink(v) ==
  /\ v.target = Missing /\ v.rel = Missing /\ v.class = Missing
  /\ v.title # Null /\ v.href \notin {Missing, Null}
WireMark(m) ==
  CASE m.kind = "Link" /\ ClassicLink(m.value) ->
         [type |-> "Link", href |-> m.value.href, title |-> {m.value.title} \ {Missing}]
    [] m.kind = "Link" /\ ~ClassicLink(m.value) -> [type |-> "LinkAttributes", attrs |-> m.value]
    [] OTHER -> [type |-> m.kind, attrs |-> m.value]
IntoMark(w) ==
  CASE w.type = "Link" ->
         [kind |-> "Link",
          value |-> [href |-> w.href, title |-> IF w.title = {} THEN Missing ELSE CHOOSE t \in w.title : TRUE,
                     target |-> Missing, rel |-> Missing, class |-> Missing]]
    [] w.type = "LinkAttributes" -> [kind |-> "Link", value |-> w.attrs]
    [] OTHER -> [kind |-> w.type, value |-> w.attrs]
WireMarks(marks) == {WireMark(m) : m \in marks}
IntoMarks(marks) == {IntoMark(w) : w \in marks}

\* Mutant: an extension atom always takes the historical form.
WireAtomUnmarked(node) ==
  IF node.kind = HardBreak
  THEN [dto |-> "Typed", kind |-> node.kind, extension |-> FALSE, attrs |-> node.attrs,
        marks |-> WireMarks(node.content.marks)]
  ELSE [dto |-> "Legacy", kind |-> node.kind, attrs |-> node.attrs]

\* The historical form of an atom is an extension without marks.
WireAtom(node) ==
  IF node.kind = HardBreak \/ node.content.marks # {}
  THEN [dto |-> "Typed", kind |-> node.kind, extension |-> node.kind # HardBreak, attrs |-> node.attrs,
        marks |-> WireMarks(node.content.marks)]
  ELSE [dto |-> "Legacy", kind |-> node.kind, attrs |-> node.attrs]
IntoAtom(w) ==
  CASE w.dto = "Legacy" -> Node(w.kind, w.attrs, AtomContent({}))
    [] w.dto = "Typed" -> Node(IF w.extension THEN w.kind ELSE HardBreak, w.attrs,
                               AtomContent(IntoMarks(w.marks)))

WireNode(node) ==
  LET c == node.content
  IN CASE node.kind \in AtomKinds -> WireAtom(node)
       [] c.shape = "inline" ->
            [node EXCEPT !.content.text = [i \in DOMAIN c.text |->
               Letter(c.text[i].letter, WireMarks(c.text[i].marks))]]
       [] c.shape = "table" /\ (\A i \in DOMAIN c.attrs : c.attrs[i] = NoAttrs) ->
            [node EXCEPT !.content.attrs = <<>>]
       [] OTHER -> node
IntoNode(w) ==
  CASE "dto" \in DOMAIN w -> IntoAtom(w)
    [] "dto" \notin DOMAIN w /\ w.content.shape = "inline" ->
         [w EXCEPT !.content.text = [i \in DOMAIN w.content.text |->
            Letter(w.content.text[i].letter, IntoMarks(w.content.text[i].marks))]]
    [] OTHER -> w
WireNodes(nodes) == <<>> @@ [n \in DOMAIN nodes |-> WireNode(nodes[n])]
IntoNodes(wire) == <<>> @@ [n \in DOMAIN wire |-> IntoNode(wire[n])]

-----------------------------------------------------------------------------
(* JSON values of an envelope.                                             *)

WireMarkValues(w) ==
  CASE w.type = "Link" -> 4
    [] w.type \in {"LinkAttributes", "TextStyle"} -> 3 + 2 * Cardinality(DOMAIN w.attrs) + Cardinality(Given(w.attrs))
    [] OTHER -> 2
WireMarksValues(marks) == 1 + MapThenSumSet(WireMarkValues, marks)
AttrsValues(attrs) == 1 + (IF attrs = NoAttrs THEN 0 ELSE IF attrs = NullAttrs THEN 2 ELSE 3)
WireAtomValues(w) ==
  IF w.dto = "Legacy" THEN 4 + AttrsValues(w.attrs)
  ELSE 5 + (IF w.extension THEN 1 ELSE 0) + AttrsValues(w.attrs) + WireMarksValues(w.marks)
WireContentValues(c) ==
  LET runs == RunsOf(c)
  IN CASE c.shape = "inline" -> 4 + (IF c.atoms = <<>> THEN 0 ELSE 1)
                                  + Total([i \in DOMAIN runs |-> 2 + WireMarksValues(c.text[runs[i].to].marks)])
       [] c.shape = "table" -> 4 + Len(c.rows)
                                 + (IF c.attrs = <<>> THEN 0 ELSE 1 + Total([r \in DOMAIN c.attrs |-> AttrsValues(c.attrs[r])]))
       [] c.shape = "children" -> 4
       [] OTHER -> 2
WireNodeValues(w) ==
  IF "dto" \in DOMAIN w THEN WireAtomValues(w)
  ELSE 3 + (IF w.kind = "Heading" THEN 1 ELSE 0) + AttrsValues(w.attrs) + WireContentValues(w.content)
BoundaryValues(boundary) ==
  CASE boundary = "None" -> 0
    [] boundary = "Open" -> 2
    [] boundary = "WholeRoots" -> 4
    [] boundary = "CellRange" -> 5
JsonValues(e) ==
  4 + Cardinality(e.closed) + BoundaryValues(e.boundary)
    + MapThenSumSet(LAMBDA named : IF named = {} THEN 1 ELSE 3 + Cardinality(named), e.projection)
    + MapThenSumSet(LAMBDA id : WireNodeValues(e.nodes[id]), DOMAIN e.nodes)

-----------------------------------------------------------------------------
(* Export: provenance and the text of the slice.                           *)

BoundaryOf(slice) ==
  CASE slice.closed -> "WholeRoots"
    [] ~slice.closed /\ LoneTable(slice.nodes, slice.roots) -> "CellRange"
    [] OTHER -> "Open"

SetExport(slice, boundary, projection) ==
  LET texts == IF projection = {} THEN {slice.text}
               ELSE UNION {Project(slice.nodes, slice.roots, named) : named \in projection}
      fits == /\ RootsCost(slice.nodes, projection) <= MaxValues
              /\ slice.closed = (boundary = "WholeRoots")
              /\ boundary = "CellRange" => LoneTable(slice.nodes, slice.roots)
  IN {[slice EXCEPT !.boundary = boundary, !.projection = projection, !.text = t] :
        t \in {t \in texts : fits}}
Exported(slice, projection) == SetExport(slice, BoundaryOf(slice), projection)

-----------------------------------------------------------------------------
(* Versions: the least whose readers know everything carried.  Provenance  *)
(* is framed, with a version and a prefix of its own.                      *)

MarksIn(w) ==
  CASE "dto" \notin DOMAIN w /\ w.content.shape = "inline" ->
         UNION {w.content.text[i].marks : i \in DOMAIN w.content.text}
    [] "dto" \in DOMAIN w /\ w.dto = "Typed" -> w.marks
    [] OTHER -> {}

CarriesMark(w, type) == \E m \in MarksIn(w) : m.type = type
IsDto(w) == "dto" \in DOMAIN w
RowAttrs(w) == IF IsDto(w) THEN <<>> ELSE IF IsTable(w) THEN w.content.attrs ELSE <<>>
FeaturesOf(w) ==
  {13 : k \in {k \in {1} : \/ w.kind = "TableHeader"
                           \/ w.kind = "TableCell" /\ w.attrs = Geometry}}
  \cup {12 : k \in {w.kind} \cap {"TaskList", "TaskItem"}}
  \cup {10 : k \in {k \in {1} : IsDto(w) /\ w.dto = "Typed"}}
  \cup {9 : k \in {k \in {1} : CarriesMark(w, "TextStyle")}}
  \cup {8 : k \in {k \in {1} : CarriesMark(w, "LinkAttributes")}}
  \cup {7 : k \in {NullAttrs} \cap ({w.attrs} \cup Range(RowAttrs(w)))}
  \cup {6 : k \in Range(RowAttrs(w)) \ {NoAttrs}}
  \cup {5 : k \in {k \in {1} : ~IsDto(w) /\ IsTable(w)}}
Features(wire) == UNION {FeaturesOf(wire[n]) : n \in DOMAIN wire}
VersionOf(wire, closed) == Max({4} \cup Features(wire) \cup {11 : k \in {closed} \cap {TRUE}})

Envelope(frame, version, slice, closed) ==
  [frame |-> frame, version |-> version, nodes |-> WireNodes(slice.nodes), roots |-> slice.roots,
   closed |-> closed, boundary |-> slice.boundary, projection |-> slice.projection]
EncodePlain(slice) ==
  LET version == VersionOf(WireNodes(slice.nodes), slice.closed)
      closed == IF version >= 12 THEN {slice.closed} ELSE {slice.closed} \cap {TRUE}
  IN {e \in {Envelope(0, version, slice, closed)} : JsonValues(e) <= MaxValues}

\* Readers give a slice, refuse what is native, or leave it to plain text.
DecodeLegacy(text, e) ==
  LET slice == FragmentSlice(IntoNodes(e.nodes), e.roots, e.closed = {TRUE})
      refused == \/ e.version \notin 4..13
                 \/ e.version >= 12 /\ e.closed = {}
                 \/ e.version = 11 /\ e.closed # {TRUE}
                 \/ e.version < 11 /\ e.closed # {}
                 \/ \E f \in Features(e.nodes) : f > e.version
                 \/ JsonValues(e) > MaxValues
  IN IF refused THEN {} ELSE {s \in {slice} : s.text = text}

FrameOf(projection) == IF projection \in {{}, {{}}} THEN 14 ELSE 15
ConsistentClosed(boundary, closed) == closed = {boundary = "WholeRoots"}
DecodeFramed(text, e) ==
  LET refused == \/ e.version # e.frame
                 \/ ~ConsistentClosed(e.boundary, e.closed)
                 \/ FrameOf(e.projection) # e.version
                 \/ JsonValues(e) > MaxValues
      slice == FragmentSlice(IntoNodes(e.nodes), e.roots, e.boundary = "WholeRoots")
  IN IF refused THEN {} ELSE {s \in SetExport(slice, e.boundary, e.projection) : s.text = text}

Answer(is, slices) == [is |-> IF slices = {} THEN is ELSE "Valid", slice |-> slices]
DecodeChecked(text, e) ==
  CASE e.frame \in {14, 15} -> Answer("RejectedNative", DecodeFramed(text, e))
    [] e.frame = 0 -> Answer("ForeignOrLegacyFallback", DecodeLegacy(text, e))
    [] OTHER -> Answer("RejectedNative", {})

\* A frame is read back before it is given out.
EncodeProjected(slice) ==
  LET frame == FrameOf(slice.projection)
      e == Envelope(frame, frame, slice, {slice.closed})
  IN {x \in {e} : /\ RootsCost(slice.nodes, slice.projection) <= MaxValues
                  /\ JsonValues(e) <= MaxValues
                  /\ DecodeFramed(slice.text, e) = {slice}}
EncodeMetadata(slice) ==
  IF slice.boundary = "None" THEN EncodePlain(slice) ELSE EncodeProjected(slice)

-----------------------------------------------------------------------------
(* Properties.                                                             *)

Projections == {{}, {{}}} \cup {{{k}} : k \in LeafKinds}

\* Letters and breaks in order, blocks apart, a break for a whole block.
TextBetween(nodes, roots) ==
  LET leaves == LeavesOf(nodes, roots)
      at(c, o) == [i \in 1..AtomCountAt(c, o) |-> LF]
      inline(c) == FlattenSeq([o \in 1..Len(c.text) |-> Append(at(c, o - 1), c.text[o].letter)]) \o at(c, Len(c.text))
  IN JoinedBy([i \in DOMAIN leaves |->
               LET c == nodes[leaves[i]].content
               IN IF c.shape = "inline" THEN inline(c) ELSE <<LF>>], <<LF>>)

\* What a reader is given, and what it must answer.
ReadOf(text, e, is, slices) == [text |-> text, e |-> e, answer |-> Answer(is, slices)]
Tampered(slice, e) ==
  LET versions == {[e EXCEPT !.version = v] : v \in IF e.frame = 0 THEN 1..e.version - 1 ELSE {13, 14, 15} \ {e.version}}
      frames == {[e EXCEPT !.frame = f] : f \in {14, 15, 16} \ {e.frame}}
      flags == {[e EXCEPT !.closed = c] : c \in {{}, {~slice.closed}}}
  IN versions \cup (IF e.frame = 0 THEN {} ELSE frames \cup flags)
Readings(slice, e) ==
  LET is == IF e.frame = 0 THEN "ForeignOrLegacyFallback" ELSE "RejectedNative"
  IN {ReadOf(slice.text, e, is, {slice}), ReadOf(Append(slice.text, SPACE), e, is, {})}
       \cup {ReadOf(slice.text, x, is, {}) : x \in Tampered(slice, e)}

SliceCarried(slice) ==
  LET envelopes == EncodeMetadata(slice)
  IN /\ slice.boundary # "None" => envelopes # {}
     /\ \A e \in envelopes : \A r \in Readings(slice, e) : DecodeChecked(r.text, r.e) = r.answer
     /\ \A named \in slice.projection : slice.text = TextBetween(slice.nodes, slice.roots)

\* What is copied is read back as it was, marks, atoms, tables and boundary
\* included.  Without provenance no reader takes it under an older version,
\* which would lose what that version cannot say, nor with another text.
\* With provenance every slice the preflight admits can be carried, and one
\* change of frame, version, boundary flag or text gets it rejected, never
\* pasted as plain text; its text is the text between its blocks (wire.rs,
\* wire/legacy.rs, wire/projected.rs, text_projection.rs, export_budget.rs).
CopiesAreCarried ==
  LET opened == last.intent.intent = "Open" /\ scene = 1
      fragments == IF opened THEN {FragmentSlice(f.nodes, f.roots, f.closed) : f \in Fragments}
                   ELSE IF last.intent.intent = "Copy"
                   THEN {FragmentSlice(s.nodes, s.roots, s.closed) : s \in clipboard} ELSE {}
  IN \A slice \in fragments :
       \A s \in {slice} \cup UNION {Exported(slice, p) : p \in Projections} : SliceCarried(s)
=============================================================================
