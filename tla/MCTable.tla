------------------------------- MODULE MCTable -------------------------------
(***************************************************************************)
(* Small documents with tables for TableSession.                           *)
(***************************************************************************)
EXTENDS CellExport

Cell(attrs, kids) == Node("TableCell", attrs, kids, "")
Header(attrs, kids) == Node("TableHeader", attrs, kids, "")
Row(kids) == Node("TableRow", NoAttrs, kids, "")
Table(kids) == Node("Table", NoAttrs, kids, "")
Document(kids) == Node("Document", NoAttrs, kids, "")

\* A header row with widths over a row with a cell of two paragraphs.
UnitStore ==
  0 :> Document(<<1>>) @@ 1 :> Table(<<2, 3>>)
  @@ 2 :> Row(<<4, 5>>) @@ 3 :> Row(<<6, 7>>)
  @@ 4 :> Header(CellAttrs(0, 0, Widths(<<3>>)), <<8>>)
  @@ 5 :> Header(CellAttrs(0, 0, NullWidths), <<9>>)
  @@ 6 :> Cell(NoAttrs, <<10, 11>>) @@ 7 :> Cell(NoAttrs, <<12>>)
  @@ 8 :> Paragraph("a") @@ 9 :> Paragraph("") @@ 10 :> Paragraph("c")
  @@ 11 :> Paragraph("d") @@ 12 :> Paragraph("e")

\* Three columns: a cell over two rows and two columns, and one beside it.
SpanStore ==
  0 :> Document(<<1>>) @@ 1 :> Table(<<2, 3>>)
  @@ 2 :> Row(<<4, 5>>) @@ 3 :> Row(<<6>>)
  @@ 4 :> Cell(CellAttrs(2, 2, Widths(<<3, 0>>)), <<7>>)
  @@ 5 :> Cell(NoAttrs, <<8>>) @@ 6 :> Cell(NoAttrs, <<9>>)
  @@ 7 :> Paragraph("a") @@ 8 :> Paragraph("b") @@ 9 :> Paragraph("c")

\* A table of one cell inside the second cell of a row.
NestedStore ==
  0 :> Document(<<1, 9>>) @@ 1 :> Table(<<2>>) @@ 2 :> Row(<<3, 4>>)
  @@ 3 :> Cell(NoAttrs, <<5>>) @@ 4 :> Cell(NoAttrs, <<6>>)
  @@ 5 :> Paragraph("a") @@ 6 :> Table(<<7>>) @@ 7 :> Row(<<8>>)
  @@ 8 :> Cell(CellAttrs(0, 0, Widths(<<4>>)), <<10>>) @@ 9 :> Paragraph("") @@ 10 :> Paragraph("b")

\* Three by three, full: a cell over two rows between its neighbours, and one
\* over two columns below them.
CrossedStore ==
  0 :> Document(<<1>>) @@ 1 :> Table(<<2, 3, 4>>)
  @@ 2 :> Row(<<5, 6, 7>>) @@ 3 :> Row(<<8, 9>>) @@ 4 :> Row(<<10, 11>>)
  @@ 5 :> Cell(CellAttrs(0, 0, Widths(<<3>>)), <<12>>)
  @@ 6 :> Header(CellAttrs(2, 0, NoWidths), <<13>>)
  @@ 7 :> Cell(NoAttrs, <<14>>) @@ 8 :> Cell(NoAttrs, <<15>>) @@ 9 :> Cell(NoAttrs, <<16>>)
  @@ 10 :> Cell(CellAttrs(0, 2, Widths(<<3, 0>>)), <<17>>) @@ 11 :> Cell(NoAttrs, <<18>>)
  @@ [n \in 12..18 |-> Paragraph(<<"a", "b", "c", "d", "e", "f", "g">>[n - 11])]

\* The same across: a cell over two columns, and one over two rows beside it.
AcrossStore ==
  0 :> Document(<<1>>) @@ 1 :> Table(<<2, 3, 4>>)
  @@ 2 :> Row(<<5, 6, 7>>) @@ 3 :> Row(<<8>>) @@ 4 :> Row(<<9, 10, 11>>)
  @@ 5 :> Cell(NoAttrs, <<12>>) @@ 6 :> Header(CellAttrs(0, 0, Widths(<<2>>)), <<13>>)
  @@ 7 :> Cell(CellAttrs(2, 0, NullWidths), <<14, 15>>)
  @@ 8 :> Cell(CellAttrs(0, 2, Widths(<<0, 5>>)), <<16>>)
  @@ 9 :> Cell(NoAttrs, <<17>>) @@ 10 :> Cell(NoAttrs, <<18>>) @@ 11 :> Cell(NoAttrs, <<19>>)
  @@ [n \in 12..19 |-> Paragraph(<<"a", "b", "c", "d", "e", "f", "g", "h">>[n - 11])]

MCStores == {UnitStore, SpanStore, NestedStore}
MCExports == {CrossedStore, AcrossStore}
=============================================================================
