---------------------------- MODULE AtomDisplay ----------------------------
(***************************************************************************)
(* The string a block with atoms is laid out as, and the caret gaps of its *)
(* positions (crates/xiaomu-gpui/src/inline_atom_display.rs).              *)
(*                                                                         *)
(* A letter takes one unit of the string, an atom as many as its renderer  *)
(* gives, never none.  What the units show, their marks and the caret's    *)
(* affinity are left out.                                                  *)
(***************************************************************************)
EXTENDS BlockSession

CONSTANT DisplayWidth     \* units of each atom kind
ASSUME DisplayWidthAssumption == \A k \in AtomKinds : DisplayWidth[k] \in Nat \ {0}

\* Each atom with its gap and the units it takes.
AtomSpan(p, index, from, to) ==
  [atom |-> p.atom, offset |-> p.offset, index |-> index, from |-> from, to |-> to]
Display(store, node) ==
  LET c == store[node].content
      width(p) == DisplayWidth[store[p.atom].kind]
      add(s, i) ==
        LET p == c.atoms[i]
            from == s.len + p.offset - s.cursor
            index == IF i > 1 /\ c.atoms[i - 1].offset = p.offset THEN Last(s.atoms).index + 1 ELSE 0
        IN [atoms |-> Append(s.atoms, AtomSpan(p, index, from, from + width(p))),
            cursor |-> p.offset, len |-> from + width(p)]
      done == FoldLeft(add, [atoms |-> <<>>, cursor |-> 0, len |-> 0], [i \in DOMAIN c.atoms |-> i])
  IN [node |-> node, atoms |-> done.atoms, len |-> done.len + Len(c.text) - done.cursor]

\* Where a gap is shown.
DisplayOffset(d, p) ==
  LET first == Cardinality({i \in DOMAIN d.atoms : d.atoms[i].offset < p.offset})
      upto == Cardinality({i \in DOMAIN d.atoms : d.atoms[i].offset <= p.offset})
      before == first + p.index
      inserted == IF before = 0 THEN 0 ELSE d.atoms[before].to - d.atoms[before].offset
  IN IF p.index > upto - first THEN {} ELSE {p.offset + inserted}

\* The gap shown exactly at a unit: none inside an atom.
PointAtDisplay(d, o) ==
  LET touching == SelectInSeq(d.atoms, LAMBDA a : a.from <= o /\ o <= a.to)
      a == d.atoms[touching]
      shown == MapThenSumSet(LAMBDA i : d.atoms[i].to - d.atoms[i].from,
                             {i \in DOMAIN d.atoms : d.atoms[i].to <= o})
  IN CASE touching = 0 -> {InlinePoint(d.node, o - shown, 0)}
       [] touching > 0 /\ o = a.from -> {InlinePoint(d.node, a.offset, a.index)}
       [] touching > 0 /\ o = a.to -> {InlinePoint(d.node, a.offset, a.index + 1)}
       [] OTHER -> {}

AtomAtDisplay(d, o) == {a \in Range(d.atoms) : a.from <= o /\ o < a.to}

\* A hit in an atom goes to its nearer side.
DisplayHit(d, o) ==
  LET side(a) == IF o < a.from + (a.to - a.from + 1) \div 2 THEN a.index ELSE a.index + 1
      hit == {InlinePoint(d.node, a.offset, side(a)) : a \in AtomAtDisplay(d, o)}
  IN IF hit # {} THEN hit ELSE PointAtDisplay(d, o)
PointForDisplayByte(d, o) ==
  IF PointAtDisplay(d, o) # {} THEN PointAtDisplay(d, o) ELSE DisplayHit(d, o)
=============================================================================
