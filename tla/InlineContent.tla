---------------------------- MODULE InlineContent ----------------------------
(***************************************************************************)
(* Mixed inline content of a paragraph-like node, and the edits of it      *)
(* (crates/xiaomu-core/src/document/content.rs, transaction/inline.rs,     *)
(* transaction/inline_atom.rs, apply/structure.rs split_content).          *)
(*                                                                         *)
(* Text is a sequence of marked letters: normalized runs are its maximal   *)
(* stretches of equal marks, so the two determine each other.  Atoms are   *)
(* placed at text offsets and take no text of their own; atoms at one      *)
(* offset keep the order of the placement sequence.  An offset counts      *)
(* letters; a byte offset inside a letter, which the code rejects, has no  *)
(* counterpart.  A gap is an offset and the number of atoms there that     *)
(* stay before it.                                                         *)
(***************************************************************************)
EXTENDS Integers, SequencesExt

Letter(l, marks) == [letter |-> l, marks |-> marks]
Placement(atom, offset) == [atom |-> atom, offset |-> offset]
Inline(text, atoms) == [shape |-> "inline", text |-> text, atoms |-> atoms]
EmptyInline == Inline(<<>>, <<>>)

AtomsOf(c) == {c.atoms[i].atom : i \in DOMAIN c.atoms}
AtomsAt(c, offset) == SelectSeq(c.atoms, LAMBDA p : p.offset = offset)
AtomCountAt(c, offset) == Cardinality({i \in DOMAIN c.atoms : c.atoms[i].offset = offset})

\* How many atoms at its own offset precede placement i.
Ordinal(c, i) == Cardinality({j \in 1..(i - 1) : c.atoms[j].offset = c.atoms[i].offset})

ValidOffset(c, offset) == offset \in 0..Len(c.text)
ValidGap(c, offset, index) ==
  ValidOffset(c, offset) /\ index \in 0..AtomCountAt(c, offset)

\* Normalized: placements in offset order, each atom once.
Normalized(c) ==
  /\ \A i \in DOMAIN c.atoms : ValidOffset(c, c.atoms[i].offset)
  /\ \A i, j \in DOMAIN c.atoms : i < j =>
       c.atoms[i].offset <= c.atoms[j].offset /\ c.atoms[i].atom # c.atoms[j].atom

\* How many atoms lie before the gap.
AtomsBefore(c, offset, index) ==
  Cardinality({i \in DOMAIN c.atoms : c.atoms[i].offset < offset}) + index

Shifted(atoms, delta) ==
  [i \in DOMAIN atoms |-> [atoms[i] EXCEPT !.offset = @ + delta]]

-----------------------------------------------------------------------------
(* Marks.  A mark is a kind and a value; a set has at most one of a kind.  *)

\* The marks a text replacement inherits: the run that reaches its start.
RunMarksAt(c, offset) ==
  IF c.text = <<>> THEN {}
  ELSE IF offset = 0 THEN c.text[1].marks ELSE c.text[offset].marks

OnRange(text, start, end, change(_)) ==
  [i \in DOMAIN text |->
     IF i \in (start + 1)..end THEN [text[i] EXCEPT !.marks = change(@)] ELSE text[i]]

WithoutKind(marks, kind) == {m \in marks : m.kind # kind}

AddMark(c, start, end, mark) ==
  [c EXCEPT !.text = OnRange(@, start, end, LAMBDA ms : WithoutKind(ms, mark.kind) \cup {mark})]

RemoveMark(c, start, end, kind) ==
  [c EXCEPT !.text = OnRange(@, start, end, LAMBDA ms : WithoutKind(ms, kind))]

\* The maximal same-mark spans of a range, in order: where each starts and
\* ends, its marks.
SpanCuts(c, start, end) ==
  {start, end} \cup {i \in (start + 1)..(end - 1) : c.text[i].marks # c.text[i + 1].marks}

SpansWithin(c, start, end) ==
  LET cuts == SpanCuts(c, start, end)
      cut(i) == CHOOSE at \in cuts : Cardinality({other \in cuts : other < at}) = i - 1
  IN [i \in 1..(Cardinality(cuts) - 1) |->
        [start |-> cut(i), end |-> cut(i + 1), marks |-> c.text[cut(i) + 1].marks]]

LettersOf(c, start, end) == [i \in 1..(end - start) |-> c.text[start + i].letter]

-----------------------------------------------------------------------------
(* Text replacement.                                                       *)

Spliced(text, start, end, letters, marks) ==
  SubSeq(text, 1, start)
    \o [i \in DOMAIN letters |-> Letter(letters[i], marks)]
    \o SubSeq(text, end + 1, Len(text))

\* The text-only replacement cannot name a gap at a seam: it is refused when
\* an atom sits inside the closed range.
ReplacesText(c, start, end) ==
  /\ start <= end
  /\ ValidOffset(c, start)
  /\ ValidOffset(c, end)
  /\ \A i \in DOMAIN c.atoms : c.atoms[i].offset \notin start..end

ReplaceText(c, start, end, letters) ==
  Inline(Spliced(c.text, start, end, letters, RunMarksAt(c, start)),
         [i \in DOMAIN c.atoms |->
            IF c.atoms[i].offset > end
            THEN [c.atoms[i] EXCEPT !.offset = @ - (end - start) + Len(letters)]
            ELSE c.atoms[i]])

\* Placement i keeps its anchor: it lies before the seam.
BeforeSeam(c, i, offset, index) ==
  \/ c.atoms[i].offset < offset
  \/ c.atoms[i].offset = offset /\ Ordinal(c, i) < index

\* A text edit at a seam never deletes an atom: it is refused when one lies
\* between the seam and the end.
ReplacesInlineText(c, offset, index, end) ==
  /\ offset <= end
  /\ ValidGap(c, offset, index)
  /\ ValidOffset(c, end)
  /\ end > offset =>
       \A i \in DOMAIN c.atoms : BeforeSeam(c, i, offset, index) \/ c.atoms[i].offset >= end

\* Atoms after the seam follow the text behind the replacement.
ReplaceInlineText(c, offset, index, end, letters, marks) ==
  Inline(Spliced(c.text, offset, end, letters, marks),
         [i \in DOMAIN c.atoms |->
            IF BeforeSeam(c, i, offset, index) THEN c.atoms[i]
            ELSE [c.atoms[i] EXCEPT !.offset = @ - (end - offset) + Len(letters)]])

-----------------------------------------------------------------------------
(* Atoms, and cutting and joining at a gap.                                *)

\* Mutant: the atom goes before the atoms of its gap.
AttachFirst(c, offset, index, atom) ==
  [c EXCEPT !.atoms = InsertAt(@, AtomsBefore(c, offset, 0) + 1, Placement(atom, offset))]

AttachAtom(c, offset, index, atom) ==
  [c EXCEPT !.atoms = InsertAt(@, AtomsBefore(c, offset, index) + 1, Placement(atom, offset))]

DetachAtom(c, i) == [c EXCEPT !.atoms = RemoveAt(@, i)]

HeadOf(c, offset, index) ==
  Inline(SubSeq(c.text, 1, offset), SubSeq(c.atoms, 1, AtomsBefore(c, offset, index)))

\* Mutant: every atom at the cut stays in the head's run of placements.
TailDropsSeam(c, offset, index) ==
  Inline(SubSeq(c.text, offset + 1, Len(c.text)),
         Shifted(SelectSeq(c.atoms, LAMBDA p : p.offset > offset), -offset))

TailOf(c, offset, index) ==
  Inline(SubSeq(c.text, offset + 1, Len(c.text)),
         Shifted(SubSeq(c.atoms, AtomsBefore(c, offset, index) + 1, Len(c.atoms)), -offset))

Joined(first, second) ==
  Inline(first.text \o second.text, first.atoms \o Shifted(second.atoms, Len(first.text)))
=============================================================================
