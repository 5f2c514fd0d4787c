---------------------------- MODULE InlineProofs ----------------------------
(***************************************************************************)
(* Proofs about InlineContent: every edit of inline content gives          *)
(* normalized inline content with the atoms it should have.                *)
(***************************************************************************)
EXTENDS TreeProofs

-----------------------------------------------------------------------------
(* Slices of sequences.                                                    *)

\* Part of a sequence.
LEMMA Slice ==
  ASSUME NEW T, NEW s \in Seq(T), NEW m \in 1..(Len(s) + 1), NEW n \in (m - 1)..Len(s)
  PROVE  /\ SubSeq(s, m, n) \in Seq(T)
         /\ Len(SubSeq(s, m, n)) = n - m + 1
         /\ \A i \in 1..(n - m + 1) : SubSeq(s, m, n)[i] = s[m + i - 1]
<1>1. \A i \in m..n : s[i] \in T
  BY ElementOfSeq
<1>2. QED BY <1>1, SubSeqProperties

\* A sequence with one more element.
LEMMA Inserted ==
  ASSUME NEW T, NEW s \in Seq(T), NEW k \in 1..(Len(s) + 1), NEW e \in T
  PROVE  /\ InsertAt(s, k, e) \in Seq(T)
         /\ Len(InsertAt(s, k, e)) = Len(s) + 1
         /\ \A i \in 1..(Len(s) + 1) :
              InsertAt(s, k, e)[i] = IF i < k THEN s[i] ELSE IF i = k THEN e ELSE s[i - 1]
<1> DEFINE a == SubSeq(s, 1, k - 1)
           b == SubSeq(s, k, Len(s))
<1>0. Len(s) \in Nat /\ k \in Int
  OBVIOUS
<1>1. /\ a \in Seq(T) /\ Len(a) = k - 1
      /\ \A i \in 1..(k - 1) : a[i] = s[i]
  <2>1. 1 \in 1..(Len(s) + 1) /\ k - 1 \in (1 - 1)..Len(s)
    OBVIOUS
  <2>2. /\ a \in Seq(T) /\ Len(a) = (k - 1) - 1 + 1
        /\ \A i \in 1..((k - 1) - 1 + 1) : a[i] = s[1 + i - 1]
    BY <2>1, Slice
  <2> HIDE DEF a
  <2>3. QED BY <2>2
<1>2. /\ b \in Seq(T) /\ Len(b) = Len(s) - k + 1
      /\ \A i \in 1..(Len(s) - k + 1) : b[i] = s[k + i - 1]
  <2>1. Len(s) \in (k - 1)..Len(s)
    OBVIOUS
  <2>2. QED BY <2>1, Slice
<1>3. InsertAt(s, k, e) = a \o <<e>> \o b
  BY DEF InsertAt
<1> HIDE DEF a, b
<1>4. <<e>> \in Seq(T) /\ Len(<<e>>) = 1 /\ <<e>>[1] = e
  OBVIOUS
<1> DEFINE x == a \o <<e>>
<1>5. /\ x \in Seq(T) /\ Len(x) = k
      /\ \A i \in 1..k : x[i] = IF i < k THEN s[i] ELSE e
  BY <1>1, <1>4
<1>6. InsertAt(s, k, e) = x \o b
  BY <1>3
<1> HIDE DEF x
<1>7. /\ x \o b \in Seq(T) /\ Len(x \o b) = Len(x) + Len(b)
      /\ \A i \in 1..(Len(x) + Len(b)) :
           (x \o b)[i] = IF i <= Len(x) THEN x[i] ELSE b[i - Len(x)]
  BY <1>2, <1>5, ConcatProperties
<1>8. \A i \in 1..(Len(s) + 1) :
        (x \o b)[i] = IF i < k THEN s[i] ELSE IF i = k THEN e ELSE s[i - 1]
  <2>1. TAKE i \in 1..(Len(s) + 1)
  <2> USE <1>0
  <2>2. CASE i <= k
    BY <1>2, <1>5, <1>7, <2>2
  <2>3. CASE i > k
    <3>1. i - k \in 1..(Len(s) - k + 1)
      BY <2>3
    <3>2. b[i - k] = s[k + (i - k) - 1]
      BY <1>2, <3>1
    <3>3. (x \o b)[i] = b[i - k]
      BY <1>2, <1>5, <1>7, <2>3
    <3>4. k + (i - k) - 1 = i - 1 /\ ~(i < k) /\ i # k
      BY <2>3
    <3>5. (x \o b)[i] = s[i - 1]
      BY <3>2, <3>3, <3>4
    <3>6. QED BY <3>4, <3>5
  <2>4. i <= k \/ i > k
    OBVIOUS
  <2>5. QED BY <2>2, <2>3, <2>4, Zenon
<1>9. QED BY <1>2, <1>5, <1>6, <1>7, <1>8

\* A sequence with one element less.
LEMMA Removed ==
  ASSUME NEW T, NEW s \in Seq(T), NEW k \in 1..Len(s)
  PROVE  /\ RemoveAt(s, k) \in Seq(T)
         /\ Len(RemoveAt(s, k)) = Len(s) - 1
         /\ \A i \in 1..(Len(s) - 1) : RemoveAt(s, k)[i] = IF i < k THEN s[i] ELSE s[i + 1]
<1> DEFINE a == SubSeq(s, 1, k - 1)
           b == SubSeq(s, k + 1, Len(s))
<1>1. /\ a \in Seq(T) /\ Len(a) = k - 1
      /\ \A i \in 1..(k - 1) : a[i] = s[i]
  <2>1. 1 \in 1..(Len(s) + 1) /\ k - 1 \in (1 - 1)..Len(s)
    OBVIOUS
  <2>2. /\ a \in Seq(T) /\ Len(a) = (k - 1) - 1 + 1
        /\ \A i \in 1..((k - 1) - 1 + 1) : a[i] = s[1 + i - 1]
    BY <2>1, Slice
  <2> HIDE DEF a
  <2>3. QED BY <2>2
<1>2. /\ b \in Seq(T) /\ Len(b) = Len(s) - k
      /\ \A i \in 1..(Len(s) - k) : b[i] = s[k + i]
  <2>1. k + 1 \in 1..(Len(s) + 1) /\ Len(s) \in ((k + 1) - 1)..Len(s)
    OBVIOUS
  <2>2. /\ b \in Seq(T) /\ Len(b) = Len(s) - (k + 1) + 1
        /\ \A i \in 1..(Len(s) - (k + 1) + 1) : b[i] = s[(k + 1) + i - 1]
    BY <2>1, Slice
  <2> HIDE DEF b
  <2>3. QED BY <2>2
<1>3. RemoveAt(s, k) = a \o b
  BY DEF RemoveAt
<1> HIDE DEF a, b
<1>4. /\ a \o b \in Seq(T) /\ Len(a \o b) = Len(s) - 1
      /\ \A i \in 1..(Len(s) - 1) :
           (a \o b)[i] = IF i <= Len(a) THEN a[i] ELSE b[i - Len(a)]
  BY <1>1, <1>2, ConcatProperties
<1>5. \A i \in 1..(Len(s) - 1) : (a \o b)[i] = IF i < k THEN s[i] ELSE s[i + 1]
  <2>1. TAKE i \in 1..(Len(s) - 1)
  <2>2. CASE i < k
    BY <1>1, <1>4, <2>2
  <2>3. CASE i >= k
    <3>1. i - (k - 1) \in 1..(Len(s) - k) /\ ~(i < k) /\ ~(i <= k - 1)
      BY <2>3
    <3>2. b[i - (k - 1)] = s[k + (i - (k - 1))] /\ k + (i - (k - 1)) = i + 1
      BY <1>2, <3>1
    <3>3. QED BY <1>1, <1>4, <3>1, <3>2
  <2>4. i < k \/ i >= k
    OBVIOUS
  <2>5. QED BY <2>2, <2>3, <2>4, Zenon
<1>6. QED BY <1>3, <1>4, <1>5

-----------------------------------------------------------------------------
(* Content with its placements in order.                                   *)

\* The placements of content, element by element.
LEMMA Laid ==
  ASSUME NEW c, MixedContent(c)
  PROVE  /\ c.shape = "inline" /\ c = Inline(c.text, c.atoms)
         /\ Len(c.text) \in Nat /\ Len(c.atoms) \in Nat
         /\ DOMAIN c.text = 1..Len(c.text) /\ DOMAIN c.atoms = 1..Len(c.atoms)
         /\ \A i \in 1..Len(c.text) : c.text[i] \in MarkedLetters
         /\ \A i \in 1..Len(c.atoms) : /\ c.atoms[i] \in Placements
                                       /\ c.atoms[i].offset \in 0..Len(c.text)
         /\ \A i, j \in 1..Len(c.atoms) : i < j =>
              c.atoms[i].offset <= c.atoms[j].offset /\ c.atoms[i].atom # c.atoms[j].atom
         /\ \A a : a \in AtomsOf(c) <=> \E i \in 1..Len(c.atoms) : c.atoms[i].atom = a
<1>1. c = Inline(c.text, c.atoms) /\ c.text \in Seq(MarkedLetters) /\ c.atoms \in Seq(Placements)
  BY DEF MixedContent
<1>2. c.shape = "inline"
  BY <1>1 DEF Inline
<1>3. /\ Len(c.text) \in Nat /\ Len(c.atoms) \in Nat
      /\ DOMAIN c.text = 1..Len(c.text) /\ DOMAIN c.atoms = 1..Len(c.atoms)
      /\ \A i \in 1..Len(c.text) : c.text[i] \in MarkedLetters
      /\ \A i \in 1..Len(c.atoms) : c.atoms[i] \in Placements
  BY <1>1
<1>4. QED BY <1>1, <1>2, <1>3 DEF MixedContent, Normalized, ValidOffset, AtomsOf

\* What content is made from.
LEMMA Made ==
  ASSUME NEW text \in Seq(MarkedLetters), NEW atoms \in Seq(Placements),
         \A i \in 1..Len(atoms) : atoms[i].offset \in 0..Len(text),
         \A i, j \in 1..Len(atoms) : i < j =>
           atoms[i].offset <= atoms[j].offset /\ atoms[i].atom # atoms[j].atom
  PROVE  MixedContent(Inline(text, atoms))
<1>1. Inline(text, atoms).text = text /\ Inline(text, atoms).atoms = atoms
  BY DEF Inline
<1>2. DOMAIN atoms = 1..Len(atoms)
  OBVIOUS
<1>3. QED BY <1>1, <1>2 DEF MixedContent, Normalized, ValidOffset

\* The atoms of such content.
LEMMA AtomsListed ==
  ASSUME NEW text, NEW atoms \in Seq(Placements)
  PROVE  AtomsOf(Inline(text, atoms)) = {atoms[i].atom : i \in 1..Len(atoms)}
BY DEF AtomsOf, Inline

\* A letter with marks of the schema.
LEMMA LettersAre ==
  ASSUME NEW letter \in TextLetters, NEW marks, marks \subseteq Marks
  PROVE  Letter(letter, marks) \in MarkedLetters
BY DEF Letter, MarkedLetters

\* A placement moved along the text.
LEMMA Moved ==
  ASSUME NEW p \in Placements, NEW to \in Nat
  PROVE  /\ [p EXCEPT !.offset = to] \in Placements
         /\ [p EXCEPT !.offset = to].atom = p.atom
         /\ [p EXCEPT !.offset = to].offset = to
BY DEF Placements

\* The atoms of content moved along new text without overtaking each other.
LEMMA AtomsMoved ==
  ASSUME NEW c, MixedContent(c), NEW text \in Seq(MarkedLetters), NEW atoms,
         NEW to, DOMAIN to = 1..Len(c.atoms),
         atoms = [i \in 1..Len(c.atoms) |-> [c.atoms[i] EXCEPT !.offset = to[i]]],
         \A i \in 1..Len(c.atoms) : to[i] \in 0..Len(text),
         \A i, j \in 1..Len(c.atoms) : i < j => to[i] <= to[j]
  PROVE  /\ MixedContent(Inline(text, atoms))
         /\ AtomsOf(Inline(text, atoms)) = AtomsOf(c)
<1> DEFINE n == Len(c.atoms)
<1>1. n \in Nat
  BY Laid
<1>2. \A i \in 1..n : /\ atoms[i] \in Placements
                      /\ atoms[i].atom = c.atoms[i].atom
                      /\ atoms[i].offset = to[i]
  <2>1. TAKE i \in 1..n
  <2>2. c.atoms[i] \in Placements /\ to[i] \in Nat
    BY Laid
  <2>3. atoms[i] = [c.atoms[i] EXCEPT !.offset = to[i]]
    OBVIOUS
  <2>4. QED BY <2>2, <2>3, Moved
<1>3. DOMAIN atoms = 1..n /\ atoms = [i \in 1..n |-> atoms[i]]
  OBVIOUS
<1>4. \A i, j \in 1..n : i < j => c.atoms[i].atom # c.atoms[j].atom
  BY Laid
<1>5. \A a : a \in AtomsOf(c) <=> \E i \in 1..n : c.atoms[i].atom = a
  BY Laid
<1> HIDE DEF n
<1>6. atoms \in Seq(Placements) /\ Len(atoms) = n
  BY <1>1, <1>2, <1>3
<1>7. MixedContent(Inline(text, atoms))
  <2>1. \A i \in 1..Len(atoms) : atoms[i].offset \in 0..Len(text)
    BY <1>2, <1>6 DEF n
  <2>2. \A i, j \in 1..Len(atoms) : i < j =>
          atoms[i].offset <= atoms[j].offset /\ atoms[i].atom # atoms[j].atom
    BY <1>2, <1>4, <1>6 DEF n
  <2>3. QED BY <1>6, <2>1, <2>2, Made
<1>8. AtomsOf(Inline(text, atoms)) = {atoms[i].atom : i \in 1..n}
  BY <1>6, AtomsListed
<1>9. \A a : a \in {atoms[i].atom : i \in 1..n} <=> a \in AtomsOf(c)
  BY <1>2, <1>5
<1>10. QED BY <1>7, <1>8, <1>9

\* The text around a replaced range, the replacement between.
LEMMA SplicedIsText ==
  ASSUME NEW text \in Seq(MarkedLetters), NEW start \in 0..Len(text), NEW end \in start..Len(text),
         NEW letters \in Seq(TextLetters), NEW marks, marks \subseteq Marks
  PROVE  /\ Spliced(text, start, end, letters, marks) \in Seq(MarkedLetters)
         /\ Len(Spliced(text, start, end, letters, marks))
              = Len(text) - (end - start) + Len(letters)
<1> DEFINE before == SubSeq(text, 1, start)
           new == [i \in DOMAIN letters |-> Letter(letters[i], marks)]
           after == SubSeq(text, end + 1, Len(text))
<1>1. before \in Seq(MarkedLetters) /\ Len(before) = start
  <2>1. 1 \in 1..(Len(text) + 1) /\ start \in (1 - 1)..Len(text)
    OBVIOUS
  <2>2. before \in Seq(MarkedLetters) /\ Len(before) = start - 1 + 1
    BY <2>1, Slice
  <2> HIDE DEF before
  <2>3. QED BY <2>2
<1>2. after \in Seq(MarkedLetters) /\ Len(after) = Len(text) - end
  <2>1. end + 1 \in 1..(Len(text) + 1) /\ Len(text) \in ((end + 1) - 1)..Len(text)
    OBVIOUS
  <2>2. after \in Seq(MarkedLetters) /\ Len(after) = Len(text) - (end + 1) + 1
    BY <2>1, Slice
  <2> HIDE DEF after
  <2>3. QED BY <2>2
<1>3. new \in Seq(MarkedLetters) /\ Len(new) = Len(letters)
  <2>1. DOMAIN letters = 1..Len(letters) /\ Len(letters) \in Nat
    OBVIOUS
  <2>2. \A i \in 1..Len(letters) : Letter(letters[i], marks) \in MarkedLetters
    BY LettersAre
  <2>3. QED BY <2>1, <2>2
<1>4. Spliced(text, start, end, letters, marks) = before \o new \o after
  BY DEF Spliced
<1> HIDE DEF before, new, after
<1> DEFINE both == before \o new
<1>5. both \in Seq(MarkedLetters) /\ Len(both) = Len(before) + Len(new)
  BY <1>1, <1>3, ConcatProperties
<1>6. Spliced(text, start, end, letters, marks) = both \o after
  BY <1>4
<1> HIDE DEF both
<1>7. both \o after \in Seq(MarkedLetters) /\ Len(both \o after) = Len(both) + Len(after)
  BY <1>2, <1>5, ConcatProperties
<1>8. Len(text) \in Nat /\ Len(letters) \in Nat /\ start \in Int /\ end \in Int
  OBVIOUS
<1>9. (start + Len(letters)) + (Len(text) - end) = Len(text) - (end - start) + Len(letters)
  BY <1>8
<1>10. Len(both \o after) = (start + Len(letters)) + (Len(text) - end)
  BY <1>1, <1>2, <1>3, <1>5, <1>7
<1>11. QED BY <1>6, <1>7, <1>9, <1>10

\* The letters of a range.
LEMMA LettersAreWords ==
  ASSUME NEW c, MixedContent(c), NEW start \in 0..Len(c.text), NEW end \in start..Len(c.text)
  PROVE  LettersOf(c, start, end) \in Seq(TextLetters)
<1>1. \A i \in 1..(end - start) : c.text[start + i].letter \in TextLetters
  <2>1. TAKE i \in 1..(end - start)
  <2>2. start + i \in 1..Len(c.text)
    BY Laid
  <2>3. c.text[start + i] \in MarkedLetters
    BY <2>2, Laid
  <2>4. QED BY <2>3 DEF MarkedLetters
<1>2. end - start \in Nat
  BY Laid
<1> DEFINE size == end - start
<1>3. LettersOf(c, start, end) = [i \in 1..size |-> c.text[start + i].letter]
  BY DEF LettersOf
<1> HIDE DEF size
<1>4. \A i \in 1..size : c.text[start + i].letter \in TextLetters
  BY <1>1 DEF size
<1>5. size \in Nat
  BY <1>2 DEF size
<1>6. QED BY <1>3, <1>4, <1>5

\* The marks a replacement inherits from its text.
LEMMA RunMarksAre ==
  ASSUME NEW c, MixedContent(c), NEW offset \in 0..Len(c.text)
  PROVE  RunMarksAt(c, offset) \subseteq Marks
<1>1. \A i \in 1..Len(c.text) : c.text[i].marks \subseteq Marks
  <2>1. TAKE i \in 1..Len(c.text)
  <2>2. c.text[i] \in MarkedLetters
    BY Laid
  <2>3. QED BY <2>2 DEF MarkedLetters
<1>2. CASE c.text = <<>>
  BY <1>2 DEF RunMarksAt
<1>3. CASE c.text # <<>> /\ offset = 0
  <2>1. 1 \in 1..Len(c.text)
    BY <1>3, Laid, EmptySeq DEF MixedContent
  <2>2. QED BY <1>1, <1>3, <2>1 DEF RunMarksAt
<1>4. CASE c.text # <<>> /\ offset # 0
  <2>1. offset \in 1..Len(c.text)
    BY <1>4, Laid
  <2>2. QED BY <1>1, <1>4, <2>1 DEF RunMarksAt
<1>5. QED BY <1>2, <1>3, <1>4

\* Where an offset goes when the text from start to end becomes as long as
\* len, for the offsets outside the range.
Behind(o, start, end, len) == IF o > end THEN o - (end - start) + len ELSE o

\* It stays within the text the replacement leaves.
LEMMA BehindBounds ==
  ASSUME NEW size \in Nat, NEW len \in Nat, NEW start \in 0..size, NEW end \in start..size,
         NEW o \in 0..size, o < start \/ o > end
  PROVE  Behind(o, start, end, len) \in 0..(size - (end - start) + len)
BY DEF Behind

\* It keeps the order of two offsets.
LEMMA BehindOrder ==
  ASSUME NEW size \in Nat, NEW len \in Nat, NEW start \in 0..size, NEW end \in start..size,
         NEW o \in 0..size, o < start \/ o > end,
         NEW p \in 0..size, p < start \/ p > end, o <= p
  PROVE  Behind(o, start, end, len) <= Behind(p, start, end, len)
BY DEF Behind

\* Replacement by text alone.
LEMMA ReplaceTextKeeps ==
  ASSUME NEW c, MixedContent(c), NEW start, NEW end, ReplacesText(c, start, end),
         NEW letters \in Seq(TextLetters)
  PROVE  /\ MixedContent(ReplaceText(c, start, end, letters))
         /\ AtomsOf(ReplaceText(c, start, end, letters)) = AtomsOf(c)
<1> DEFINE text == Spliced(c.text, start, end, letters, RunMarksAt(c, start))
           atoms == [i \in DOMAIN c.atoms |->
                       IF c.atoms[i].offset > end
                       THEN [c.atoms[i] EXCEPT !.offset = @ - (end - start) + Len(letters)]
                       ELSE c.atoms[i]]
<1>1. /\ start \in 0..Len(c.text) /\ end \in start..Len(c.text)
      /\ \A i \in 1..Len(c.atoms) : c.atoms[i].offset < start \/ c.atoms[i].offset > end
  <2>1. start \in 0..Len(c.text) /\ end \in 0..Len(c.text) /\ start <= end
    BY DEF ReplacesText, ValidOffset
  <2>2. \A i \in 1..Len(c.atoms) : c.atoms[i].offset \notin start..end
    BY Laid DEF ReplacesText
  <2>3. \A i \in 1..Len(c.atoms) : c.atoms[i].offset \in Nat
    BY Laid
  <2>4. Len(c.text) \in Nat
    BY Laid
  <2>5. start \in Int /\ end \in Int /\ start \in 0..Len(c.text) /\ end \in start..Len(c.text)
    BY <2>1, <2>4
  <2>6. \A o \in Nat : o \notin start..end => o < start \/ o > end
    BY <2>5
  <2>7. QED BY <2>2, <2>3, <2>5, <2>6
<1>2. text \in Seq(MarkedLetters) /\ Len(text) = Len(c.text) - (end - start) + Len(letters)
  BY <1>1, RunMarksAre, SplicedIsText DEF MixedContent
<1> DEFINE to == [i \in 1..Len(c.atoms) |-> Behind(c.atoms[i].offset, start, end, Len(letters))]
<1>3. atoms = [i \in 1..Len(c.atoms) |-> [c.atoms[i] EXCEPT !.offset = to[i]]]
  <2>1. \A i \in 1..Len(c.atoms) : [c.atoms[i] EXCEPT !.offset = @] = c.atoms[i]
    BY Laid DEF Placements
  <2>2. \A i \in 1..Len(c.atoms) : atoms[i] = [c.atoms[i] EXCEPT !.offset = to[i]]
    BY <2>1, Laid DEF Behind
  <2>3. DOMAIN atoms = 1..Len(c.atoms) /\ atoms = [i \in 1..Len(c.atoms) |-> atoms[i]]
    BY Laid
  <2> HIDE DEF atoms, to
  <2>4. QED BY <2>2, <2>3
<1>4. ReplaceText(c, start, end, letters) = Inline(text, atoms)
  BY DEF ReplaceText
<1>5. Len(letters) \in Nat /\ Len(c.text) \in Nat
  BY Laid
<1> HIDE DEF text, atoms
<1>6. /\ DOMAIN to = 1..Len(c.atoms)
      /\ \A i \in 1..Len(c.atoms) : to[i] = Behind(c.atoms[i].offset, start, end, Len(letters))
  OBVIOUS
<1> HIDE DEF to
<1>7. \A i \in 1..Len(c.atoms) : to[i] \in 0..Len(text)
  <2>1. TAKE i \in 1..Len(c.atoms)
  <2>2. c.atoms[i].offset \in 0..Len(c.text)
    BY Laid
  <2>3. Behind(c.atoms[i].offset, start, end, Len(letters))
          \in 0..(Len(c.text) - (end - start) + Len(letters))
    BY <1>1, <1>5, <2>2, BehindBounds
  <2>4. QED BY <1>2, <1>6, <2>3
<1>8. \A i, j \in 1..Len(c.atoms) : i < j => to[i] <= to[j]
  <2>1. SUFFICES ASSUME NEW i \in 1..Len(c.atoms), NEW j \in 1..Len(c.atoms), i < j
                 PROVE  to[i] <= to[j]
    OBVIOUS
  <2>2. /\ c.atoms[i].offset \in 0..Len(c.text) /\ c.atoms[j].offset \in 0..Len(c.text)
        /\ c.atoms[i].offset <= c.atoms[j].offset
    BY <2>1, Laid
  <2>3. Behind(c.atoms[i].offset, start, end, Len(letters))
          <= Behind(c.atoms[j].offset, start, end, Len(letters))
    BY <1>1, <1>5, <2>2, BehindOrder
  <2>4. QED BY <1>6, <2>3
<1>9. MixedContent(Inline(text, atoms)) /\ AtomsOf(Inline(text, atoms)) = AtomsOf(c)
  BY <1>2, <1>3, <1>6, <1>7, <1>8, AtomsMoved
<1>10. QED BY <1>4, <1>9

-----------------------------------------------------------------------------
(* Places among the atoms.                                                 *)

\* The members of an initial segment are the numbers up to its size.
LEMMA SegmentIsInterval ==
  ASSUME NEW n \in Nat, NEW S, S \subseteq 1..n,
         \A j \in S : \A i \in 1..(j - 1) : i \in S
  PROVE  Cardinality(S) \in 0..n /\ S = 1..Cardinality(S)
<1>1. IsFiniteSet(1..n) /\ Cardinality(1..n) = n
  BY FS_Interval
<1>2. IsFiniteSet(S) /\ Cardinality(S) \in Nat /\ Cardinality(S) <= n
  <2>1. IsFiniteSet(S) /\ Cardinality(S) <= n
    BY <1>1, FS_Subset
  <2>2. QED BY <2>1, FS_CardinalityType
<1>3. \A x \in S : x <= Cardinality(S)
  <2>1. TAKE x \in S
  <2>2. x \in 1..n
    OBVIOUS
  <2>3. 1..x \subseteq S
    <3>1. \A i \in 1..x : i = x \/ i \in 1..(x - 1)
      BY <2>2
    <3>2. QED BY <3>1
  <2>4. Cardinality(1..x) = x
    BY <2>2, FS_Interval
  <2>5. Cardinality(1..x) <= Cardinality(S)
    BY <1>2, <2>3, FS_Subset
  <2>6. QED BY <2>4, <2>5
<1>4. S \subseteq 1..Cardinality(S)
  <2>1. \A x \in S : x \in Nat /\ 1 <= x
    OBVIOUS
  <2>2. QED BY <1>2, <1>3, <2>1
<1>5. IsFiniteSet(1..Cardinality(S)) /\ Cardinality(1..Cardinality(S)) = Cardinality(S)
  BY <1>2, FS_Interval
<1>6. S = 1..Cardinality(S)
  BY <1>4, <1>5, FS_Subset
<1>7. QED BY <1>2, <1>6

\* The atoms of an offset stand in a row behind those of smaller offsets.
LEMMA RowIs ==
  ASSUME NEW c, MixedContent(c), NEW offset \in Int
  PROVE  LET a == AtomsBefore(c, offset, 0)
             e == AtomCountAt(c, offset)
         IN /\ a \in Nat /\ e \in Nat /\ a + e \in 0..Len(c.atoms)
            /\ \A index \in Int : AtomsBefore(c, offset, index) = a + index
            /\ \A i \in 1..Len(c.atoms) : /\ i <= a <=> c.atoms[i].offset < offset
                                          /\ i <= a + e <=> c.atoms[i].offset <= offset
<1> DEFINE n == Len(c.atoms)
           A == {i \in 1..n : c.atoms[i].offset < offset}
           E == {i \in 1..n : c.atoms[i].offset = offset}
           B == {i \in 1..n : c.atoms[i].offset <= offset}
<1>1. n \in Nat /\ DOMAIN c.atoms = 1..n
  BY Laid
<1>2. \A i \in 1..n : c.atoms[i].offset \in Nat
  BY Laid
<1>3. \A i, j \in 1..n : i < j => c.atoms[i].offset <= c.atoms[j].offset
  BY Laid
<1>4. /\ AtomCountAt(c, offset) = Cardinality(E)
      /\ \A index \in Int : AtomsBefore(c, offset, index) = Cardinality(A) + index
  BY <1>1 DEF AtomCountAt, AtomsBefore
<1> HIDE DEF n
<1>5. Cardinality(A) \in 0..n /\ A = 1..Cardinality(A)
  <2>1. \A j \in A : \A i \in 1..(j - 1) : i \in A
    <3>1. SUFFICES ASSUME NEW j \in A, NEW i \in 1..(j - 1) PROVE i \in A
      OBVIOUS
    <3>2. i \in 1..n /\ j \in 1..n /\ i < j
      BY <1>1
    <3>3. c.atoms[i].offset <= c.atoms[j].offset /\ c.atoms[j].offset < offset
      BY <1>3, <3>2
    <3>4. c.atoms[i].offset \in Nat /\ c.atoms[j].offset \in Nat 
      BY <1>2, <3>2
    <3>5. c.atoms[i].offset < offset
      BY <3>3, <3>4
    <3>6. QED BY <3>2, <3>5
  <2>2. A \subseteq 1..n
    OBVIOUS
  <2> HIDE DEF A
  <2>3. QED BY <1>1, <2>1, <2>2, SegmentIsInterval
<1>6. Cardinality(B) \in 0..n /\ B = 1..Cardinality(B)
  <2>1. \A j \in B : \A i \in 1..(j - 1) : i \in B
    <3>1. SUFFICES ASSUME NEW j \in B, NEW i \in 1..(j - 1) PROVE i \in B
      OBVIOUS
    <3>2. i \in 1..n /\ j \in 1..n /\ i < j
      BY <1>1
    <3>3. c.atoms[i].offset <= c.atoms[j].offset /\ c.atoms[j].offset <= offset
      BY <1>3, <3>2
    <3>4. c.atoms[i].offset \in Nat /\ c.atoms[j].offset \in Nat 
      BY <1>2, <3>2
    <3>5. c.atoms[i].offset <= offset
      BY <3>3, <3>4
    <3>6. QED BY <3>2, <3>5
  <2>2. B \subseteq 1..n
    OBVIOUS
  <2> HIDE DEF B
  <2>3. QED BY <1>1, <2>1, <2>2, SegmentIsInterval
<1>7. Cardinality(B) = Cardinality(A) + Cardinality(E)
  <2>1. B = A \cup E /\ A \cap E = {}
    BY <1>1, <1>2
  <2>2. A \subseteq 1..n /\ E \subseteq 1..n
    OBVIOUS
  <2> HIDE DEF A, E, B
  <2>3. IsFiniteSet(A) /\ IsFiniteSet(E)
    <3>1. IsFiniteSet(1..n)
      BY <1>1, FS_Interval
    <3>2. QED BY <2>2, <3>1, FS_Subset
  <2>4. Cardinality(A \cup E) = Cardinality(A) + Cardinality(E) - Cardinality(A \cap E)
    BY <2>3, FS_Union
  <2>5. Cardinality(A \cap E) = 0
    BY <2>1, FS_EmptySet
  <2>6. Cardinality(A) \in Nat /\ Cardinality(E) \in Nat
    BY <2>3, FS_CardinalityType
  <2>7. QED BY <2>1, <2>4, <2>5, <2>6
<1> DEFINE a == Cardinality(A)
           b == Cardinality(B)
<1>8. \A i \in 1..n : (i <= a <=> c.atoms[i].offset < offset) /\ (i <= b <=> c.atoms[i].offset <= offset)
  <2>1. TAKE i \in 1..n
  <2>2. i \in A <=> i \in 1..a
    BY <1>5
  <2>3. i \in B <=> i \in 1..b
    BY <1>6
  <2>4. i \in A <=> c.atoms[i].offset < offset
    OBVIOUS
  <2>5. i \in B <=> c.atoms[i].offset <= offset
    OBVIOUS
  <2> HIDE DEF A, B
  <2>6. a \in Nat /\ b \in Nat
    BY <1>5, <1>6
  <2>7. (i \in 1..a <=> i <= a) /\ (i \in 1..b <=> i <= b)
    BY <1>1, <2>6
  <2>8. QED BY <2>2, <2>3, <2>4, <2>5, <2>7
<1>9. a \in Nat /\ b \in 0..n /\ Cardinality(E) \in Nat /\ b = a + Cardinality(E)
  <2>1. E \subseteq 1..n
    OBVIOUS
  <2> HIDE DEF E
  <2>2. Cardinality(E) \in Nat
    <3>1. IsFiniteSet(1..n)
      BY <1>1, FS_Interval
    <3>2. IsFiniteSet(E)
      BY <2>1, <3>1, FS_Subset
    <3>3. QED BY <3>2, FS_CardinalityType
  <2>3. QED BY <1>5, <1>6, <1>7, <2>2
<1> HIDE DEF A, B, E
<1>10. AtomsBefore(c, offset, 0) = a
  BY <1>4, <1>9
<1> HIDE DEF a, b
<1>11. AtomCountAt(c, offset) \in Nat /\ b = a + AtomCountAt(c, offset)
  BY <1>4, <1>9
<1>12. \A index \in Int : AtomsBefore(c, offset, index) = a + index
  BY <1>4 DEF a
<1> DEFINE e == AtomCountAt(c, offset)
<1>13. \A i \in 1..n : /\ i <= a <=> c.atoms[i].offset < offset
                       /\ i <= a + e <=> c.atoms[i].offset <= offset
  BY <1>8, <1>11
<1>14. a + e \in 0..n
  BY <1>9, <1>11
<1>15. e \in Nat
  BY <1>11
<1> HIDE DEF e, n
<1>16. /\ a \in Nat /\ e \in Nat /\ a + e \in 0..n
       /\ \A index \in Int : AtomsBefore(c, offset, index) = a + index
       /\ \A i \in 1..n : /\ i <= a <=> c.atoms[i].offset < offset
                          /\ i <= a + e <=> c.atoms[i].offset <= offset
  BY <1>9, <1>12, <1>13, <1>14, <1>15
<1>17. QED BY <1>10, <1>16, Zenon DEF e, n

\* The place of a gap among the atoms: those before it lie at its offset or
\* before, those behind it at its offset or behind.
LEMMA CutPoint ==
  ASSUME NEW c, MixedContent(c), NEW offset, NEW index, ValidGap(c, offset, index)
  PROVE  /\ offset \in 0..Len(c.text)
         /\ AtomsBefore(c, offset, index) \in 0..Len(c.atoms)
         /\ \A i \in 1..Len(c.atoms) :
              /\ i <= AtomsBefore(c, offset, index) => c.atoms[i].offset <= offset
              /\ i > AtomsBefore(c, offset, index) => c.atoms[i].offset >= offset
<1> DEFINE n == Len(c.atoms)
           a == AtomsBefore(c, offset, 0)
           e == AtomCountAt(c, offset)
           k == AtomsBefore(c, offset, index)
<1>1. n \in Nat /\ offset \in 0..Len(c.text) /\ Len(c.text) \in Nat /\ index \in 0..e
  BY Laid DEF ValidGap, ValidOffset
<1>2. \A i \in 1..n : c.atoms[i].offset \in Nat
  BY Laid
<1>3. offset \in Int
  BY <1>1
<1>4. /\ a \in Nat /\ e \in Nat /\ a + e \in 0..n
      /\ \A x \in Int : AtomsBefore(c, offset, x) = a + x
      /\ \A i \in 1..n : /\ i <= a <=> c.atoms[i].offset < offset
                         /\ i <= a + e <=> c.atoms[i].offset <= offset
  <2> HIDE DEF k
  <2>1. QED BY <1>3, RowIs, Zenon
<1> HIDE DEF n, a, e
<1>5. k = a + index
  BY <1>1, <1>4
<1> HIDE DEF k
<1>6. k \in a..(a + e) /\ k \in 0..n
  BY <1>1, <1>4, <1>5
<1>7. \A i \in 1..n : /\ i <= k => c.atoms[i].offset <= offset
                      /\ i > k => c.atoms[i].offset >= offset
  <2>1. TAKE i \in 1..n
  <2>2. i \in Int /\ (i <= k => i <= a + e) /\ (i > k => ~(i <= a))
    BY <1>4, <1>6
  <2>3. c.atoms[i].offset \in Int /\ offset \in Int
    BY <1>2, <1>3
  <2>4. ~(c.atoms[i].offset < offset) => c.atoms[i].offset >= offset
    BY <2>3
  <2>5. QED BY <1>4, <2>2, <2>4
<1>8. QED BY <1>1, <1>6, <1>7 DEF n, k

\* Of two atoms, the one before keeps to the seam's side of the one behind.
LEMMA SeamSplits ==
  ASSUME NEW c, MixedContent(c), NEW offset, NEW index,
         NEW i \in 1..Len(c.atoms), NEW j \in 1..Len(c.atoms), i < j,
         offset \in Nat, index \in Nat, BeforeSeam(c, j, offset, index)
  PROVE  BeforeSeam(c, i, offset, index)
<1> DEFINE At(x) == {y \in 1..(x - 1) : c.atoms[y].offset = c.atoms[x].offset}
<1>1. /\ c.atoms[i].offset <= c.atoms[j].offset
      /\ c.atoms[i].offset \in Nat /\ c.atoms[j].offset \in Nat
  BY Laid
<1>2. i \in Nat /\ j \in Nat
  OBVIOUS
<1>3. CASE c.atoms[i].offset < offset
  BY <1>3 DEF BeforeSeam
<1>4. CASE ~(c.atoms[i].offset < offset)
  <2>1. c.atoms[j].offset = offset /\ c.atoms[i].offset = offset /\ Ordinal(c, j) < index
    <3>1. c.atoms[j].offset <= offset
      BY <1>1 DEF BeforeSeam
    <3>2. c.atoms[i].offset = offset /\ c.atoms[j].offset = offset
      BY <1>1, <1>4, <3>1
    <3>3. QED BY <1>1, <3>2 DEF BeforeSeam
  <2>2. At(i) \subseteq At(j)
    BY <1>2, <2>1
  <2>3. IsFiniteSet(At(j))
    <3>1. IsFiniteSet(1..(j - 1))
      BY <1>2, FS_Interval
    <3>2. At(j) \subseteq 1..(j - 1)
      OBVIOUS
    <3> HIDE DEF At
    <3>3. QED BY <3>1, <3>2, FS_Subset
  <2>4. Ordinal(c, i) = Cardinality(At(i)) /\ Ordinal(c, j) = Cardinality(At(j))
    BY DEF Ordinal
  <2> HIDE DEF At
  <2>5. Cardinality(At(i)) <= Cardinality(At(j))
    BY <2>2, <2>3, FS_Subset
  <2>6. Cardinality(At(i)) \in Nat /\ Cardinality(At(j)) \in Nat
    BY <2>2, <2>3, FS_Subset, FS_CardinalityType
  <2>7. Ordinal(c, i) < index
    BY <2>1, <2>4, <2>5, <2>6
  <2>8. QED BY <2>1, <2>7 DEF BeforeSeam
<1>5. QED BY <1>3, <1>4

\* An offset before the seam stays, one behind the replaced text follows it.
LEMMA PushedBounds ==
  ASSUME NEW size \in Nat, NEW len \in Nat, NEW start \in 0..size, NEW end \in start..size,
         NEW o \in 0..size, NEW to,
         \/ to = o /\ o <= start
         \/ to = o - (end - start) + len /\ o >= end
  PROVE  to \in 0..(size - (end - start) + len)
OBVIOUS

\* Offsets pushed behind a seam keep their order.
LEMMA PushedOrder ==
  ASSUME NEW size \in Nat, NEW len \in Nat, NEW start \in 0..size, NEW end \in start..size,
         NEW o \in 0..size, NEW p \in 0..size, o <= p, NEW to, NEW up,
         \/ to = o /\ up = p
         \/ to = o /\ o <= start /\ up = p - (end - start) + len /\ p >= end
         \/ to = o - (end - start) + len /\ up = p - (end - start) + len
  PROVE  to <= up
OBVIOUS

\* A replacement at a seam.
LEMMA ReplaceInlineTextKeeps ==
  ASSUME NEW c, MixedContent(c), NEW offset, NEW index, NEW end,
         ReplacesInlineText(c, offset, index, end),
         NEW letters \in Seq(TextLetters), NEW marks, marks \subseteq Marks
  PROVE  /\ MixedContent(ReplaceInlineText(c, offset, index, end, letters, marks))
         /\ AtomsOf(ReplaceInlineText(c, offset, index, end, letters, marks)) = AtomsOf(c)
<1> DEFINE text == Spliced(c.text, offset, end, letters, marks)
           atoms == [i \in DOMAIN c.atoms |->
                       IF BeforeSeam(c, i, offset, index) THEN c.atoms[i]
                       ELSE [c.atoms[i] EXCEPT !.offset = @ - (end - offset) + Len(letters)]]
           InFront == {i \in 1..Len(c.atoms) : BeforeSeam(c, i, offset, index)}
<1>1. /\ offset \in 0..Len(c.text) /\ end \in offset..Len(c.text)
      /\ index \in Nat /\ Len(c.text) \in Nat
  <2>1. offset \in 0..Len(c.text) /\ end \in 0..Len(c.text) /\ offset <= end
    BY DEF ReplacesInlineText, ValidGap, ValidOffset
  <2>2. index \in Nat
    BY DEF ReplacesInlineText, ValidGap
  <2>3. Len(c.text) \in Nat
    BY Laid
  <2>4. QED BY <2>1, <2>2, <2>3
<1>2. text \in Seq(MarkedLetters) /\ Len(text) = Len(c.text) - (end - offset) + Len(letters)
  BY <1>1, SplicedIsText DEF MixedContent
<1>3. \A i \in 1..Len(c.atoms) :
        /\ c.atoms[i].offset \in 0..Len(c.text)
        /\ i \in InFront => c.atoms[i].offset <= offset
        /\ i \notin InFront => c.atoms[i].offset >= end
  <2>1. TAKE i \in 1..Len(c.atoms)
  <2>2. c.atoms[i].offset \in 0..Len(c.text) /\ i \in DOMAIN c.atoms
    BY Laid
  <2>3. i \in InFront <=> BeforeSeam(c, i, offset, index)
    OBVIOUS
  <2> HIDE DEF InFront
  <2>4. i \in InFront => c.atoms[i].offset <= offset
    BY <1>1, <2>2, <2>3 DEF BeforeSeam
  <2>5. ASSUME i \notin InFront PROVE c.atoms[i].offset >= end
    <3>1. CASE end > offset
      BY <2>2, <2>3, <2>5, <3>1 DEF ReplacesInlineText
    <3>2. CASE end = offset
      <4>1. ~(c.atoms[i].offset < offset)
        BY <2>3, <2>5 DEF BeforeSeam
      <4>2. QED BY <1>1, <2>2, <3>2, <4>1
    <3>3. QED BY <1>1, <3>1, <3>2
  <2>6. QED BY <2>2, <2>4, <2>5
<1>4. \A i, j \in 1..Len(c.atoms) : i < j /\ j \in InFront => i \in InFront
  BY <1>1, SeamSplits
<1> DEFINE to == [i \in 1..Len(c.atoms) |->
                    IF i \in InFront THEN c.atoms[i].offset
                    ELSE c.atoms[i].offset - (end - offset) + Len(letters)]
<1>5. atoms = [i \in 1..Len(c.atoms) |-> [c.atoms[i] EXCEPT !.offset = to[i]]]
  <2>1. \A i \in 1..Len(c.atoms) : [c.atoms[i] EXCEPT !.offset = @] = c.atoms[i]
    BY Laid DEF Placements
  <2>2. \A i \in 1..Len(c.atoms) : atoms[i] = [c.atoms[i] EXCEPT !.offset = to[i]]
    <3>1. TAKE i \in 1..Len(c.atoms)
    <3>2. i \in DOMAIN c.atoms /\ [c.atoms[i] EXCEPT !.offset = c.atoms[i].offset] = c.atoms[i]
      BY <2>1, Laid
    <3>3. CASE i \in InFront
      BY <3>2, <3>3
    <3>4. CASE i \notin InFront
      BY <3>2, <3>4
    <3>5. QED BY <3>3, <3>4
  <2>3. DOMAIN atoms = 1..Len(c.atoms) /\ atoms = [i \in 1..Len(c.atoms) |-> atoms[i]]
    BY Laid
  <2> HIDE DEF atoms, to
  <2>4. QED BY <2>2, <2>3
<1>6. ReplaceInlineText(c, offset, index, end, letters, marks) = Inline(text, atoms)
  BY DEF ReplaceInlineText
<1>7. Len(letters) \in Nat
  OBVIOUS
<1> HIDE DEF text, atoms, InFront
<1>8. /\ DOMAIN to = 1..Len(c.atoms)
      /\ \A i \in 1..Len(c.atoms) :
           /\ i \in InFront => to[i] = c.atoms[i].offset
           /\ i \notin InFront => to[i] = c.atoms[i].offset - (end - offset) + Len(letters)
  OBVIOUS
<1> HIDE DEF to
<1>9. \A i \in 1..Len(c.atoms) : to[i] \in 0..Len(text)
  <2>1. TAKE i \in 1..Len(c.atoms)
  <2> DEFINE o == c.atoms[i].offset
  <2>2. o \in 0..Len(c.text)
    BY <1>3
  <2>3. CASE i \in InFront
    <3>1. to[i] = o /\ o <= offset
      BY <1>3, <1>8, <2>3
    <3> HIDE DEF o
    <3>2. QED BY <1>1, <1>2, <1>7, <2>2, <3>1, PushedBounds
  <2>4. CASE i \notin InFront
    <3>1. to[i] = o - (end - offset) + Len(letters)
      BY <1>8, <2>4
    <3>2. o >= end
      BY <1>3, <2>4
    <3> HIDE DEF o
    <3>3. QED BY <1>1, <1>2, <1>7, <2>2, <3>1, <3>2, PushedBounds
  <2>5. QED BY <2>3, <2>4
<1>10. \A i, j \in 1..Len(c.atoms) : i < j => to[i] <= to[j]
  <2>1. SUFFICES ASSUME NEW i \in 1..Len(c.atoms), NEW j \in 1..Len(c.atoms), i < j
                 PROVE  to[i] <= to[j]
    OBVIOUS
  <2> DEFINE o == c.atoms[i].offset
             p == c.atoms[j].offset
  <2>2. o <= p /\ o \in 0..Len(c.text) /\ p \in 0..Len(c.text)
    BY <2>1, Laid
  <2>3. CASE i \in InFront /\ j \in InFront
    <3>1. to[i] = o /\ to[j] = p
      BY <1>8, <2>3
    <3>2. QED BY <2>2, <3>1
  <2>4. CASE i \in InFront /\ j \notin InFront
    <3>1. to[i] = o /\ o <= offset
      BY <1>3, <1>8, <2>4
    <3>2. to[j] = p - (end - offset) + Len(letters)
      BY <1>8, <2>4
    <3>3. p >= end
      BY <1>3, <2>4
    <3> HIDE DEF o, p
    <3>4. QED BY <1>1, <1>7, <2>2, <3>1, <3>2, <3>3, PushedOrder
  <2>5. CASE i \notin InFront /\ j \notin InFront
    <3>1. to[i] = o - (end - offset) + Len(letters)
      BY <1>8, <2>5
    <3>2. to[j] = p - (end - offset) + Len(letters)
      BY <1>8, <2>5
    <3> HIDE DEF o, p
    <3>3. QED BY <1>1, <1>7, <2>2, <3>1, <3>2, PushedOrder
  <2>6. i \in InFront \/ j \notin InFront
    BY <1>4, <2>1
  <2>7. QED BY <2>3, <2>4, <2>5, <2>6
<1>11. MixedContent(Inline(text, atoms)) /\ AtomsOf(Inline(text, atoms)) = AtomsOf(c)
  BY <1>2, <1>5, <1>8, <1>9, <1>10, AtomsMoved
<1>12. QED BY <1>6, <1>11

\* Adding and removing a mark.
LEMMA MarksChange ==
  ASSUME NEW c, MixedContent(c), NEW start, NEW end, NEW kind, NEW mark
  PROVE  /\ mark \in Marks => /\ MixedContent(AddMark(c, start, end, mark))
                              /\ AtomsOf(AddMark(c, start, end, mark)) = AtomsOf(c)
         /\ MixedContent(RemoveMark(c, start, end, kind))
         /\ AtomsOf(RemoveMark(c, start, end, kind)) = AtomsOf(c)
<1> DEFINE added(ms) == WithoutKind(ms, mark.kind) \cup {mark}
           removed(ms) == WithoutKind(ms, kind)
           adds == [i \in DOMAIN c.text |->
                      IF i \in (start + 1)..end
                      THEN [c.text[i] EXCEPT !.marks = added(@)] ELSE c.text[i]]
           removes == [i \in DOMAIN c.text |->
                      IF i \in (start + 1)..end
                      THEN [c.text[i] EXCEPT !.marks = removed(@)] ELSE c.text[i]]
<1>1. AddMark(c, start, end, mark) = Inline(adds, c.atoms)
  <2>1. c = Inline(c.text, c.atoms)
    BY DEF MixedContent
  <2>2. AddMark(c, start, end, mark) = [c EXCEPT !.text = adds]
    BY DEF AddMark, OnRange
  <2> HIDE DEF adds
  <2>3. QED BY <2>1, <2>2 DEF Inline
<1>2. RemoveMark(c, start, end, kind) = Inline(removes, c.atoms)
  <2>1. c = Inline(c.text, c.atoms)
    BY DEF MixedContent
  <2>2. RemoveMark(c, start, end, kind) = [c EXCEPT !.text = removes]
    BY DEF RemoveMark, OnRange
  <2> HIDE DEF removes
  <2>3. QED BY <2>1, <2>2 DEF Inline
<1>3. ASSUME NEW l \in MarkedLetters, NEW ms, ms \subseteq Marks
      PROVE  [l EXCEPT !.marks = ms] \in MarkedLetters
  BY <1>3 DEF MarkedLetters
<1>4. \A l \in MarkedLetters :
        /\ mark \in Marks => added(l.marks) \subseteq Marks
        /\ removed(l.marks) \subseteq Marks
  BY DEF MarkedLetters, WithoutKind
<1>5. /\ Len(c.text) \in Nat /\ DOMAIN c.text = 1..Len(c.text)
      /\ \A i \in 1..Len(c.text) : c.text[i] \in MarkedLetters
  BY Laid
<1> HIDE DEF added, removed
<1>6. ASSUME mark \in Marks
      PROVE  adds \in Seq(MarkedLetters) /\ Len(adds) = Len(c.text)
  <2>1. \A i \in 1..Len(c.text) : adds[i] \in MarkedLetters
    BY <1>3, <1>4, <1>5, <1>6
  <2>2. DOMAIN adds = 1..Len(c.text) /\ adds = [i \in 1..Len(c.text) |-> adds[i]]
    BY <1>5
  <2> HIDE DEF adds
  <2>3. QED BY <1>5, <2>1, <2>2
<1>7. removes \in Seq(MarkedLetters) /\ Len(removes) = Len(c.text)
  <2>1. \A i \in 1..Len(c.text) : removes[i] \in MarkedLetters
    BY <1>3, <1>4, <1>5
  <2>2. DOMAIN removes = 1..Len(c.text) /\ removes = [i \in 1..Len(c.text) |-> removes[i]]
    BY <1>5
  <2> HIDE DEF removes
  <2>3. QED BY <1>5, <2>1, <2>2
<1> HIDE DEF adds, removes
<1>8. ASSUME NEW text \in Seq(MarkedLetters), Len(text) = Len(c.text)
      PROVE  MixedContent(Inline(text, c.atoms)) /\ AtomsOf(Inline(text, c.atoms)) = AtomsOf(c)
  <2>1. /\ c.atoms \in Seq(Placements)
        /\ \A i \in 1..Len(c.atoms) : c.atoms[i].offset \in 0..Len(text)
        /\ \A i, j \in 1..Len(c.atoms) : i < j =>
             c.atoms[i].offset <= c.atoms[j].offset /\ c.atoms[i].atom # c.atoms[j].atom
    BY <1>8, Laid DEF MixedContent
  <2>2. MixedContent(Inline(text, c.atoms))
    BY <2>1, Made
  <2>3. AtomsOf(Inline(text, c.atoms)) = AtomsOf(c)
    BY DEF AtomsOf, Inline
  <2>4. QED BY <2>2, <2>3
<1>9. QED BY <1>1, <1>2, <1>6, <1>7, <1>8

-----------------------------------------------------------------------------
(* Atoms come and go; content is cut and joined.                           *)

\* An atom enters at a gap.
LEMMA AttachKeeps ==
  ASSUME NEW c, MixedContent(c), NEW offset, NEW index, ValidGap(c, offset, index),
         NEW atom \in Nat, atom \notin AtomsOf(c)
  PROVE  /\ MixedContent(AttachAtom(c, offset, index, atom))
         /\ AtomsOf(AttachAtom(c, offset, index, atom)) = AtomsOf(c) \cup {atom}
<1> DEFINE k == AtomsBefore(c, offset, index) + 1
           p == Placement(atom, offset)
           n == Len(c.atoms)
           atoms == InsertAt(c.atoms, k, p)
<1>1. /\ offset \in 0..Len(c.text) /\ k \in 1..(n + 1)
      /\ \A i \in 1..n : /\ i < k => c.atoms[i].offset <= offset
                         /\ i >= k => c.atoms[i].offset >= offset
  <2>1. /\ offset \in 0..Len(c.text)
        /\ AtomsBefore(c, offset, index) \in 0..n
        /\ \A i \in 1..n :
              /\ i <= AtomsBefore(c, offset, index) => c.atoms[i].offset <= offset
              /\ i > AtomsBefore(c, offset, index) => c.atoms[i].offset >= offset
    BY CutPoint
  <2>2. n \in Nat
    BY Laid
  <2> DEFINE before == AtomsBefore(c, offset, index)
  <2>3. before \in Int
    BY <2>1, <2>2
  <2> HIDE DEF before, n
  <2>4. \A i \in 1..n : (i < before + 1 => i <= before) /\ (i >= before + 1 => i > before)
    BY <2>3
  <2>5. before + 1 \in 1..(n + 1)
    BY <2>1, <2>2 DEF before
  <2>6. \A i \in 1..n : /\ i < before + 1 => c.atoms[i].offset <= offset
                        /\ i >= before + 1 => c.atoms[i].offset >= offset
    BY <2>1, <2>4 DEF before
  <2>7. QED BY <2>1, <2>5, <2>6 DEF before
<1>2. p \in Placements /\ p.atom = atom /\ p.offset = offset
  BY <1>1 DEF Placement, Placements
<1>3. c.atoms \in Seq(Placements) /\ n \in Nat /\ Len(c.text) \in Nat
  BY Laid DEF MixedContent
<1>4. AttachAtom(c, offset, index, atom) = Inline(c.text, atoms)
  <2>1. AttachAtom(c, offset, index, atom) = [c EXCEPT !.atoms = atoms]
    BY DEF AttachAtom
  <2>2. c = Inline(c.text, c.atoms)
    BY DEF MixedContent
  <2> HIDE DEF atoms
  <2>3. QED BY <2>1, <2>2 DEF Inline
<1> HIDE DEF k, p
<1>5. /\ atoms \in Seq(Placements) /\ Len(atoms) = n + 1
      /\ \A i \in 1..(n + 1) :
           atoms[i] = IF i < k THEN c.atoms[i] ELSE IF i = k THEN p ELSE c.atoms[i - 1]
  <2> DEFINE s == c.atoms
  <2>1. s \in Seq(Placements) /\ k \in 1..(Len(s) + 1)
    BY <1>1, <1>3
  <2> HIDE DEF s
  <2>2. /\ InsertAt(s, k, p) \in Seq(Placements)
        /\ Len(InsertAt(s, k, p)) = Len(s) + 1
        /\ \A i \in 1..(Len(s) + 1) :
              InsertAt(s, k, p)[i] = IF i < k THEN s[i] ELSE IF i = k THEN p ELSE s[i - 1]
    BY <1>2, <2>1, Inserted
  <2>3. QED BY <2>2 DEF s
<1>6. \A i \in 1..n : /\ c.atoms[i].offset \in 0..Len(c.text)
                      /\ c.atoms[i].atom # atom
  BY Laid
<1>7. \A i, j \in 1..n : i < j =>
        c.atoms[i].offset <= c.atoms[j].offset /\ c.atoms[i].atom # c.atoms[j].atom
  BY Laid
<1>8. \A a : a \in AtomsOf(c) <=> \E i \in 1..n : c.atoms[i].atom = a
  BY Laid
<1> HIDE DEF atoms, n
<1>9. ASSUME NEW i \in 1..(n + 1)
      PROVE  \/ i < k /\ i \in 1..n /\ atoms[i] = c.atoms[i]
             \/ i = k /\ atoms[i] = p
             \/ i > k /\ i - 1 \in 1..n /\ i - 1 >= k /\ atoms[i] = c.atoms[i - 1]
  <2>1. CASE i < k
    <3>1. i \in 1..n
      BY <1>1, <1>3, <2>1
    <3>2. QED BY <1>5, <2>1, <3>1
  <2>2. CASE i = k
    <3>1. ~(i < k)
      BY <1>1, <2>2
    <3>2. QED BY <1>5, <2>2, <3>1
  <2>3. CASE i > k
    <3>1. ~(i < k) /\ i # k /\ i - 1 \in 1..n /\ i - 1 >= k
      BY <1>1, <1>3, <2>3
    <3>2. QED BY <1>5, <2>3, <3>1
  <2>4. QED BY <1>1, <2>1, <2>2, <2>3
<1>10. \A i \in 1..Len(atoms) : atoms[i].offset \in 0..Len(c.text)
  BY <1>1, <1>2, <1>5, <1>6, <1>9
<1>11. \A i, j \in 1..Len(atoms) : i < j =>
        atoms[i].offset <= atoms[j].offset /\ atoms[i].atom # atoms[j].atom
  <2>1. SUFFICES ASSUME NEW i \in 1..(n + 1), NEW j \in 1..(n + 1), i < j
                 PROVE  atoms[i].offset <= atoms[j].offset /\ atoms[i].atom # atoms[j].atom
    BY <1>5
  <2>2. i \in Int /\ j \in Int /\ k \in Int
    BY <1>1
  <2>3. CASE j < k
    <3>1. i < k
      BY <2>1, <2>2, <2>3
    <3>2. /\ atoms[i] = c.atoms[i] /\ atoms[j] = c.atoms[j] /\ i \in 1..n /\ j \in 1..n
      BY <1>9, <2>2, <2>3, <3>1
    <3>3. QED BY <1>7, <2>1, <3>2
  <2>4. CASE j = k
    <3>1. i < k
      BY <2>1, <2>2, <2>4
    <3>2. /\ atoms[i] = c.atoms[i] /\ atoms[j] = p /\ i \in 1..n
      BY <1>9, <2>2, <2>4, <3>1
    <3>3. QED BY <1>1, <1>2, <1>6, <3>1, <3>2
  <2>5. CASE j > k
    <3>1. atoms[j] = c.atoms[j - 1] /\ j - 1 \in 1..n /\ j - 1 >= k
      BY <1>9, <2>2, <2>5
    <3>2. CASE i < k
      <4>1. atoms[i] = c.atoms[i] /\ i \in 1..n /\ i < j - 1
        BY <1>9, <2>2, <3>1, <3>2
      <4>2. QED BY <1>7, <3>1, <4>1
    <3>3. CASE i = k
      <4>1. atoms[i] = p
        BY <1>9, <2>2, <3>3
      <4>2. c.atoms[j - 1].offset >= offset /\ c.atoms[j - 1].offset \in Int /\ offset \in Int
        BY <1>1, <1>3, <1>6, <3>1
      <4>3. offset <= c.atoms[j - 1].offset
        BY <4>2
      <4>4. QED BY <1>2, <1>6, <3>1, <4>1, <4>3
    <3>4. CASE i > k
      <4>1. atoms[i] = c.atoms[i - 1] /\ i - 1 \in 1..n
        BY <1>9, <2>2, <3>4
      <4>2. i - 1 < j - 1
        BY <2>1, <2>2
      <4>3. QED BY <1>7, <3>1, <4>1, <4>2
    <3>5. QED BY <2>2, <3>2, <3>3, <3>4
  <2>6. QED BY <2>2, <2>3, <2>4, <2>5
<1>12. MixedContent(Inline(c.text, atoms))
  BY <1>5, <1>10, <1>11, Made DEF MixedContent
<1>13. AtomsOf(Inline(c.text, atoms)) = {atoms[i].atom : i \in 1..(n + 1)}
  BY <1>5, AtomsListed
<1>14. \A a : a \in {atoms[i].atom : i \in 1..(n + 1)} <=> a \in AtomsOf(c) \cup {atom}
  <2>1. ASSUME NEW i \in 1..(n + 1) PROVE atoms[i].atom \in AtomsOf(c) \cup {atom}
    BY <1>2, <1>8, <1>9
  <2>2. ASSUME NEW i \in 1..n
        PROVE  \E j \in 1..(n + 1) : atoms[j].atom = c.atoms[i].atom
    <3>1. CASE i < k
      <4>1. i \in 1..(n + 1)
        BY <1>3
      <4>2. ~(i = k) /\ ~(i > k)
        BY <1>1, <3>1
      <4>3. QED BY <1>9, <4>1, <4>2
    <3>2. CASE ~(i < k)
      <4>1. i + 1 \in 1..(n + 1) /\ i + 1 > k /\ (i + 1) - 1 = i
        BY <1>1, <1>3, <3>2
      <4>2. ~(i + 1 < k) /\ ~(i + 1 = k)
        BY <1>1, <4>1
      <4>3. QED BY <1>9, <4>1, <4>2
    <3>3. QED BY <3>1, <3>2
  <2>3. \E j \in 1..(n + 1) : atoms[j].atom = atom
    <3>1. k \in 1..(n + 1) /\ ~(k < k) /\ ~(k > k)
      BY <1>1
    <3>2. QED BY <1>2, <1>9, <3>1
  <2>4. QED BY <1>8, <2>1, <2>2, <2>3
<1>15. QED BY <1>4, <1>12, <1>13, <1>14

\* An atom leaves.
LEMMA DetachKeeps ==
  ASSUME NEW c, MixedContent(c), NEW k \in 1..Len(c.atoms)
  PROVE  /\ MixedContent(DetachAtom(c, k))
         /\ AtomsOf(DetachAtom(c, k)) = AtomsOf(c) \ {c.atoms[k].atom}
<1> DEFINE n == Len(c.atoms)
           atoms == RemoveAt(c.atoms, k)
<1>1. c.atoms \in Seq(Placements) /\ n \in Nat /\ k \in 1..n
  BY Laid DEF MixedContent
<1>2. DetachAtom(c, k) = Inline(c.text, atoms)
  <2>1. DetachAtom(c, k) = [c EXCEPT !.atoms = atoms]
    BY DEF DetachAtom
  <2>2. c = Inline(c.text, c.atoms)
    BY DEF MixedContent
  <2> HIDE DEF atoms
  <2>3. QED BY <2>1, <2>2 DEF Inline
<1>3. /\ atoms \in Seq(Placements) /\ Len(atoms) = n - 1
      /\ \A i \in 1..(n - 1) : atoms[i] = IF i < k THEN c.atoms[i] ELSE c.atoms[i + 1]
  BY <1>1, Removed
<1>4. \A i \in 1..n : c.atoms[i].offset \in 0..Len(c.text)
  BY Laid
<1>5. \A i, j \in 1..n : i < j =>
        c.atoms[i].offset <= c.atoms[j].offset /\ c.atoms[i].atom # c.atoms[j].atom
  BY Laid
<1>6. \A a : a \in AtomsOf(c) <=> \E i \in 1..n : c.atoms[i].atom = a
  BY Laid
<1> HIDE DEF atoms, n
<1> DEFINE was == [i \in 1..(n - 1) |-> IF i < k THEN i ELSE i + 1]
<1>7. \A i \in 1..(n - 1) : /\ was[i] \in 1..n /\ was[i] # k
                            /\ atoms[i] = c.atoms[was[i]]
  <2>1. TAKE i \in 1..(n - 1)
  <2>2. CASE i < k
    BY <1>1, <1>3, <2>2
  <2>3. CASE ~(i < k)
    BY <1>1, <1>3, <2>3
  <2>4. QED BY <2>2, <2>3
<1>8. \A i, j \in 1..(n - 1) : i < j => was[i] < was[j]
  BY <1>1
<1>9. \A i \in 1..n : i # k => \E j \in 1..(n - 1) : was[j] = i
  <2>1. SUFFICES ASSUME NEW i \in 1..n, i # k PROVE \E j \in 1..(n - 1) : was[j] = i
    OBVIOUS
  <2>2. CASE i < k
    <3>1. i \in 1..(n - 1) /\ was[i] = i
      BY <1>1, <2>2
    <3> HIDE DEF was
    <3>2. QED BY <3>1
  <2>3. CASE i > k
    <3>1. i - 1 \in 1..(n - 1) /\ was[i - 1] = i
      BY <1>1, <2>3
    <3> HIDE DEF was
    <3>2. QED BY <3>1
  <2>4. QED BY <1>1, <2>1, <2>2, <2>3
<1> HIDE DEF was
<1>10. \A i \in 1..Len(atoms) : atoms[i].offset \in 0..Len(c.text)
  BY <1>3, <1>4, <1>7
<1>11. \A i, j \in 1..Len(atoms) : i < j =>
        atoms[i].offset <= atoms[j].offset /\ atoms[i].atom # atoms[j].atom
  <2>1. SUFFICES ASSUME NEW i \in 1..(n - 1), NEW j \in 1..(n - 1), i < j
                 PROVE  atoms[i].offset <= atoms[j].offset /\ atoms[i].atom # atoms[j].atom
    BY <1>3
  <2>2. was[i] \in 1..n /\ was[j] \in 1..n /\ was[i] < was[j]
    BY <1>7, <1>8, <2>1
  <2>3. atoms[i] = c.atoms[was[i]] /\ atoms[j] = c.atoms[was[j]]
    BY <1>7
  <2>4. QED BY <1>5, <2>2, <2>3
<1>12. MixedContent(Inline(c.text, atoms))
  BY <1>3, <1>10, <1>11, Made DEF MixedContent
<1>13. AtomsOf(Inline(c.text, atoms)) = {atoms[i].atom : i \in 1..(n - 1)}
  BY <1>3, AtomsListed
<1>14. \A a : a \in {atoms[i].atom : i \in 1..(n - 1)} <=> a \in AtomsOf(c) \ {c.atoms[k].atom}
  <2>1. \A i \in 1..n : i # k => c.atoms[i].atom # c.atoms[k].atom
    <3>1. \A i \in 1..n : i # k => i < k \/ k < i
      BY <1>1
    <3>2. QED BY <1>1, <1>5, <3>1
  <2>2. ASSUME NEW i \in 1..(n - 1) PROVE atoms[i].atom \in AtomsOf(c) \ {c.atoms[k].atom}
    BY <1>6, <1>7, <2>1
  <2>3. ASSUME NEW i \in 1..n, i # k
        PROVE  \E j \in 1..(n - 1) : atoms[j].atom = c.atoms[i].atom
    BY <1>7, <1>9, <2>3
  <2>4. QED BY <1>6, <2>2, <2>3
<1>15. QED BY <1>2, <1>12, <1>13, <1>14

\* Offsets moved by the length of what goes before them, and back.
LEMMA Forth ==
  ASSUME NEW size \in Nat, NEW more \in Nat, NEW x \in 0..more, NEW y \in 0..more
  PROVE  /\ x + size \in Nat /\ x + size \in 0..(size + more) /\ x + size >= size
         /\ x <= y => x + size <= y + size
OBVIOUS

\* Offsets behind a cut, counted from the cut.
LEMMA FromCut ==
  ASSUME NEW size \in Nat, NEW offset \in 0..size, NEW x \in offset..size, NEW y \in offset..size
  PROVE  /\ x + (-offset) \in Nat /\ x + (-offset) = x - offset
         /\ x - offset \in 0..(size - offset)
         /\ x <= y => x - offset <= y - offset
OBVIOUS

\* Offsets of two texts joined.
LEMMA Within ==
  ASSUME NEW size \in Nat, NEW more \in Nat, NEW x \in 0..size, NEW y \in 0..more
  PROVE  x \in 0..(size + more) /\ x <= y + size
OBVIOUS

\* Placements moved together.
LEMMA ShiftedAre ==
  ASSUME NEW atoms \in Seq(Placements), NEW delta \in Int,
         \A i \in 1..Len(atoms) : atoms[i].offset + delta \in Nat
  PROVE  /\ Shifted(atoms, delta) \in Seq(Placements)
         /\ Len(Shifted(atoms, delta)) = Len(atoms)
         /\ \A i \in 1..Len(atoms) : /\ Shifted(atoms, delta)[i].atom = atoms[i].atom
                                     /\ Shifted(atoms, delta)[i].offset = atoms[i].offset + delta
<1> DEFINE new == [i \in DOMAIN atoms |-> [atoms[i] EXCEPT !.offset = @ + delta]]
<1>1. /\ Len(atoms) \in Nat /\ DOMAIN atoms = 1..Len(atoms)
      /\ \A i \in 1..Len(atoms) : atoms[i] \in Placements
  OBVIOUS
<1>2. \A i \in 1..Len(atoms) : new[i] = [atoms[i] EXCEPT !.offset = atoms[i].offset + delta]
  BY <1>1
<1>3. DOMAIN new = 1..Len(atoms) /\ new = [i \in 1..Len(atoms) |-> new[i]]
  BY <1>1
<1>4. Shifted(atoms, delta) = new
  BY DEF Shifted
<1> HIDE DEF new
<1>5. \A i \in 1..Len(atoms) : /\ new[i] \in Placements
                               /\ new[i].atom = atoms[i].atom
                               /\ new[i].offset = atoms[i].offset + delta
  <2>1. TAKE i \in 1..Len(atoms)
  <2> DEFINE p == atoms[i]
             to == atoms[i].offset + delta
  <2>2. p \in Placements /\ to \in Nat
    BY <1>1
  <2>3. new[i] = [p EXCEPT !.offset = to]
    BY <1>2
  <2> HIDE DEF p, to
  <2>4. new[i] \in Placements /\ new[i].atom = p.atom /\ new[i].offset = to
    BY <2>2, <2>3, Moved
  <2>5. QED BY <2>4 DEF p, to
<1>6. new \in Seq(Placements) /\ Len(new) = Len(atoms)
  BY <1>1, <1>3, <1>5
<1>7. QED BY <1>4, <1>5, <1>6

\* What is cut at a gap: head and tail share the atoms.
LEMMA CutKeeps ==
  ASSUME NEW c, MixedContent(c), NEW offset, NEW index, ValidGap(c, offset, index)
  PROVE  LET head == HeadOf(c, offset, index)
             tail == TailOf(c, offset, index)
         IN /\ MixedContent(head) /\ MixedContent(tail)
            /\ AtomsOf(head) \cup AtomsOf(tail) = AtomsOf(c)
            /\ AtomsOf(head) \cap AtomsOf(tail) = {}
<1> DEFINE k == AtomsBefore(c, offset, index)
           n == Len(c.atoms)
           size == Len(c.text)
           left == SubSeq(c.atoms, 1, k)
           right == SubSeq(c.atoms, k + 1, n)
           moved == Shifted(right, -offset)
           first == SubSeq(c.text, 1, offset)
           second == SubSeq(c.text, offset + 1, size)
<1>1. /\ HeadOf(c, offset, index) = Inline(first, left)
      /\ TailOf(c, offset, index) = Inline(second, moved)
  BY DEF HeadOf, TailOf
<1>2. /\ offset \in 0..size /\ k \in 0..n /\ n \in Nat /\ size \in Nat
      /\ c.atoms \in Seq(Placements) /\ c.text \in Seq(MarkedLetters)
  BY CutPoint, Laid DEF MixedContent
<1>3. \A i \in 1..n : /\ i <= k => c.atoms[i].offset <= offset
                      /\ i > k => c.atoms[i].offset >= offset
                      /\ c.atoms[i].offset \in 0..size
  BY CutPoint, Laid
<1>4. \A i, j \in 1..n : i < j =>
        c.atoms[i].offset <= c.atoms[j].offset /\ c.atoms[i].atom # c.atoms[j].atom
  BY Laid
<1>5. \A a : a \in AtomsOf(c) <=> \E i \in 1..n : c.atoms[i].atom = a
  BY Laid
<1>6. first \in Seq(MarkedLetters) /\ Len(first) = offset
  <2> DEFINE s == c.text
  <2>1. s \in Seq(MarkedLetters) /\ 1 \in 1..(Len(s) + 1) /\ offset \in (1 - 1)..Len(s)
    BY <1>2
  <2> HIDE DEF s
  <2>2. SubSeq(s, 1, offset) \in Seq(MarkedLetters) /\ Len(SubSeq(s, 1, offset)) = offset - 1 + 1
    BY <2>1, Slice
  <2>3. offset - 1 + 1 = offset
    BY <1>2
  <2>4. QED BY <2>2, <2>3 DEF s
<1>7. second \in Seq(MarkedLetters) /\ Len(second) = size - offset
  <2> DEFINE s == c.text
             from == offset + 1
  <2>1. s \in Seq(MarkedLetters) /\ from \in 1..(Len(s) + 1) /\ Len(s) \in (from - 1)..Len(s)
    BY <1>2
  <2>2. Len(s) - from + 1 = size - offset
    BY <1>2
  <2> HIDE DEF s, from
  <2>3. SubSeq(s, from, Len(s)) \in Seq(MarkedLetters) /\ Len(SubSeq(s, from, Len(s))) = Len(s) - from + 1
    BY <2>1, Slice
  <2>4. QED BY <2>2, <2>3 DEF s, from
<1>8. /\ left \in Seq(Placements) /\ Len(left) = k
      /\ \A i \in 1..k : left[i] = c.atoms[i]
  <2> DEFINE s == c.atoms
  <2>1. s \in Seq(Placements) /\ 1 \in 1..(Len(s) + 1) /\ k \in (1 - 1)..Len(s)
    BY <1>2
  <2>2. k - 1 + 1 = k /\ \A i \in 1..k : 1 + i - 1 = i
    BY <1>2
  <2> HIDE DEF s, k
  <2>3. /\ SubSeq(s, 1, k) \in Seq(Placements) /\ Len(SubSeq(s, 1, k)) = k - 1 + 1
        /\ \A i \in 1..(k - 1 + 1) : SubSeq(s, 1, k)[i] = s[1 + i - 1]
    BY <2>1, Slice
  <2>4. /\ SubSeq(s, 1, k) \in Seq(Placements) /\ Len(SubSeq(s, 1, k)) = k
        /\ \A i \in 1..k : SubSeq(s, 1, k)[i] = s[i]
    BY <2>2, <2>3
  <2>5. QED BY <2>4 DEF s
<1>9. /\ right \in Seq(Placements) /\ Len(right) = n - k
      /\ \A i \in 1..(n - k) : right[i] = c.atoms[k + i]
  <2> DEFINE s == c.atoms
             from == k + 1
  <2>1. s \in Seq(Placements) /\ from \in 1..(Len(s) + 1) /\ Len(s) \in (from - 1)..Len(s)
    BY <1>2
  <2>2. Len(s) - from + 1 = n - k /\ \A i \in 1..(n - k) : from + i - 1 = k + i
    BY <1>2
  <2> HIDE DEF s, from, k
  <2>3. /\ SubSeq(s, from, Len(s)) \in Seq(Placements)
        /\ Len(SubSeq(s, from, Len(s))) = Len(s) - from + 1
        /\ \A i \in 1..(Len(s) - from + 1) : SubSeq(s, from, Len(s))[i] = s[from + i - 1]
    BY <2>1, Slice
  <2>4. /\ SubSeq(s, from, Len(s)) \in Seq(Placements)
        /\ Len(SubSeq(s, from, Len(s))) = n - k
        /\ \A i \in 1..(n - k) : SubSeq(s, from, Len(s))[i] = s[k + i]
    BY <2>2, <2>3
  <2>5. QED BY <2>4 DEF s, from
<1> HIDE DEF left, right, first, second
<1>10. \A i \in 1..(n - k) : /\ k + i \in 1..n /\ k + i > k
                             /\ c.atoms[k + i].offset \in offset..size
  <2>1. TAKE i \in 1..(n - k)
  <2>2. k + i \in 1..n /\ k + i > k
    BY <1>2
  <2>3. c.atoms[k + i].offset >= offset /\ c.atoms[k + i].offset \in 0..size
    BY <1>3, <2>2
  <2>4. c.atoms[k + i].offset \in offset..size
    BY <1>2, <2>3
  <2>5. QED BY <2>2, <2>4
<1>11. /\ moved \in Seq(Placements) /\ Len(moved) = n - k
       /\ \A i \in 1..(n - k) : /\ moved[i].atom = c.atoms[k + i].atom
                                /\ moved[i].offset = c.atoms[k + i].offset - offset
  <2>1. -offset \in Int
    BY <1>2
  <2>2. \A i \in 1..Len(right) : right[i].offset + (-offset) \in Nat
    <3>1. ASSUME NEW i \in 1..(n - k) PROVE c.atoms[k + i].offset + (-offset) \in Nat
      BY <1>2, <1>10, FromCut
    <3> HIDE DEF n, k
    <3>2. QED BY <1>9, <3>1
  <2>3. /\ moved \in Seq(Placements) /\ Len(moved) = Len(right)
        /\ \A i \in 1..Len(right) : /\ moved[i].atom = right[i].atom
                                    /\ moved[i].offset = right[i].offset + (-offset)
    BY <1>9, <2>1, <2>2, ShiftedAre
  <2>4. \A i \in 1..(n - k) : c.atoms[k + i].offset + (-offset) = c.atoms[k + i].offset - offset
    BY <1>2, <1>10
  <2> HIDE DEF moved
  <2>5. QED BY <1>9, <2>3, <2>4
<1> HIDE DEF moved, n, k, size
<1>12. MixedContent(Inline(first, left))
  <2>1. \A i \in 1..Len(left) : left[i].offset \in 0..Len(first)
    <3>1. SUFFICES ASSUME NEW i \in 1..k PROVE left[i].offset \in 0..offset
      BY <1>6, <1>8
    <3>2. i \in 1..n /\ i <= k
      BY <1>2
    <3>3. c.atoms[i].offset <= offset /\ c.atoms[i].offset \in 0..size
      BY <1>3, <3>2
    <3>4. QED BY <1>2, <1>8, <3>3
  <2>2. \A i, j \in 1..Len(left) : i < j =>
          left[i].offset <= left[j].offset /\ left[i].atom # left[j].atom
    <3>1. SUFFICES ASSUME NEW i \in 1..k, NEW j \in 1..k, i < j
                   PROVE  left[i].offset <= left[j].offset /\ left[i].atom # left[j].atom
      BY <1>8
    <3>2. i \in 1..n /\ j \in 1..n
      BY <1>2
    <3>3. QED BY <1>4, <1>8, <3>1, <3>2
  <2>3. QED BY <1>6, <1>8, <2>1, <2>2, Made
<1>13. MixedContent(Inline(second, moved))
  <2>1. \A i \in 1..Len(moved) : moved[i].offset \in 0..Len(second)
    <3>1. ASSUME NEW i \in 1..(n - k) PROVE c.atoms[k + i].offset - offset \in 0..(size - offset)
      BY <1>2, <1>10, FromCut
    <3>2. QED BY <1>7, <1>11, <3>1
  <2>2. \A i, j \in 1..Len(moved) : i < j =>
          moved[i].offset <= moved[j].offset /\ moved[i].atom # moved[j].atom
    <3>1. SUFFICES ASSUME NEW i \in 1..(n - k), NEW j \in 1..(n - k), i < j
                   PROVE  moved[i].offset <= moved[j].offset /\ moved[i].atom # moved[j].atom
      BY <1>11
    <3>2. k + i \in 1..n /\ k + j \in 1..n /\ k + i < k + j
      BY <1>2, <3>1
    <3>3. /\ c.atoms[k + i].offset <= c.atoms[k + j].offset
          /\ c.atoms[k + i].atom # c.atoms[k + j].atom
      BY <1>4, <3>2
    <3>4. c.atoms[k + i].offset \in offset..size /\ c.atoms[k + j].offset \in offset..size
      BY <1>10
    <3>5. c.atoms[k + i].offset - offset <= c.atoms[k + j].offset - offset
      BY <1>2, <3>3, <3>4, FromCut
    <3>6. QED BY <1>11, <3>3, <3>5
  <2>3. QED BY <1>7, <1>11, <2>1, <2>2, Made
<1>14. /\ AtomsOf(Inline(first, left)) = {left[i].atom : i \in 1..k}
       /\ AtomsOf(Inline(second, moved)) = {moved[i].atom : i \in 1..(n - k)}
  BY <1>8, <1>11, AtomsListed
<1>15. \A i \in 1..n : \/ i \in 1..k
                       \/ i - k \in 1..(n - k) /\ k + (i - k) = i
  BY <1>2
<1>16. {left[i].atom : i \in 1..k} \cup {moved[i].atom : i \in 1..(n - k)} = AtomsOf(c)
  <2>1. ASSUME NEW i \in 1..k PROVE left[i].atom \in AtomsOf(c)
    BY <1>2, <1>5, <1>8
  <2>2. ASSUME NEW i \in 1..(n - k) PROVE moved[i].atom \in AtomsOf(c)
    BY <1>5, <1>10, <1>11
  <2>3. ASSUME NEW i \in 1..n
        PROVE  c.atoms[i].atom
                 \in {left[x].atom : x \in 1..k} \cup {moved[x].atom : x \in 1..(n - k)}
    <3>1. CASE i \in 1..k
      BY <1>8, <3>1
    <3>2. CASE i - k \in 1..(n - k) /\ k + (i - k) = i
      <4>1. moved[i - k].atom = c.atoms[k + (i - k)].atom
        BY <1>11, <3>2
      <4>2. QED BY <3>2, <4>1
    <3>3. QED BY <1>15, <3>1, <3>2
  <2>4. QED BY <1>5, <2>1, <2>2, <2>3
<1>17. {left[i].atom : i \in 1..k} \cap {moved[i].atom : i \in 1..(n - k)} = {}
  <2>1. ASSUME NEW i \in 1..k, NEW j \in 1..(n - k) PROVE left[i].atom # moved[j].atom
    <3>1. i \in 1..n /\ k + j \in 1..n /\ i < k + j
      BY <1>2
    <3>2. c.atoms[i].atom # c.atoms[k + j].atom
      BY <1>4, <3>1
    <3>3. QED BY <1>8, <1>11, <3>2
  <2>2. QED BY <2>1
<1>18. QED BY <1>1, <1>12, <1>13, <1>14, <1>16, <1>17

\* Two contents without a common atom, joined.
LEMMA JoinKeeps ==
  ASSUME NEW a, MixedContent(a), NEW b, MixedContent(b), AtomsOf(a) \cap AtomsOf(b) = {}
  PROVE  /\ MixedContent(Joined(a, b))
         /\ AtomsOf(Joined(a, b)) = AtomsOf(a) \cup AtomsOf(b)
<1> DEFINE n == Len(a.atoms)
           m == Len(b.atoms)
           size == Len(a.text)
           more == Len(b.text)
           moved == Shifted(b.atoms, size)
           text == a.text \o b.text
           atoms == a.atoms \o moved
<1>1. Joined(a, b) = Inline(text, atoms)
  BY DEF Joined
<1>2. /\ n \in Nat /\ m \in Nat /\ size \in Nat /\ more \in Nat
      /\ a.atoms \in Seq(Placements) /\ b.atoms \in Seq(Placements)
      /\ a.text \in Seq(MarkedLetters) /\ b.text \in Seq(MarkedLetters)
  BY Laid DEF MixedContent
<1>3. /\ \A i \in 1..n : a.atoms[i].offset \in 0..size
      /\ \A i \in 1..m : b.atoms[i].offset \in 0..more
  BY Laid
<1>4. /\ \A i, j \in 1..n : i < j =>
           a.atoms[i].offset <= a.atoms[j].offset /\ a.atoms[i].atom # a.atoms[j].atom
      /\ \A i, j \in 1..m : i < j =>
           b.atoms[i].offset <= b.atoms[j].offset /\ b.atoms[i].atom # b.atoms[j].atom
  BY Laid
<1>5. /\ \A x : x \in AtomsOf(a) <=> \E i \in 1..n : a.atoms[i].atom = x
      /\ \A x : x \in AtomsOf(b) <=> \E i \in 1..m : b.atoms[i].atom = x
  BY Laid
<1>6. text \in Seq(MarkedLetters) /\ Len(text) = size + more
  BY <1>2, ConcatProperties
<1>7. /\ moved \in Seq(Placements) /\ Len(moved) = m
      /\ \A i \in 1..m : /\ moved[i].atom = b.atoms[i].atom
                         /\ moved[i].offset = b.atoms[i].offset + size
  <2>1. size \in Int /\ \A i \in 1..m : b.atoms[i].offset + size \in Nat
    BY <1>2, <1>3
  <2>2. QED BY <1>2, <2>1, ShiftedAre
<1> HIDE DEF moved
<1>8. /\ atoms \in Seq(Placements) /\ Len(atoms) = n + m
      /\ \A i \in 1..(n + m) : atoms[i] = IF i <= n THEN a.atoms[i] ELSE moved[i - n]
  <2> DEFINE x == a.atoms
  <2>1. x \in Seq(Placements) /\ moved \in Seq(Placements) /\ Len(x) = n /\ Len(moved) = m
    BY <1>2, <1>7
  <2> HIDE DEF x, n, m
  <2>2. /\ x \o moved \in Seq(Placements) /\ Len(x \o moved) = Len(x) + Len(moved)
        /\ \A i \in 1..(Len(x) + Len(moved)) :
             (x \o moved)[i] = IF i <= Len(x) THEN x[i] ELSE moved[i - Len(x)]
    BY <2>1, ConcatProperties
  <2>3. /\ x \o moved \in Seq(Placements) /\ Len(x \o moved) = n + m
        /\ \A i \in 1..(n + m) : (x \o moved)[i] = IF i <= n THEN x[i] ELSE moved[i - n]
    BY <2>1, <2>2
  <2>4. QED BY <2>3 DEF x
<1> HIDE DEF text, atoms, n, m, size, more
<1>9. ASSUME NEW i \in 1..(n + m)
      PROVE  \/ i \in 1..n /\ atoms[i] = a.atoms[i]
             \/ i > n /\ i - n \in 1..m /\ atoms[i].atom = b.atoms[i - n].atom
                /\ atoms[i].offset = b.atoms[i - n].offset + size
  <2>1. CASE i <= n
    BY <1>2, <1>8, <2>1
  <2>2. CASE i > n
    <3>1. i - n \in 1..m /\ ~(i <= n)
      BY <1>2, <2>2
    <3>2. atoms[i] = moved[i - n]
      BY <1>8, <3>1
    <3>3. QED BY <1>7, <2>2, <3>1, <3>2
  <2>3. QED BY <1>2, <2>1, <2>2
<1>10. \A i \in 1..Len(atoms) : atoms[i].offset \in 0..Len(text)
  <2>1. SUFFICES ASSUME NEW i \in 1..(n + m) PROVE atoms[i].offset \in 0..(size + more)
    BY <1>6, <1>8
  <2>2. CASE i \in 1..n /\ atoms[i] = a.atoms[i]
    <3>1. a.atoms[i].offset \in 0..size
      BY <1>3, <2>2
    <3>2. 0 \in 0..more
      BY <1>2
    <3>3. QED BY <1>2, <2>2, <3>1, <3>2, Within
  <2>3. CASE i - n \in 1..m /\ atoms[i].offset = b.atoms[i - n].offset + size
    <3>1. b.atoms[i - n].offset \in 0..more
      BY <1>3, <2>3
    <3>2. QED BY <1>2, <2>3, <3>1, Forth
  <2>4. QED BY <1>9, <2>2, <2>3
<1>11. \A i, j \in 1..Len(atoms) : i < j =>
         atoms[i].offset <= atoms[j].offset /\ atoms[i].atom # atoms[j].atom
  <2>1. SUFFICES ASSUME NEW i \in 1..(n + m), NEW j \in 1..(n + m), i < j
                 PROVE  atoms[i].offset <= atoms[j].offset /\ atoms[i].atom # atoms[j].atom
    BY <1>8
  <2>2. CASE j \in 1..n /\ atoms[j] = a.atoms[j]
    <3>1. i \in 1..n /\ atoms[i] = a.atoms[i]
      BY <1>2, <1>9, <2>1, <2>2
    <3>2. QED BY <1>4, <2>1, <2>2, <3>1
  <2>3. CASE /\ j > n /\ j - n \in 1..m /\ atoms[j].atom = b.atoms[j - n].atom
             /\ atoms[j].offset = b.atoms[j - n].offset + size
    <3>1. b.atoms[j - n].offset \in 0..more /\ b.atoms[j - n].atom \in AtomsOf(b)
      BY <1>3, <1>5, <2>3
    <3>2. CASE i \in 1..n /\ atoms[i] = a.atoms[i]
      <4>1. a.atoms[i].offset \in 0..size /\ a.atoms[i].atom \in AtomsOf(a)
        BY <1>3, <1>5, <3>2
      <4> DEFINE x == a.atoms[i].offset
                 y == b.atoms[j - n].offset
      <4>2. a.atoms[i].offset <= b.atoms[j - n].offset + size
        <5>1. x \in 0..size /\ y \in 0..more
          BY <3>1, <4>1
        <5> HIDE DEF x, y
        <5>2. x \in 0..(size + more) /\ x <= y + size
          BY <1>2, <5>1, Within
        <5>3. QED BY <5>2 DEF x, y
      <4>3. a.atoms[i].atom # b.atoms[j - n].atom
        BY <3>1, <4>1
      <4>4. QED BY <2>3, <3>2, <4>2, <4>3
    <3>3. CASE /\ i - n \in 1..m /\ atoms[i].atom = b.atoms[i - n].atom
               /\ atoms[i].offset = b.atoms[i - n].offset + size
      <4>1. i - n < j - n
        BY <1>2, <2>1
      <4>2. /\ b.atoms[i - n].offset <= b.atoms[j - n].offset
            /\ b.atoms[i - n].atom # b.atoms[j - n].atom
            /\ b.atoms[i - n].offset \in 0..more
        BY <1>3, <1>4, <2>3, <3>3, <4>1
      <4>3. b.atoms[i - n].offset + size <= b.atoms[j - n].offset + size
        BY <1>2, <3>1, <4>2, Forth
      <4>4. QED BY <2>3, <3>3, <4>2, <4>3
    <3>4. QED BY <1>9, <3>2, <3>3
  <2>4. QED BY <1>9, <2>2, <2>3
<1>12. MixedContent(Inline(text, atoms))
  BY <1>6, <1>8, <1>10, <1>11, Made
<1>13. AtomsOf(Inline(text, atoms)) = {atoms[i].atom : i \in 1..(n + m)}
  BY <1>8, AtomsListed
<1>14. \A x : x \in {atoms[i].atom : i \in 1..(n + m)} <=> x \in AtomsOf(a) \cup AtomsOf(b)
  <2>1. ASSUME NEW i \in 1..(n + m) PROVE atoms[i].atom \in AtomsOf(a) \cup AtomsOf(b)
    BY <1>5, <1>9
  <2>2. ASSUME NEW i \in 1..n PROVE \E j \in 1..(n + m) : atoms[j].atom = a.atoms[i].atom
    <3>1. i \in 1..(n + m) /\ i <= n
      BY <1>2
    <3>2. QED BY <1>8, <3>1
  <2>3. ASSUME NEW i \in 1..m PROVE \E j \in 1..(n + m) : atoms[j].atom = b.atoms[i].atom
    <3>1. n + i \in 1..(n + m) /\ ~(n + i <= n) /\ (n + i) - n = i
      BY <1>2
    <3>2. QED BY <1>7, <1>8, <3>1
  <2>4. QED BY <1>5, <2>1, <2>2, <2>3
<1>15. QED BY <1>1, <1>12, <1>13, <1>14
-----------------------------------------------------------------------------
(* The marks a gap hands on.                                               *)

\* Numbers between bounds have a least and a greatest.
LEMMA Extremes ==
  ASSUME NEW n \in Nat, NEW S, S \subseteq 0..n, S # {}
  PROVE  Min(S) \in S /\ Max(S) \in S
<1>1. ASSUME NEW T, T \subseteq Nat, T # {}
      PROVE  \E x \in T : \A y \in T : x <= y
  <2> SUFFICES ASSUME ~ \E x \in T : \A y \in T : x <= y PROVE FALSE
    OBVIOUS
  <2> DEFINE U == {k \in Nat : \A m \in 0..k : m \notin T}
  <2>1. 0 \in U
    <3>1. \A y \in T : 0 <= y
      BY <1>1
    <3>2. 0 \notin T
      BY <3>1
    <3>3. QED BY <3>2
  <2>2. ASSUME NEW k \in Nat, k \in U PROVE k + 1 \in U
    <3>1. \A y \in T : y \in Nat /\ y \notin 0..k
      BY <1>1, <2>2
    <3>2. \A y \in T : k + 1 <= y
      BY <3>1
    <3>3. k + 1 \notin T
      BY <3>2
    <3>4. \A m \in 0..(k + 1) : m \in 0..k \/ m = k + 1
      OBVIOUS
    <3>5. QED BY <2>2, <3>3, <3>4
  <2> HIDE DEF U
  <2>3. Nat \subseteq U
    BY <2>1, <2>2, InductionOverNat
  <2>4. PICK x : x \in T /\ x \in Nat
    BY <1>1
  <2>5. QED BY <2>3, <2>4 DEF U
<1>0. S \subseteq Nat /\ \A y \in S : n - y \in Nat
  OBVIOUS
<1>2. \E x \in S : \A y \in S : x <= y
  BY <1>0, <1>1
<1>3. \E x \in S : \A y \in S : x >= y
  <2> DEFINE T == {n - y : y \in S}
  <2>1. T \subseteq Nat /\ T # {}
    <3>1. PICK y : y \in S
      OBVIOUS
    <3>2. n - y \in T
      BY <3>1
    <3>3. QED BY <1>0, <3>2
  <2>2. PICK z \in T : \A y \in T : z <= y
    BY <1>1, <2>1
  <2>3. PICK x \in S : z = n - x
    BY <2>2
  <2>4. \A y \in S : n - x <= n - y
    BY <2>2, <2>3
  <2>5. \A y \in S : x >= y
    BY <2>4
  <2>6. QED BY <2>5
<1>4. QED BY <1>2, <1>3 DEF Min, Max

\* Atoms of content that carry known marks, and its letters, hand on known
\* marks.
LEMMA GapMarksAre ==
  ASSUME NEW store, NEW c, MixedContent(c), NEW offset, NEW index, ValidGap(c, offset, index),
         \A i \in 1..Len(c.atoms) : store[c.atoms[i].atom].content.marks \subseteq Marks
  PROVE  GapMarks(store, c, offset, index) \subseteq Marks
<1> DEFINE n == Len(c.atoms)
           front == AtomsBefore(c, offset, 0)
           count == AtomCountAt(c, offset)
           first == front + 1
           last == first + count - 1
           carrying(from, to) == {i \in from..to : Carries(store, c.atoms[i])}
           left == carrying(first, first + index - 1)
           right == carrying(first + index, last)
           marksOf(i) == store[c.atoms[i].atom].content.marks
<1>1. count \in Nat /\ index \in 0..count /\ offset \in 0..Len(c.text) /\ n \in Nat
  <2>1. index \in 0..count
    BY DEF ValidGap
  <2>2. IsFiniteSet({i \in 1..n : c.atoms[i].offset = offset})
    <3>1. n \in Nat /\ IsFiniteSet(1..n)
      BY Laid, FS_Interval
    <3>2. {i \in 1..n : c.atoms[i].offset = offset} \subseteq 1..n
      OBVIOUS
    <3>3. QED BY <3>1, <3>2, FS_Subset
  <2>3. count \in Nat
    BY <2>2, Laid, FS_CardinalityType DEF AtomCountAt
  <2>4. QED BY <2>1, <2>3, Laid DEF ValidGap, ValidOffset
<1>2. front \in 0..n /\ front + count \in 0..n
  <2>1. ValidGap(c, offset, 0) /\ ValidGap(c, offset, count)
    BY <1>1 DEF ValidGap
  <2>2. AtomsBefore(c, offset, 0) \in 0..n /\ AtomsBefore(c, offset, count) \in 0..n
    BY <2>1, CutPoint
  <2>3. AtomsBefore(c, offset, count) = front + count
    <3> DEFINE x == Cardinality({i \in DOMAIN c.atoms : c.atoms[i].offset < offset})
    <3>1. AtomsBefore(c, offset, 0) = x + 0 /\ AtomsBefore(c, offset, count) = x + count
      BY DEF AtomsBefore
    <3>2. x \in Int
      <4>1. n \in Nat /\ IsFiniteSet(1..n) /\ DOMAIN c.atoms = 1..n
        BY Laid, FS_Interval
      <4>2. {i \in 1..n : c.atoms[i].offset < offset} \subseteq 1..n
        OBVIOUS
      <4>3. IsFiniteSet({i \in 1..n : c.atoms[i].offset < offset})
        BY <4>1, <4>2, FS_Subset
      <4>4. QED BY <4>1, <4>3, FS_CardinalityType
    <3> HIDE DEF x, count
    <3>3. QED BY <1>1, <3>1, <3>2
  <2>4. QED BY <2>2, <2>3
<1> HIDE DEF n, front, count
<1>3. left \subseteq 1..n /\ right \subseteq 1..n
  BY <1>1, <1>2
<1>4. GapMarks(store, c, offset, index) =
        CASE left # {} -> marksOf(Max(left))
          [] left = {} /\ offset > 0 -> c.text[offset].marks
          [] left = {} /\ offset = 0 /\ right # {} -> marksOf(Min(right))
          [] left = {} /\ offset = 0 /\ right = {} /\ c.text # <<>> -> c.text[1].marks
          [] OTHER -> {}
  BY DEF GapMarks, front, count
<1> HIDE DEF left, right
<1>5. \A i \in 1..n : marksOf(i) \subseteq Marks
  BY DEF n
<1>6. left # {} => Max(left) \in 1..n
  <2>1. left \subseteq 0..n
    BY <1>1, <1>3
  <2>2. QED BY <1>1, <1>3, <2>1, Extremes
<1>7. right # {} => Min(right) \in 1..n
  <2>1. right \subseteq 0..n
    BY <1>1, <1>3
  <2>2. QED BY <1>1, <1>3, <2>1, Extremes
<1>8. \A i \in 1..Len(c.text) : c.text[i].marks \subseteq Marks
  <2>1. ASSUME NEW i \in 1..Len(c.text) PROVE c.text[i].marks \subseteq Marks
    <3>1. c.text[i] \in MarkedLetters
      BY Laid
    <3>2. QED BY <3>1 DEF MarkedLetters
  <2>2. QED BY <2>1
<1>9. offset > 0 => offset \in 1..Len(c.text)
  BY <1>1, Laid
<1>10. c.text # <<>> => 1 \in 1..Len(c.text)
  BY Laid, EmptySeq DEF MixedContent
<1> HIDE DEF marksOf
<1>11. CASE left # {}
  BY <1>4, <1>5, <1>6, <1>11
<1>12. CASE left = {} /\ offset > 0
  BY <1>4, <1>8, <1>9, <1>12
<1>13. CASE left = {} /\ ~(offset > 0) /\ offset = 0 /\ right # {}
  BY <1>4, <1>5, <1>7, <1>13
<1>14. CASE left = {} /\ ~(offset > 0) /\ offset = 0 /\ right = {} /\ c.text # <<>>
  BY <1>4, <1>8, <1>10, <1>14
<1>15. CASE left = {} /\ ~(offset > 0) /\ offset = 0 /\ right = {} /\ c.text = <<>>
  BY <1>4, <1>15
<1>16. offset > 0 \/ offset = 0
  BY <1>1
<1>17. QED BY <1>11, <1>12, <1>13, <1>14, <1>15, <1>16

-----------------------------------------------------------------------------
(* The edits together.                                                     *)

\* Whatever edit the code accepts, inline content stays normalized (atoms in
\* offset order, inside the text, each once; letters with marks of the
\* schema) and holds exactly the atoms it should: the same ones when text or
\* marks change, one more or one less when an atom comes or goes, shared out
\* by a cut and put together by a join (transaction/inline.rs,
\* transaction/inline_atom.rs, apply/atom.rs, apply/structure.rs).
THEOREM InlineEditsKeepContent ==
  ASSUME NEW c, MixedContent(c)
  PROVE  /\ \A start, end : \A letters \in Seq(TextLetters) :
              ReplacesText(c, start, end) =>
                /\ MixedContent(ReplaceText(c, start, end, letters))
                /\ AtomsOf(ReplaceText(c, start, end, letters)) = AtomsOf(c)
         /\ \A offset, index, end : \A letters \in Seq(TextLetters), marks \in SUBSET Marks :
              ReplacesInlineText(c, offset, index, end) =>
                /\ MixedContent(ReplaceInlineText(c, offset, index, end, letters, marks))
                /\ AtomsOf(ReplaceInlineText(c, offset, index, end, letters, marks)) = AtomsOf(c)
         /\ \A start, end, kind : \A mark \in Marks :
              /\ MixedContent(AddMark(c, start, end, mark))
              /\ AtomsOf(AddMark(c, start, end, mark)) = AtomsOf(c)
              /\ MixedContent(RemoveMark(c, start, end, kind))
              /\ AtomsOf(RemoveMark(c, start, end, kind)) = AtomsOf(c)
         /\ \A offset, index : \A atom \in Nat \ AtomsOf(c) :
              ValidGap(c, offset, index) =>
                /\ MixedContent(AttachAtom(c, offset, index, atom))
                /\ AtomsOf(AttachAtom(c, offset, index, atom)) = AtomsOf(c) \cup {atom}
         /\ \A k \in 1..Len(c.atoms) :
              /\ MixedContent(DetachAtom(c, k))
              /\ AtomsOf(DetachAtom(c, k)) = AtomsOf(c) \ {c.atoms[k].atom}
         /\ \A offset, index :
              ValidGap(c, offset, index) =>
                /\ MixedContent(HeadOf(c, offset, index))
                /\ MixedContent(TailOf(c, offset, index))
                /\ AtomsOf(HeadOf(c, offset, index)) \cup AtomsOf(TailOf(c, offset, index))
                   = AtomsOf(c)
                /\ AtomsOf(HeadOf(c, offset, index)) \cap AtomsOf(TailOf(c, offset, index)) = {}
         /\ \A other :
              MixedContent(other) /\ AtomsOf(c) \cap AtomsOf(other) = {} =>
                /\ MixedContent(Joined(c, other))
                /\ AtomsOf(Joined(c, other)) = AtomsOf(c) \cup AtomsOf(other)
<1>1. ASSUME NEW start, NEW end, NEW letters \in Seq(TextLetters), ReplacesText(c, start, end)
      PROVE  /\ MixedContent(ReplaceText(c, start, end, letters))
             /\ AtomsOf(ReplaceText(c, start, end, letters)) = AtomsOf(c)
  BY <1>1, ReplaceTextKeeps
<1>2. ASSUME NEW offset, NEW index, NEW end, NEW letters \in Seq(TextLetters),
             NEW marks \in SUBSET Marks, ReplacesInlineText(c, offset, index, end)
      PROVE  /\ MixedContent(ReplaceInlineText(c, offset, index, end, letters, marks))
             /\ AtomsOf(ReplaceInlineText(c, offset, index, end, letters, marks)) = AtomsOf(c)
  BY <1>2, ReplaceInlineTextKeeps
<1>3. ASSUME NEW start, NEW end, NEW kind, NEW mark \in Marks
      PROVE  /\ MixedContent(AddMark(c, start, end, mark))
             /\ AtomsOf(AddMark(c, start, end, mark)) = AtomsOf(c)
             /\ MixedContent(RemoveMark(c, start, end, kind))
             /\ AtomsOf(RemoveMark(c, start, end, kind)) = AtomsOf(c)
  BY MarksChange
<1>4. ASSUME NEW offset, NEW index, NEW atom \in Nat \ AtomsOf(c), ValidGap(c, offset, index)
      PROVE  /\ MixedContent(AttachAtom(c, offset, index, atom))
             /\ AtomsOf(AttachAtom(c, offset, index, atom)) = AtomsOf(c) \cup {atom}
  BY <1>4, AttachKeeps
<1>5. ASSUME NEW k \in 1..Len(c.atoms)
      PROVE  /\ MixedContent(DetachAtom(c, k))
             /\ AtomsOf(DetachAtom(c, k)) = AtomsOf(c) \ {c.atoms[k].atom}
  BY DetachKeeps
<1>6. ASSUME NEW offset, NEW index, ValidGap(c, offset, index)
      PROVE  /\ MixedContent(HeadOf(c, offset, index))
             /\ MixedContent(TailOf(c, offset, index))
             /\ AtomsOf(HeadOf(c, offset, index)) \cup AtomsOf(TailOf(c, offset, index))
                = AtomsOf(c)
             /\ AtomsOf(HeadOf(c, offset, index)) \cap AtomsOf(TailOf(c, offset, index)) = {}
  BY <1>6, CutKeeps
<1>7. ASSUME NEW other, MixedContent(other), AtomsOf(c) \cap AtomsOf(other) = {}
      PROVE  /\ MixedContent(Joined(c, other))
             /\ AtomsOf(Joined(c, other)) = AtomsOf(c) \cup AtomsOf(other)
  BY <1>7, JoinKeeps
<1>8. QED BY <1>1, <1>2, <1>3, <1>4, <1>5, <1>6, <1>7
=============================================================================
