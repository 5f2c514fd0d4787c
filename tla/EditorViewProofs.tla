-------------------------- MODULE EditorViewProofs --------------------------
(***************************************************************************)
(* Native input, proved for any number of panes, any documents and bursts, *)
(* on every platform: one composition at a time, none that the input       *)
(* method has left behind, each composed text entered at most once, and no *)
(* edit of a cell that is not shown.                                       *)
(***************************************************************************)
EXTENDS EditorViews, SequenceTheorems, TLAPS

IsEntity(e) == DOMAIN e = {"view", "part", "node", "live"}
IsComposition(c) ==
  /\ DOMAIN c = {"entity", "lo", "hi", "text", "rejected"}
  /\ c.lo \in Nat /\ c.hi \in Nat /\ c.lo <= c.hi

\* The compositions cs, when h holds the platform's input handler: at most one,
\* of a block or a range input that takes text.
CompsHold(cs, h) ==
  \A c \in cs : /\ IsComposition(c) /\ c.entity = h /\ cs = {c}
                /\ TakesText(h) /\ h.view \notin ReadOnly

\* What the views keep between two events: a composition exists only while the
\* platform's input method composes, and it has the text of the method.
CompsInv ==
  /\ IsEntity(handler)
  /\ DOMAIN ime = {"at", "text", "left"}
  /\ CompsHold(comps, handler)
  /\ ime.at # "composing" => comps = {}
  /\ \A c \in comps : c.text = ime.text
ViewInv == CompsInv /\ IsEntity(focus)

LEMMA KeptEntity ==
  ASSUME NEW e, IsEntity(e), NEW gone
  PROVE  /\ IsEntity(Kept(gone, e))
         /\ Kept(gone, e).part = e.part /\ Kept(gone, e).view = e.view
BY DEF IsEntity, Kept

\* Entities that go die in the composition and in the handler alike.
AllKept(gone, cs) == {[c EXCEPT !.entity = Kept(gone, c.entity)] : c \in cs}
LEMMA KeptComps ==
  ASSUME NEW cs, NEW h, IsEntity(h), CompsHold(cs, h), NEW gone,
         NEW ds, ds = AllKept(gone, cs)
  PROVE  /\ CompsHold(ds, Kept(gone, h))
         /\ cs = {} => ds = {}
         /\ \A d \in ds : \E c \in cs : d.text = c.text
<1> DEFINE kept(c) == [c EXCEPT !.entity = Kept(gone, c.entity)]
<1>1. ASSUME NEW c \in cs
      PROVE  /\ IsComposition(kept(c)) /\ kept(c).entity = Kept(gone, h)
             /\ kept(c).text = c.text
             /\ TakesText(Kept(gone, h)) /\ Kept(gone, h).view \notin ReadOnly
             /\ ds = {kept(c)}
  <2>1. IsComposition(c) /\ c.entity = h /\ cs = {c}
    BY DEF CompsHold
  <2>2. ds = {kept(c)}
    BY <2>1 DEF AllKept
  <2>3. IsComposition(kept(c)) /\ kept(c).entity = Kept(gone, h) /\ kept(c).text = c.text
    BY <2>1 DEF IsComposition
  <2>4. TakesText(Kept(gone, h)) /\ Kept(gone, h).view \notin ReadOnly
    BY KeptEntity DEF CompsHold, TakesText
  <2>5. QED
    BY <2>2, <2>3, <2>4
<1>2. \A d \in ds : \E c \in cs : d = kept(c)
  BY DEF AllKept
<1> HIDE DEF kept
<1>3. QED
  BY <1>1, <1>2 DEF CompsHold

-----------------------------------------------------------------------------
(* Documents and selections, and what an edit may bring into them.         *)

Item == Content \union Preedits
IsDoc(d) ==
  /\ DOMAIN d = {"text", "grid"}
  /\ d.text \in [Blocks(d) -> Seq(Item)]
  /\ d.grid # None => Inner \in Blocks(d)
IsPoint(d, p) == p.node \in Blocks(d) /\ p.off \in Offsets(d, p.node)
IsSel(d, s) ==
  /\ s.kind = "inline" => IsPoint(d, s.anchor) /\ IsPoint(d, s.focus)
  /\ s.kind = "cells" => s = CellRange /\ d.grid # None

Holds(s, x) == \E i \in DOMAIN s : s[i] = x
Once(s, x) == \A i, j \in DOMAIN s : s[i] = x /\ s[j] = x => i = j
Free(d, x) == \A n \in Blocks(d) : ~Holds(d.text[n], x)
Single(d, x) ==
  /\ \A n \in Blocks(d) : Once(d.text[n], x)
  /\ \A n, m \in Blocks(d) : Holds(d.text[n], x) /\ Holds(d.text[m], x) => n = m

\* The text u has nothing of s more than once more than s has it, and t at most
\* once in addition.
Brings(s, u, t) ==
  /\ \A x : Holds(u, x) => Holds(s, x) \/ Holds(t, x)
  /\ \A x : ~Holds(t, x) /\ Once(s, x) => Once(u, x)
  /\ \A x : t = <<x>> /\ ~Holds(s, x) => Once(u, x)
\* The same of documents, for what an input method composes.
Gains(d, e, t) ==
  \A x \in Preedits :
    /\ Free(d, x) /\ ~Holds(t, x) => Free(e, x)
    /\ Single(d, x) /\ ~Holds(t, x) => Single(e, x)
    /\ Free(d, x) /\ t = <<x>> => Single(e, x)
KeepsHiddenCell(d, e) ==
  Hidden(d) /\ Hidden(e) => e.text[Inner] = d.text[Inner] \/ e \in HostDocs

Spliced(s, lo, hi, t) == SubSeq(s, 1, lo) \o t \o SubSeq(s, hi + 1, Len(s))
Cat(h, r) == h \o r

\* Concatenation as a function of positions, behind an operator the provers do
\* not look into.
LEMMA Joined ==
  ASSUME NEW S, NEW h \in Seq(S), NEW r \in Seq(S),
         NEW l \in Nat, NEW k \in Nat, Len(h) = l, Len(r) = k
  PROVE  /\ Cat(h, r) \in Seq(S) /\ Len(Cat(h, r)) = l + k
         /\ \A i \in 1..l : Cat(h, r)[i] = h[i]
         /\ \A i \in (l + 1)..(l + k) : Cat(h, r)[i] = r[i - l]
<1> DEFINE u == h \o r
<1>1. u = h \o r
  OBVIOUS
<1>2. u \in Seq(S)
  OBVIOUS
<1>3. Len(u) = l + k
  BY ConcatProperties
<1>4. ASSUME NEW i \in 1..(l + k)
      PROVE  u[i] = IF i <= l THEN h[i] ELSE r[i - l]
  OBVIOUS
<1> HIDE DEF u
<1>5. ASSUME NEW i \in 1..l PROVE u[i] = h[i]
  BY <1>4
<1>6. ASSUME NEW i \in (l + 1)..(l + k) PROVE u[i] = r[i - l]
  BY <1>4
<1>7. QED
  BY <1>2, <1>3, <1>5, <1>6 DEF Cat, u

\* In u, t stands between the first lo items of s and the n after its first hi.
IsSplice(S, s, t, u, lo, hi, q, n) ==
  /\ q = lo + Len(t) /\ hi + n = Len(s)
  /\ u \in Seq(S) /\ Len(u) = q + n
  /\ \A i \in 1..lo : u[i] = s[i]
  /\ \A i \in (lo + 1)..q : u[i] = t[i - lo]
  /\ \A i \in (q + 1)..(q + n) : u[i] = s[i - q + hi]

LEMMA Splice ==
  ASSUME NEW S, NEW s \in Seq(S), NEW t \in Seq(S), NEW lo \in Nat, NEW hi \in Nat,
         lo <= hi, hi <= Len(s), NEW u, u = Spliced(s, lo, hi, t)
  PROVE  \E q, n \in Nat : IsSplice(S, s, t, u, lo, hi, q, n)
<1> DEFINE left == SubSeq(s, 1, lo)
           right == SubSeq(s, hi + 1, Len(s))
           head == Cat(left, t)
<1>1. /\ Len(s) \in Nat /\ Len(t) \in Nat
      /\ \A i \in 1..Len(s) : s[i] \in S
  BY LenProperties
<1>2. PICK k \in Nat, n \in Nat : k = Len(t) /\ n = Len(s) - hi
  BY <1>1
<1>3. left \in Seq(S) /\ Len(left) = lo /\ \A i \in 1..lo : left[i] = s[i]
  BY <1>1, SubSeqProperties
<1>4. /\ right \in Seq(S) /\ Len(right) = Len(s) - hi
      /\ \A i \in 1..(Len(s) - hi) : right[i] = s[i + hi]
  BY <1>1, SubSeqProperties
<1>5. u = Cat(head, right)
  BY DEF Spliced, Cat
<1> HIDE DEF left, right
<1>6. Len(t) = k /\ Len(left) = lo /\ left \in Seq(S)
  BY <1>2, <1>3
<1>7. /\ head \in Seq(S) /\ Len(head) = lo + k
      /\ \A i \in 1..lo : head[i] = left[i]
      /\ \A i \in (lo + 1)..(lo + k) : head[i] = t[i - lo]
  BY <1>6, Joined
<1> HIDE DEF head
<1>8. PICK q \in Nat : q = lo + k
  OBVIOUS
<1>9. Len(head) = q /\ Len(right) = n /\ head \in Seq(S) /\ right \in Seq(S)
  BY <1>2, <1>4, <1>7, <1>8
<1>10. /\ u \in Seq(S) /\ Len(u) = q + n
       /\ \A i \in 1..q : u[i] = head[i]
       /\ \A i \in (q + 1)..(q + n) : u[i] = right[i - q]
  BY <1>5, <1>9, Joined
<1>11. ASSUME NEW i \in 1..lo PROVE u[i] = s[i]
  BY <1>3, <1>7, <1>8, <1>10
<1>12. ASSUME NEW i \in (lo + 1)..q PROVE u[i] = t[i - lo]
  BY <1>7, <1>8, <1>10
<1>13. ASSUME NEW i \in (q + 1)..(q + n) PROVE u[i] = s[i - q + hi]
  <2>1. i - q \in 1..n /\ u[i] = right[i - q]
    BY <1>10
  <2>2. QED
    BY <1>2, <1>4, <2>1
<1>14. /\ q = lo + Len(t) /\ hi + n = Len(s)
       /\ u \in Seq(S) /\ Len(u) = q + n
  BY <1>1, <1>2, <1>8, <1>10
<1>15. IsSplice(S, s, t, u, lo, hi, q, n)
  BY <1>11, <1>12, <1>13, <1>14 DEF IsSplice
<1>16. QED
  BY <1>15

LEMMA SpliceBrings ==
  ASSUME NEW S, NEW s \in Seq(S), NEW t \in Seq(S), NEW lo \in Nat, NEW hi \in Nat,
         lo <= hi, hi <= Len(s), NEW u, u = Spliced(s, lo, hi, t)
  PROVE  u \in Seq(S) /\ Brings(s, u, t)
<1>1. PICK q \in Nat, n \in Nat : IsSplice(S, s, t, u, lo, hi, q, n)
  BY Splice
<1>2. PICK k \in Nat : /\ DOMAIN u = 1..(q + n) /\ DOMAIN s = 1..(hi + n) /\ DOMAIN t = 1..k
                      /\ q = lo + k /\ k = Len(t)
  <2>1. DOMAIN u = 1..Len(u) /\ DOMAIN s = 1..Len(s) /\ DOMAIN t = 1..Len(t) /\ Len(t) \in Nat
    BY <1>1, LenProperties DEF IsSplice
  <2>2. QED
    BY <1>1, <2>1 DEF IsSplice
<1> DEFINE after(i) == i - q + hi
<1>3. ASSUME NEW i \in DOMAIN u
      PROVE  \/ i <= lo /\ i \in DOMAIN s /\ u[i] = s[i]
             \/ lo < i /\ i <= q /\ i - lo \in DOMAIN t /\ u[i] = t[i - lo]
             \/ i > q /\ after(i) \in DOMAIN s /\ u[i] = s[after(i)]
  <2>1. i \in Nat /\ 1 <= i /\ i <= q + n
    BY <1>2
  <2>2. CASE i <= lo
    <3>1. i \in 1..lo /\ i \in 1..(hi + n)
      BY <2>1, <2>2
    <3>2. QED
      BY <1>1, <1>2, <2>2, <3>1 DEF IsSplice
  <2>3. CASE lo < i /\ i <= q
    <3>1. i \in (lo + 1)..q /\ i - lo \in 1..k
      BY <1>2, <2>1, <2>3
    <3>2. QED
      BY <1>1, <1>2, <2>3, <3>1 DEF IsSplice
  <2>4. CASE q < i
    <3>1. i \in (q + 1)..(q + n) /\ after(i) \in 1..(hi + n)
      BY <2>1, <2>4
    <3>2. QED
      BY <1>1, <1>2, <2>4, <3>1 DEF IsSplice
  <2>5. QED
    BY <2>1, <2>2, <2>3, <2>4
<1>4. lo <= q /\ \A i \in DOMAIN u : i \in Nat
  BY <1>2
<1>5. ASSUME NEW x, ~Holds(t, x), Once(s, x) PROVE Once(u, x)
  <2> SUFFICES ASSUME NEW i \in DOMAIN u, NEW j \in DOMAIN u, u[i] = x, u[j] = x PROVE i = j
    BY DEF Once
  <2>1. i \in Nat /\ j \in Nat
    BY <1>4
  <2>2. \/ i <= lo /\ i \in DOMAIN s /\ s[i] = x
        \/ i > q /\ after(i) \in DOMAIN s /\ s[after(i)] = x
    BY <1>3, <1>5 DEF Holds
  <2>3. \/ j <= lo /\ j \in DOMAIN s /\ s[j] = x
        \/ j > q /\ after(j) \in DOMAIN s /\ s[after(j)] = x
    BY <1>3, <1>5 DEF Holds
  <2>4. \A y, z \in DOMAIN s : s[y] = x /\ s[z] = x => y = z
    BY <1>5 DEF Once
  <2>5. CASE i <= lo /\ j <= lo
    BY <1>4, <2>1, <2>2, <2>3, <2>4, <2>5
  <2>6. CASE i > q /\ j > q
    <3>1. after(i) = after(j)
      BY <1>4, <2>1, <2>2, <2>3, <2>4, <2>6
    <3>2. QED
      BY <2>1, <3>1
  <2>7. ASSUME i <= lo, j > q PROVE FALSE
    <3>1. i = after(j)
      BY <1>4, <2>1, <2>2, <2>3, <2>4, <2>7
    <3>2. QED
      BY <2>1, <2>7, <3>1
  <2>8. ASSUME j <= lo, i > q PROVE FALSE
    <3>1. j = after(i)
      BY <1>4, <2>1, <2>2, <2>3, <2>4, <2>8
    <3>2. QED
      BY <2>1, <2>8, <3>1
  <2>9. QED
    BY <2>2, <2>3, <2>5, <2>6, <2>7, <2>8
<1>6. ASSUME NEW x, t = <<x>>, ~Holds(s, x) PROVE Once(u, x)
  <2> SUFFICES ASSUME NEW i \in DOMAIN u, NEW j \in DOMAIN u, u[i] = x, u[j] = x PROVE i = j
    BY DEF Once
  <2>1. q = lo + 1
    BY <1>2, <1>6
  <2>2. i \in Nat /\ j \in Nat
    BY <1>4
  <2>3. lo < i /\ i <= q /\ lo < j /\ j <= q
    BY <1>3, <1>6 DEF Holds
  <2>4. QED
    BY <2>1, <2>2, <2>3
<1>7. ASSUME NEW x, Holds(u, x) PROVE Holds(s, x) \/ Holds(t, x)
  BY <1>3, <1>7 DEF Holds
<1>8. QED
  BY <1>1, <1>5, <1>6, <1>7 DEF Brings, IsSplice

LEMMA Overwritten ==
  ASSUME NEW S, NEW s \in Seq(S), NEW t \in Seq(S), Len(t) <= 1
  PROVE  Brings(s, t, t)
<1>1. \A i, j \in DOMAIN t : i = j
  OBVIOUS
<1>2. QED
  BY <1>1 DEF Brings, Holds, Once

Rewrite(d, n, u) == [d EXCEPT !.text[n] = u]
LEMMA Rewritten ==
  ASSUME NEW d, IsDoc(d), NEW n \in Blocks(d), NEW u \in Seq(Item), NEW t,
         Brings(d.text[n], u, t), NEW e, e = Rewrite(d, n, u)
  PROVE  /\ IsDoc(e) /\ Blocks(e) = Blocks(d) /\ e.grid = d.grid
         /\ e.text = [d.text EXCEPT ![n] = u] /\ Gains(d, e, t)
<1>1. /\ DOMAIN e = {"text", "grid"} /\ e.grid = d.grid
      /\ e.text = [d.text EXCEPT ![n] = u]
  BY DEF IsDoc, Rewrite
<1>2. Blocks(e) = Blocks(d) /\ e.text \in [Blocks(d) -> Seq(Item)]
  BY <1>1 DEF IsDoc, Blocks
<1>3. e.text[n] = u /\ \A m \in Blocks(d) \ {n} : e.text[m] = d.text[m]
  BY <1>1 DEF IsDoc, Blocks
<1>4. ASSUME NEW x, Free(d, x), ~Holds(t, x) PROVE Free(e, x)
  BY <1>2, <1>3, <1>4 DEF Free, Brings
<1>5. ASSUME NEW x, Single(d, x), ~Holds(t, x) PROVE Single(e, x)
  <2>1. \A m \in Blocks(d) : Holds(e.text[m], x) => Holds(d.text[m], x)
    BY <1>3, <1>5 DEF Brings
  <2>2. \A m \in Blocks(d) : Once(e.text[m], x)
    BY <1>3, <1>5 DEF Brings, Single
  <2>3. QED
    BY <1>2, <1>5, <2>1, <2>2 DEF Single
<1>6. ASSUME NEW x, Free(d, x), t = <<x>> PROVE Single(e, x)
  <2>1. \A m \in Blocks(d) : Holds(e.text[m], x) => m = n
    BY <1>3, <1>6 DEF Free
  <2>2. \A m \in Blocks(d) : Once(e.text[m], x)
    BY <1>3, <1>6, <2>1 DEF Brings, Free, Once, Holds
  <2>3. QED
    BY <1>2, <2>1, <2>2 DEF Single
<1>7. QED
  BY <1>1, <1>2, <1>4, <1>5, <1>6 DEF IsDoc, Gains

-----------------------------------------------------------------------------
(* The session's outcomes.  An outcome fits if it leaves a document and a  *)
(* selection in it, brings nothing but t into it, and keeps a cell that is *)
(* hidden.                                                                 *)

GoodSession == IsDoc(doc) /\ IsSel(doc, sel)
Fits(o, t) ==
  /\ IsDoc(o.doc) /\ IsSel(o.doc, o.sel)
  /\ Gains(doc, o.doc, t)
  /\ KeepsHiddenCell(doc, o.doc)

\* t is at most one letter or one composed text.
Short(t) == t \in Seq(Item) /\ Len(t) <= 1

LEMMA SelectFits ==
  ASSUME GoodSession, NEW s, IsSel(doc, s), NEW t
  PROVE  Fits(Outcome(doc, s), t)
<1>1. Outcome(doc, s).doc = doc /\ Outcome(doc, s).sel = s
  BY DEF Outcome
<1>2. Gains(doc, doc, t)
  <2>1. \A x : Free(doc, x) => Single(doc, x)
    BY DEF Free, Single, Holds, Once
  <2>2. QED
    BY <2>1 DEF Gains
<1>3. QED
  BY <1>1, <1>2 DEF Fits, GoodSession, KeepsHiddenCell

LEMMA RefusedFits ==
  ASSUME GoodSession, NEW t
  PROVE  Fits(Refused, t)
BY SelectFits DEF GoodSession, Refused

LEMMA HostFits ==
  ASSUME GoodSession, NEW o \in HostOutcomes, NEW t
  PROVE  Fits(o, t)
<1>1. PICK d \in HostDocs : o = Outcome(d, Caret(First, 0))
  BY DEF HostOutcomes
<1>2. o.doc = d /\ o.sel = Caret(First, 0)
  BY <1>1 DEF Outcome
<1>3. /\ DOMAIN d = {"text", "grid"} /\ d.text \in [Blocks(d) -> Seq(Content)]
      /\ First \in Blocks(d)
      /\ d.grid # None => Inner \in Blocks(d)
  BY ViewsAssumption
<1>4. IsDoc(d)
  <2>1. ASSUME NEW n \in Blocks(d) PROVE d.text[n] \in Seq(Item)
    <3>1. d.text[n] \in Seq(Content) /\ Content \subseteq Item
      BY <1>3 DEF Item
    <3>2. QED
      BY <3>1
  <2>2. QED
    BY <1>3, <2>1 DEF IsDoc
<1>5. IsSel(d, Caret(First, 0))
  <2>1. d.text[First] \in Seq(Content)
    BY <1>3
  <2>2. 0 \in Offsets(d, First)
    BY <2>1 DEF Offsets
  <2>3. QED
    BY <1>3, <2>2 DEF IsSel, IsPoint, Caret, Inline, At
<1>6. ASSUME NEW x \in Preedits PROVE Free(d, x)
  <2>1. ASSUME NEW n \in Blocks(d), Holds(d.text[n], x) PROVE FALSE
    <3>1. d.text[n] \in Seq(Content)
      BY <1>3
    <3>2. x \in Content
      BY <2>1, <3>1 DEF Holds
    <3>3. QED
      BY <3>2, ViewsAssumption
  <2>2. QED
    BY <2>1 DEF Free
<1>7. \A x : Free(d, x) => Single(d, x)
  BY DEF Free, Single, Holds, Once
<1>8. Gains(doc, d, t)
  BY <1>6, <1>7 DEF Gains
<1>9. QED
  BY <1>2, <1>4, <1>5, <1>8 DEF Fits, KeepsHiddenCell

\* An edit of one text, other than that of a hidden cell.
LEMMA RewriteFits ==
  ASSUME GoodSession, NEW n \in Blocks(doc), NEW u \in Seq(Item), NEW t,
         Brings(doc.text[n], u, t), NEW d, d = Rewrite(doc, n, u),
         ~(Hidden(doc) /\ n = Inner), NEW s, IsSel(d, s)
  PROVE  Fits(Outcome(d, s), t)
<1>1. /\ IsDoc(d) /\ d.grid = doc.grid /\ d.text = [doc.text EXCEPT ![n] = u]
      /\ Gains(doc, d, t)
  BY Rewritten DEF GoodSession
<1>2. ASSUME Hidden(doc) PROVE d.text[Inner] = doc.text[Inner]
  <2>1. Inner # n /\ Inner \in Blocks(doc)
    BY <1>2, ViewsAssumption DEF Hidden, GoodSession, IsDoc
  <2>2. QED
    BY <1>1, <2>1 DEF Blocks
<1>3. QED
  BY <1>1, <1>2 DEF Fits, Outcome, KeepsHiddenCell

\* A replacement of a range leaves a text the caret behind t is in.
LEMMA ReplaceFits ==
  ASSUME GoodSession, NEW n \in Blocks(doc), NEW lo \in Nat, NEW hi \in Nat,
         lo <= hi, hi <= Len(doc.text[n]), NEW t \in Seq(Item),
         ~(Hidden(doc) /\ n = Inner)
  PROVE  Fits(Outcome(Replaced(doc, n, lo, hi, t), Caret(n, lo + Len(t))), t)
<1> DEFINE u == Spliced(doc.text[n], lo, hi, t)
           d == Rewrite(doc, n, u)
<1>1. doc.text[n] \in Seq(Item)
  BY DEF GoodSession, IsDoc
<1>2. u \in Seq(Item) /\ Brings(doc.text[n], u, t)
  BY <1>1, SpliceBrings
<1>3. Len(u) \in Nat /\ lo + Len(t) \in 0..Len(u)
  <2>1. PICK q \in Nat, k \in Nat : IsSplice(Item, doc.text[n], t, u, lo, hi, q, k)
    BY <1>1, Splice
  <2>2. QED
    BY <2>1, LenProperties DEF IsSplice
<1>4. d = Replaced(doc, n, lo, hi, t)
  BY DEF Replaced, Spliced, Rewrite
<1> HIDE DEF u
<1>5. IsDoc(d) /\ Blocks(d) = Blocks(doc) /\ d.text[n] = u
  <2>1. IsDoc(d) /\ Blocks(d) = Blocks(doc) /\ d.text = [doc.text EXCEPT ![n] = u]
    BY <1>2, Rewritten DEF GoodSession
  <2>2. QED
    BY <2>1 DEF Blocks
<1> HIDE DEF d
<1>6. IsSel(d, Caret(n, lo + Len(t)))
  BY <1>3, <1>5 DEF IsSel, IsPoint, Offsets, Caret, Inline, At
<1>7. QED
  BY <1>2, <1>4, <1>6, RewriteFits DEF d

\* What a cell range types into replaces the text of its cell.
LEMMA OverwriteFits ==
  ASSUME GoodSession, sel.kind = "cells" \/ doc.grid # None, ~Hidden(doc),
         NEW t, Short(t), NEW s \in {CellRange, Caret(Inner, Len(t))}
  PROVE  Fits(Outcome([doc EXCEPT !.text[Inner] = t], s), t)
<1> DEFINE d == Rewrite(doc, Inner, t)
<1>1. doc.grid # None /\ Inner \in Blocks(doc)
  BY DEF GoodSession, IsSel, IsDoc
<1>2. t \in Seq(Item) /\ doc.text[Inner] \in Seq(Item) /\ Len(t) \in Nat
  BY <1>1, LenProperties DEF Short, GoodSession, IsDoc
<1>3. Brings(doc.text[Inner], t, t)
  BY <1>2, Overwritten DEF Short
<1>4. IsDoc(d) /\ Blocks(d) = Blocks(doc) /\ d.grid = doc.grid /\ d.text[Inner] = t
  <2>1. /\ IsDoc(d) /\ Blocks(d) = Blocks(doc) /\ d.grid = doc.grid
        /\ d.text = [doc.text EXCEPT ![Inner] = t]
    BY <1>1, <1>2, <1>3, Rewritten DEF GoodSession
  <2>2. QED
    BY <1>1, <2>1 DEF Blocks
<1> HIDE DEF d
<1>5. IsSel(d, s)
  <2>1. CASE s = CellRange
    BY <1>1, <1>4, <2>1 DEF IsSel, CellRange, Whole
  <2>2. CASE s = Caret(Inner, Len(t))
    BY <1>1, <1>2, <1>4, <2>2 DEF IsSel, IsPoint, Offsets, Caret, Inline, At
  <2>3. QED
    BY <2>1, <2>2
<1>6. QED
  BY <1>1, <1>2, <1>3, <1>5, RewriteFits DEF d, Rewrite

LEMMA RangeOfSelection ==
  ASSUME NEW d, IsDoc(d), NEW s, IsSel(d, s), SameNode(s)
  PROVE  /\ s.focus.node \in Blocks(d) /\ s.anchor.node = s.focus.node
         /\ Low(s) \in Nat /\ High(s) \in Nat
         /\ Low(s) <= High(s) /\ High(s) <= Len(d.text[s.focus.node])
         /\ d.text[s.focus.node] \in Seq(Item)
<1>1. IsPoint(d, s.anchor) /\ IsPoint(d, s.focus) /\ s.anchor.node = s.focus.node
  BY DEF IsSel, SameNode
<1>2. d.text[s.focus.node] \in Seq(Item) /\ s.focus.node \in Blocks(d)
  BY <1>1 DEF IsDoc, IsPoint
<1>3. Len(d.text[s.focus.node]) \in Nat
  BY <1>2, LenProperties
<1>4. s.anchor.off \in 0..Len(d.text[s.focus.node]) /\ s.focus.off \in 0..Len(d.text[s.focus.node])
  BY <1>1 DEF IsPoint, Offsets
<1>5. QED
  BY <1>1, <1>2, <1>3, <1>4 DEF Low, High

LEMMA TypedFits ==
  ASSUME GoodSession, NEW s, IsSel(doc, s), ~HiddenEndpoint(doc, s), NEW t, Short(t)
  PROVE  Fits(Typed(s, t), t)
<1>1. CASE s.kind = "cells"
  <2>1. s = CellRange /\ doc.grid # None
    BY <1>1 DEF IsSel
  <2>2. ~Hidden(doc)
    BY <2>1 DEF HiddenEndpoint, CellRange, Whole, At
  <2>3. QED
    BY <1>1, <2>1, <2>2, OverwriteFits DEF Typed
<1>2. CASE s.kind # "cells" /\ SameNode(s)
  <2>1. /\ s.focus.node \in Blocks(doc) /\ Low(s) \in Nat /\ High(s) \in Nat
        /\ Low(s) <= High(s) /\ High(s) <= Len(doc.text[s.focus.node])
    BY <1>2, RangeOfSelection DEF GoodSession
  <2>2. ~(Hidden(doc) /\ s.focus.node = Inner)
    BY DEF HiddenEndpoint
  <2>3. t \in Seq(Item)
    BY DEF Short
  <2>4. QED
    BY <1>2, <2>1, <2>2, <2>3, ReplaceFits DEF Typed
<1>3. CASE s.kind # "cells" /\ ~SameNode(s)
  BY <1>3, RefusedFits DEF Typed
<1>4. QED
  BY <1>1, <1>2, <1>3

LEMMA ComposedFits ==
  ASSUME GoodSession, ~HiddenEndpoint(doc, sel), NEW t, Short(t),
         NEW lo \in Nat, NEW hi \in Nat, lo <= hi
  PROVE  Fits(Composed(lo, hi, t), t)
<1>1. IsSel(doc, sel)
  BY DEF GoodSession
<1>2. CASE sel.kind = "cells"
  BY <1>1, <1>2, TypedFits, RefusedFits DEF Composed
<1>3. CASE sel.kind # "cells" /\ SameNode(sel) /\ hi <= Len(doc.text[sel.focus.node])
  <2>1. sel.focus.node \in Blocks(doc)
    BY <1>1, <1>3, RangeOfSelection DEF GoodSession
  <2>2. ~(Hidden(doc) /\ sel.focus.node = Inner)
    BY DEF HiddenEndpoint
  <2>3. t \in Seq(Item)
    BY DEF Short
  <2>4. QED
    BY <1>3, <2>1, <2>2, <2>3, ReplaceFits DEF Composed
<1>4. QED
  BY <1>2, <1>3, RefusedFits DEF Composed

LEMMA ShortTexts ==
  /\ Short(<<>>) /\ Short(<<Letter>>)
  /\ \A p \in Preedits : Short(<<p>>)
BY ViewsAssumption DEF Short, Item

LEMMA DeletedFits ==
  ASSUME GoodSession, ~HiddenEndpoint(doc, sel)
  PROVE  Fits(DeletedSelection, <<>>)
<1>1. IsSel(doc, sel)
  BY DEF GoodSession
<1>2. CASE SameNode(sel) /\ sel.anchor # sel.focus
  <2>1. /\ sel.focus.node \in Blocks(doc) /\ Low(sel) \in Nat /\ High(sel) \in Nat
        /\ Low(sel) <= High(sel) /\ High(sel) <= Len(doc.text[sel.focus.node])
    BY <1>1, <1>2, RangeOfSelection DEF GoodSession
  <2>2. ~(Hidden(doc) /\ sel.focus.node = Inner)
    BY DEF HiddenEndpoint
  <2>3. /\ <<>> \in Seq(Item) /\ Low(sel) + Len(<<>>) = Low(sel)
    BY <2>1
  <2>4. Fits(Outcome(Replaced(doc, sel.focus.node, Low(sel), High(sel), <<>>),
                     Caret(sel.focus.node, Low(sel) + Len(<<>>))), <<>>)
    BY <2>1, <2>2, <2>3, ReplaceFits
  <2>5. QED
    BY <1>2, <2>3, <2>4 DEF DeletedSelection
<1>3. CASE ~(SameNode(sel) /\ sel.anchor # sel.focus) /\ sel.kind = "cells"
  <2>1. sel = CellRange /\ doc.grid # None
    BY <1>1, <1>3 DEF IsSel
  <2>2. ~Hidden(doc)
    BY <2>1 DEF HiddenEndpoint, CellRange, Whole, At
  <2>3. QED
    BY <1>3, <2>1, <2>2, ShortTexts, OverwriteFits DEF DeletedSelection
<1>4. QED
  BY <1>2, <1>3, RefusedFits DEF DeletedSelection

\* The ranges a callback addresses, in the text of the selection.
LEMMA NativeRange ==
  ASSUME GoodSession, NEW e, NEW range \in NativeRanges, NEW r \in InputRange(e, range)
  PROVE  /\ r[1] \in Nat /\ r[2] \in Nat /\ r[1] <= r[2]
         /\ e.part # "proxy" => /\ SameNode(sel) /\ sel.anchor.node = e.node
                                /\ r[2] <= Len(doc.text[e.node])
<1>1. CASE e.part = "proxy"
  BY <1>1 DEF InputRange
<1>2. CASE e.part # "proxy" /\ range = None
  <2>1. SameNode(sel) /\ sel.anchor.node = e.node /\ r = <<Low(sel), High(sel)>>
    BY <1>2 DEF InputRange
  <2>2. QED
    BY <1>2, <2>1, RangeOfSelection DEF GoodSession
<1>3. CASE e.part # "proxy" /\ range # None
  BY <1>3 DEF InputRange, NativeRanges
<1>4. QED
  BY <1>1, <1>2, <1>3

-----------------------------------------------------------------------------
(* What the callbacks of the input handler do to the composition.          *)

LEMMA OnlyComposition ==
  ASSUME CompsHold(comps, handler)
  PROVE  /\ Composition(handler) = comps
         /\ handler.view \in ReadOnly => comps = {}
BY DEF CompsHold, Composition

LEMMA Ends ==
  ASSUME CompsHold(comps, handler), EndComposition(handler)
  PROVE  comps' = {}
BY OnlyComposition DEF EndComposition

LEMMA CancelEnds ==
  ASSUME CompsHold(comps, handler), Cancel(handler)
  PROVE  comps' = {} /\ UNCHANGED <<handler, focus>>
BY Ends DEF Cancel, QuietNative

LEMMA CommitEnds ==
  ASSUME CompsHold(comps, handler), NEW t, Commit(handler, t)
  PROVE  comps' = {} /\ UNCHANGED <<handler, focus>>
BY Ends DEF Commit

LEMMA ReplaceTextEnds ==
  ASSUME CompsHold(comps, handler), NEW range, NEW t, ReplaceText(handler, range, t)
  PROVE  comps' = {} /\ UNCHANGED <<handler, focus>>
<1>1. CASE handler.view \in ReadOnly
  BY <1>1, OnlyComposition DEF ReplaceText, Ignore, QuietNative
<1>2. CASE Cancel(handler)
  BY <1>2, CancelEnds
<1>3. CASE Commit(handler, t)
  BY <1>3, CommitEnds
<1>4. CASE Composition(handler) = {} /\ TypeAt(handler, range, t)
  BY <1>4, OnlyComposition DEF TypeAt, viewVars
<1>5. QED
  BY <1>1, <1>2, <1>3, <1>4 DEF ReplaceText

LEMMA UnmarkEnds ==
  ASSUME CompsHold(comps, handler), Unmark(handler)
  PROVE  comps' = {} /\ UNCHANGED <<handler, focus>>
<1>1. CASE handler.view \in ReadOnly
  BY <1>1, OnlyComposition DEF Unmark, Ignore, QuietNative
<1>2. CASE Cancel(handler)
  BY <1>2, CancelEnds
<1>3. CASE \E c \in Composition(handler) : Commit(handler, c.text)
  BY <1>3, CommitEnds
<1>4. QED
  BY <1>1, <1>2, <1>3 DEF Unmark

LEMMA EmptyMarkEnds ==
  ASSUME CompsHold(comps, handler), NEW range, Mark(handler, range, <<>>)
  PROVE  comps' = {} /\ UNCHANGED <<handler, focus>>
<1>1. CASE handler.view \in ReadOnly
  BY <1>1, OnlyComposition DEF Mark, Ignore, QuietNative
<1>2. QED
  BY <1>1, CancelEnds DEF Mark

LEMMA OneRange ==
  ASSUME NEW e, NEW range
  PROVE  InputRange(e, range) = {} \/ \E r : InputRange(e, range) = {r}
<1>1. {r \in {range} : r[2] <= Len(doc.text[e.node])} \in {{}, {range}}
  OBVIOUS
<1>2. QED
  BY <1>1 DEF InputRange

LEMMA MarkKeepsOne ==
  ASSUME CompsHold(comps, handler), TakesText(handler),
         NEW range, NEW t, Mark(handler, range, t),
         \A r \in InputRange(handler, range) : r[1] \in Nat /\ r[2] \in Nat /\ r[1] <= r[2]
  PROVE  /\ CompsHold(comps', handler)
         /\ \A c \in comps' : c \in comps \/ c.text = t
         /\ UNCHANGED <<handler, focus>>
<1>1. CASE Ignore
  BY <1>1 DEF Ignore, QuietNative
<1>2. CASE Cancel(handler)
  BY <1>2, CancelEnds DEF CompsHold
<1>3. ASSUME NEW admitted \in BOOLEAN, BeginOrUpdate(handler, range, t, admitted),
             handler.view \notin ReadOnly, ~\E c \in Composition(handler) : c.rejected
      PROVE  /\ CompsHold(comps', handler)
             /\ \A c \in comps' : c.text = t
  <2> DEFINE changed(c) == [c EXCEPT !.text = t, !.rejected = ~admitted]
  <2>1. CASE comps = {}
    <3>1. Composition(handler) = {}
      BY <2>1 DEF Composition
    <3>2. PICK refused : comps' = {Composing(handler, r, t, refused) : r \in InputRange(handler, range)}
      BY <1>3, <2>1, <3>1 DEF BeginOrUpdate
    <3>3. \/ comps' = {}
          \/ \E r \in InputRange(handler, range) : comps' = {Composing(handler, r, t, refused)}
      BY <3>2, OneRange
    <3>4. QED
      BY <1>3, <3>3 DEF CompsHold, Composing, IsComposition
  <2>2. CASE comps # {}
    <3>1. PICK c \in comps : comps = {c} /\ IsComposition(c) /\ c.entity = handler
      BY <2>2 DEF CompsHold
    <3>2. Composition(handler) = {c} /\ ~c.rejected
      BY <1>3, <3>1, OnlyComposition
    <3>3. comps' = {changed(c)}
      BY <1>3, <3>1, <3>2 DEF BeginOrUpdate
    <3>4. /\ IsComposition(changed(c)) /\ changed(c).entity = handler
          /\ changed(c).text = t
      BY <3>1 DEF IsComposition
    <3> HIDE DEF changed
    <3>5. QED
      BY <1>3, <3>3, <3>4 DEF CompsHold
  <2>3. QED
    BY <2>1, <2>2
<1>4. ASSUME NEW admitted \in BOOLEAN, BeginOrUpdate(handler, range, t, admitted)
      PROVE  UNCHANGED <<handler, focus>>
  BY <1>4 DEF BeginOrUpdate, QuietNative
<1>5. QED
  BY <1>1, <1>2, <1>3, <1>4 DEF Mark

-----------------------------------------------------------------------------
(* Synchronising, routing and drawing.                                     *)

LEMMA SurvivingEntity ==
  ASSUME NEW v, NEW d, NEW s, NEW e, IsEntity(e)
  PROVE  IsEntity(Surviving(v, d, s, e)) /\ IsEntity(Owner(Surviving(v, d, s, e)))
BY KeptEntity DEF Surviving, Owner, IsEntity, Elsewhere

LEMMA RoutedEntity ==
  ASSUME NEW v, NEW d, NEW s, NEW kids, NEW prox, NEW f, IsEntity(f)
  PROVE  IsEntity(Routed(v, d, s, kids, prox, f))
BY DEF Routed, IsEntity, View, Proxy, Child, Entity

\* The entity that composes goes with the input handler, which it is.
LEMMA EntityGoes ==
  ASSUME CompsInv, UNCHANGED ime, NEW gone, handler' = Kept(gone, handler),
         comps' = AllKept(gone, comps)
  PROVE  CompsInv'
<1>1. /\ CompsHold(comps', handler')
      /\ comps = {} => comps' = {}
      /\ \A d \in comps' : \E c \in comps : d.text = c.text
  <2>1. IsEntity(handler) /\ CompsHold(comps, handler)
    BY DEF CompsInv
  <2>2. QED
    BY <2>1, KeptComps
<1>2. IsEntity(handler')
  BY KeptEntity DEF CompsInv
<1>3. QED
  BY <1>1, <1>2 DEF CompsInv

LEMMA SyncedHolds ==
  ASSUME CompsInv, UNCHANGED ime, NEW v, NEW d, NEW s, Synced(v, d, s)
  PROVE  CompsInv'
<1> DEFINE gone == Dropped(v, d, s, handler)
<1>1. /\ handler' = Kept(gone, handler)
      /\ comps' = {[c EXCEPT !.entity = Surviving(v, d, s, c.entity)] : c \in comps}
  BY DEF Synced, Surviving, WithEntity
<1>2. \A c \in comps : Surviving(v, d, s, c.entity) = Kept(gone, c.entity)
  BY DEF CompsInv, CompsHold, Surviving
<1>3. comps' = AllKept(gone, comps)
  BY <1>1, <1>2 DEF AllKept
<1> HIDE DEF gone
<1>4. QED
  BY <1>1, <1>3, EntityGoes

LEMMA SyncAndRouteHolds ==
  ASSUME ViewInv, UNCHANGED ime, NEW v, NEW d, NEW s, SyncAndRoute(v, d, s)
  PROVE  ViewInv'
<1>1. Synced(v, d, s)
  BY DEF SyncAndRoute, SyncThen
<1>2. PICK kids, prox : focus' = Routed(v, d, s, kids, prox, Owner(Surviving(v, d, s, focus)))
  BY DEF SyncAndRoute, SyncThen
<1>3. QED
  BY <1>1, <1>2, SyncedHolds, SurvivingEntity, RoutedEntity DEF ViewInv

LEMMA QuietViews ==
  ASSUME CompsInv, UNCHANGED <<handler, comps, ime>>
  PROVE  CompsInv'
BY DEF CompsInv, CompsHold

LEMMA RouteOnlyHolds ==
  ASSUME ViewInv, UNCHANGED ime, NEW v, NEW d, NEW s, RouteOnly(v, d, s)
  PROVE  ViewInv'
BY QuietViews, RoutedEntity DEF ViewInv, RouteOnly

LEMMA FollowHolds ==
  ASSUME ViewInv, UNCHANGED ime, NEW v, NEW o, NEW follows, Follow(v, o, follows)
  PROVE  ViewInv'
<1>1. SyncAndRoute(v, o.doc, o.sel) \/ UNCHANGED viewVars
  BY DEF Follow
<1>2. QED
  BY <1>1, SyncAndRouteHolds, QuietViews DEF ViewInv, viewVars

\* A frame keeps a composition only for the entity it gives the handler to.
LEMMA DrawHolds ==
  ASSUME ViewInv, Draw
  PROVE  ViewInv'
<1> DEFINE gone(e) == \E v \in Views : Dropped(v, doc, sel, e)
           kept == Owner(Kept(gone(focus), focus))
<1>1. IsEntity(kept)
  BY KeptEntity DEF ViewInv, Owner, IsEntity, Elsewhere
<1>2. PICK next : /\ focus' = next /\ IsEntity(next)
                  /\ handler' = IF TakesText(next) THEN next ELSE Elsewhere
                  /\ comps' \subseteq comps \ Lost(next)
  <2>1. PICK next : /\ \/ next = kept
                       \/ \E v, kids, prox : next = Routed(v, doc, sel, kids, prox, kept)
                    /\ focus' = next
                    /\ handler' = IF TakesText(next) THEN next ELSE Elsewhere
                    /\ comps' \subseteq comps \ Lost(next)
    BY DEF Draw
  <2> HIDE DEF kept
  <2>2. QED
    BY <1>1, <2>1, RoutedEntity
<1>3. \A c \in comps' : c.entity = next /\ TakesText(next) /\ comps' = {c}
  BY <1>2 DEF Lost, ViewInv, CompsInv, CompsHold
<1>4. CompsHold(comps', handler')
  BY <1>2, <1>3 DEF ViewInv, CompsInv, CompsHold
<1>5. IsEntity(handler')
  BY <1>2 DEF IsEntity, Elsewhere
<1>6. ime' = ime
  BY DEF Draw
<1>7. QED
  BY <1>2, <1>4, <1>5, <1>6 DEF ViewInv, CompsInv

LEMMA SelectCellsHolds ==
  ASSUME ViewInv, NEW v, SelectCells(v)
  PROVE  ViewInv'
<1> DEFINE gone(e) == e.view = v /\ e.part = "proxy" /\ e.node # "cell"
           lost == gone(handler)
<1>1. /\ handler' = Kept(lost, handler) /\ UNCHANGED ime /\ focus' = Proxy(v, "cell")
      /\ comps' = {[c EXCEPT !.entity = Kept(gone(c.entity), c.entity)] : c \in comps}
  BY DEF SelectCells, WithEntity
<1>2. \A c \in comps : Kept(gone(c.entity), c.entity) = Kept(lost, c.entity)
  BY DEF ViewInv, CompsInv, CompsHold
<1>3. comps' = AllKept(lost, comps)
  BY <1>1, <1>2 DEF AllKept
<1> HIDE DEF lost
<1>4. CompsInv'
  BY <1>1, <1>3, EntityGoes DEF ViewInv
<1>5. QED
  BY <1>1, <1>4 DEF ViewInv, IsEntity, Proxy, Entity

-----------------------------------------------------------------------------
(* The input method, event by event.                                       *)

LEMMA MethodEnds ==
  ASSUME ViewInv, comps' = {}, UNCHANGED <<handler, focus>>, DOMAIN ime' = DOMAIN ime
  PROVE  ViewInv'
BY DEF ViewInv, CompsInv, CompsHold

LEMMA MethodRests ==
  ASSUME ViewInv, NEW at, NEW t, ime' = ImeAt(at, t)
  PROVE  DOMAIN ime' = DOMAIN ime /\ ime'.at = at /\ ime'.text = t /\ ime'.left = ime.left
BY DEF ViewInv, CompsInv, ImeAt

\* Nothing composes when no text is in reach of the method.
LEMMA NoText ==
  ASSUME ViewInv, ~TakesText(handler), Ignore
  PROVE  comps' = {} /\ UNCHANGED <<handler, focus>>
BY DEF ViewInv, CompsInv, CompsHold, Ignore, QuietNative

LEMMA ImeEndsHolds ==
  ASSUME ViewInv, ImeCommits \/ ImeCancels \/ ImeUnmarks \/ WindowUnmarks
  PROVE  comps' = {} /\ ViewInv'
<1>1. CompsHold(comps, handler)
  BY DEF ViewInv, CompsInv
<1>2. comps' = {} /\ UNCHANGED <<handler, focus>>
  <2>1. CASE ~TakesText(handler) /\ Ignore
    BY <2>1, NoText
  <2>2. CASE Unmark(handler)
    BY <1>1, <2>2, UnmarkEnds
  <2>3. CASE Mark(handler, None, <<>>)
    BY <1>1, <2>3, EmptyMarkEnds
  <2>4. CASE \E t : ReplaceText(handler, None, t)
    BY <1>1, <2>4, ReplaceTextEnds
  <2>5. QED
    BY <2>1, <2>2, <2>3, <2>4 DEF ImeCommits, ImeCancels, ImeUnmarks, WindowUnmarks
<1>3. \E at, t : ime' = ImeAt(at, t)
  BY DEF ImeCommits, ImeCancels, ImeUnmarks, WindowUnmarks, Ended
<1>4. QED
  BY <1>2, <1>3, MethodEnds, MethodRests

LEMMA TypeLetterHolds ==
  ASSUME ViewInv, TypeLetter
  PROVE  comps' = {} /\ ViewInv'
<1>1. CompsHold(comps, handler)
  BY DEF ViewInv, CompsInv
<1>2. comps' = {} /\ UNCHANGED <<handler, focus, ime>>
  BY <1>1, ReplaceTextEnds DEF TypeLetter
<1>3. QED
  BY <1>2, MethodEnds

LEMMA ImeStartsHolds ==
  ASSUME ViewInv, GoodSession, ImeStarts
  PROVE  ViewInv'
<1>1. PICK p \in ime.left, range \in NativeRanges : /\ Mark(handler, range, <<p>>) /\ TakesText(handler)
                      /\ ime' = [at |-> "composing", text |-> <<p>>, left |-> ime.left \ {p}]
  BY DEF ImeStarts
<1>2. comps = {} /\ CompsHold(comps, handler)
  BY DEF ImeStarts, ViewInv, CompsInv
<1>3. /\ CompsHold(comps', handler) /\ UNCHANGED <<handler, focus>>
      /\ \A c \in comps' : c \in comps \/ c.text = <<p>>
  BY <1>1, <1>2, NativeRange, MarkKeepsOne
<1>4. QED
  BY <1>1, <1>2, <1>3 DEF ViewInv, CompsInv

LEMMA ImeUpdatesHolds ==
  ASSUME ViewInv, GoodSession, ImeUpdates
  PROVE  ViewInv'
<1>1. /\ TakesText(handler) /\ Mark(handler, None, ime.text) /\ UNCHANGED ime
      /\ None \in NativeRanges
  BY DEF ImeUpdates, NativeRanges
<1>2. CompsHold(comps, handler)
  BY DEF ViewInv, CompsInv
<1>3. /\ CompsHold(comps', handler) /\ UNCHANGED <<handler, focus>>
      /\ \A c \in comps' : c \in comps \/ c.text = ime.text
  BY <1>1, <1>2, NativeRange, MarkKeepsOne
<1>4. QED
  BY <1>1, <1>3 DEF ViewInv, CompsInv, ImeUpdates

-----------------------------------------------------------------------------
(* The other events, and the invariant.                                    *)

LEMMA ViewEventHolds ==
  ASSUME ViewInv, NEW v \in Views,
         \/ MouseDown(v) \/ SelectNode(v) \/ RouteSelection(v) \/ NavigateNode(v)
         \/ LeaveCells(v) \/ Navigate(v) \/ Command(v) \/ CommandAt(v) \/ History(v)
         \/ Transaction(v) \/ FocusSelection(v)
  PROVE  ViewInv'
<1>1. CASE MouseDown(v) \/ LeaveCells(v) \/ Navigate(v)
  <2>1. UNCHANGED ime /\ \E d, s : RouteOnly(v, d, s)
    BY <1>1 DEF MouseDown, LeaveCells, Navigate, Select
  <2>2. QED
    BY <2>1, RouteOnlyHolds
<1>2. CASE SelectNode(v) \/ RouteSelection(v) \/ NavigateNode(v) \/ FocusSelection(v)
  <2>1. UNCHANGED ime /\ \E d, s : SyncAndRoute(v, d, s)
    BY <1>2 DEF SelectNode, RouteSelection, NavigateNode, FocusSelection, Install
  <2>2. QED
    BY <2>1, SyncAndRouteHolds
<1>3. CASE Command(v) \/ CommandAt(v) \/ History(v) \/ Transaction(v)
  <2>1. UNCHANGED ime /\ \E o, follows : Follow(v, o, follows)
    BY <1>3 DEF Command, CommandAt, History, Transaction
  <2>2. QED
    BY <2>1, FollowHolds
<1>4. QED
  BY <1>1, <1>2, <1>3

LEMMA PassivePlanHolds ==
  ASSUME ViewInv, NEW v \in Views, PassivePlan(v)
  PROVE  ViewInv'
<1>1. PICK o : /\ Synced(v, o.doc, o.sel) /\ UNCHANGED ime
               /\ LET f == Owner(Surviving(v, o.doc, o.sel, focus))
                  IN focus' = f \/ \E kids, prox : focus' = Routed(v, o.doc, o.sel, kids, prox, f)
  BY DEF PassivePlan, SyncThen
<1>2. CompsInv'
  BY <1>1, SyncedHolds DEF ViewInv
<1>3. IsEntity(focus')
  BY <1>1, SurvivingEntity, RoutedEntity DEF ViewInv
<1>4. QED
  BY <1>2, <1>3 DEF ViewInv

LEMMA ViewStep == ViewInv /\ GoodSession /\ [ViewNext]_vars => ViewInv'
<1> SUFFICES ASSUME ViewInv, GoodSession, [ViewNext]_vars
             PROVE  ViewInv'
  OBVIOUS
<1>1. CASE UNCHANGED <<handler, comps, ime, focus>>
  BY <1>1, QuietViews DEF ViewInv
<1>2. CASE FocusElsewhere
  BY <1>2, QuietViews DEF ViewInv, FocusElsewhere, IsEntity, Elsewhere
<1>3. CASE Draw
  BY <1>3, DrawHolds
<1>4. CASE Event
  <2>1. CASE TypeLetter \/ ImeStarts \/ ImeUpdates
    BY <2>1, TypeLetterHolds, ImeStartsHolds, ImeUpdatesHolds
  <2>2. CASE ImeCommits \/ ImeCancels \/ ImeUnmarks \/ WindowUnmarks
    BY <2>2, ImeEndsHolds
  <2>3. CASE HostEdits
    BY <2>3, <1>1 DEF HostEdits, viewVars
  <2>4. CASE \E v \in Views : SelectCells(v) \/ PassivePlan(v)
    BY <2>4, SelectCellsHolds, PassivePlanHolds
  <2>5. QED
    BY <1>2, <1>4, <2>1, <2>2, <2>3, <2>4, ViewEventHolds DEF Event
<1>5. QED
  BY <1>1, <1>3, <1>4 DEF ViewNext, vars, viewVars

LEMMA ViewInit == Init => ViewInv
<1> SUFFICES ASSUME Init
             PROVE  ViewInv
  OBVIOUS
<1>1. PICK v \in Views : focus = Child(v, First)
  BY DEF Init
<1>2. QED
  BY <1>1 DEF Init, ViewInv, CompsInv, CompsHold, IsEntity, Child, Entity, Idle

-----------------------------------------------------------------------------
(* What every step leaves in the session.                                  *)

\* A composed text waits outside the document: those still to be composed, and
\* the one being composed, are nowhere in it.
SessionInv ==
  /\ GoodSession
  /\ \A x \in Preedits : Single(doc, x)
  /\ ime.left \subseteq Preedits /\ \A x \in ime.left : Free(doc, x)
  /\ ime.at = "composing" =>
       \E x \in Preedits \ ime.left : ime.text = <<x>> /\ Free(doc, x)

\* The step leaves a session that has gained nothing but t.
Gained(t) ==
  /\ IsDoc(doc') /\ IsSel(doc', sel')
  /\ Gains(doc, doc', t)
  /\ KeepsHiddenCell(doc, doc')

LEMMA PublishGains ==
  ASSUME NEW o, Publish(o), NEW t, Fits(o, t)
  PROVE  Gained(t)
BY DEF Publish, Fits, Gained

LEMMA QuietGains ==
  ASSUME GoodSession, UNCHANGED <<doc, sel>>, NEW t
  PROVE  Gained(t)
<1>1. Fits(Outcome(doc, sel), t)
  BY SelectFits DEF GoodSession
<1>2. QED
  BY <1>1 DEF Fits, Gained, Outcome

LEMMA CommitGains ==
  ASSUME GoodSession, CompsHold(comps, handler), NEW t, Short(t), Commit(handler, t)
  PROVE  Gained(t)
<1>1. PICK c \in Composition(handler) :
        LET ranges == CommitRange(handler, c)
        IN IF ranges = {} \/ InputHidden(handler) THEN Publish(Refused)
           ELSE \E r \in ranges : \E o \in {Composed(r[1], r[2], t), Refused} : Publish(o)
  BY DEF Commit
<1>2. Fits(Refused, t)
  BY RefusedFits
<1>3. CASE Publish(Refused)
  BY <1>2, <1>3, PublishGains
<1>4. ASSUME NEW r \in CommitRange(handler, c), ~InputHidden(handler),
             Publish(Composed(r[1], r[2], t))
      PROVE  Gained(t)
  <2>1. c.lo \in Nat /\ c.hi \in Nat /\ c.lo <= c.hi
    BY OnlyComposition DEF CompsHold, IsComposition
  <2>2. r = <<0, 0>> \/ r = <<c.lo, c.hi>>
    BY <1>4 DEF CommitRange
  <2>3. r[1] \in Nat /\ r[2] \in Nat /\ r[1] <= r[2]
    BY <2>1, <2>2
  <2>4. ~HiddenEndpoint(doc, sel)
    BY <1>4 DEF InputHidden
  <2>5. Fits(Composed(r[1], r[2], t), t)
    BY <2>3, <2>4, ComposedFits
  <2>6. QED
    BY <1>4, <2>5, PublishGains
<1>5. QED
  BY <1>1, <1>3, <1>4

LEMMA TypeGains ==
  ASSUME GoodSession, NEW e, NEW range \in NativeRanges, NEW t, Short(t),
         ~InputHidden(e), TypeAt(e, range, t)
  PROVE  Gained(t)
<1> DEFINE point(n) == At(e.node, n)
<1>1. Fits(Refused, t)
  BY RefusedFits
<1>2. CASE Publish(Refused)
  BY <1>1, <1>2, PublishGains
<1>3. IsSel(doc, sel) /\ ~HiddenEndpoint(doc, sel)
  BY DEF GoodSession, InputHidden
<1>4. CASE Publish(Typed(sel, t))
  BY <1>3, <1>4, TypedFits, PublishGains
<1>5. ASSUME NEW r \in InputRange(e, range), e.part # "proxy",
             Publish(Typed(Inline(point(r[1]), point(r[2])), t))
      PROVE  Gained(t)
  <2> DEFINE s == Inline(point(r[1]), point(r[2]))
  <2>1. /\ r[1] \in Nat /\ r[2] \in Nat /\ r[1] <= r[2]
        /\ SameNode(sel) /\ sel.anchor.node = e.node /\ r[2] <= Len(doc.text[e.node])
    BY <1>5, NativeRange
  <2>2. /\ s.kind = "inline" /\ s.anchor.node = e.node /\ s.focus.node = e.node
        /\ s.anchor.off = r[1] /\ s.focus.off = r[2]
    BY DEF Inline, At
  <2>3. e.node \in Blocks(doc) /\ Len(doc.text[e.node]) \in Nat
    BY <1>3, <2>1, RangeOfSelection, LenProperties DEF GoodSession
  <2> HIDE DEF s
  <2>4. IsSel(doc, s)
    BY <2>1, <2>2, <2>3 DEF IsSel, IsPoint, Offsets
  <2>5. ~HiddenEndpoint(doc, s)
    BY <1>3, <2>1, <2>2 DEF HiddenEndpoint, SameNode
  <2>6. Fits(Typed(s, t), t)
    BY <2>4, <2>5, TypedFits
  <2>7. QED
    BY <1>5, <2>6, PublishGains DEF s
<1>6. QED
  BY <1>2, <1>4, <1>5 DEF TypeAt

LEMMA ReplaceTextGains ==
  ASSUME GoodSession, CompsHold(comps, handler), NEW range \in NativeRanges,
         NEW t, Short(t), ReplaceText(handler, range, t)
  PROVE  Gained(t)
<1>1. CASE Ignore \/ Cancel(handler)
  BY <1>1, QuietGains DEF Ignore, Cancel, QuietNative
<1>2. CASE Commit(handler, t)
  BY <1>2, CommitGains
<1>3. CASE ~InputHidden(handler) /\ TypeAt(handler, range, t)
  BY <1>3, TypeGains
<1>4. QED
  BY <1>1, <1>2, <1>3 DEF ReplaceText

LEMMA UnmarkGains ==
  ASSUME GoodSession, CompsHold(comps, handler), NEW t, Short(t),
         \A c \in comps : c.text = t, Unmark(handler)
  PROVE  Gained(t)
<1>1. CASE Ignore \/ Cancel(handler)
  BY <1>1, QuietGains DEF Ignore, Cancel, QuietNative
<1>2. CASE \E c \in Composition(handler) : Commit(handler, c.text)
  BY <1>2, OnlyComposition, CommitGains
<1>3. QED
  BY <1>1, <1>2 DEF Unmark

\* Marking composes beside the document.
LEMMA MarkIsQuiet ==
  ASSUME NEW e, NEW range, NEW t, Mark(e, range, t)
  PROVE  UNCHANGED <<doc, sel>>
BY DEF Mark, Ignore, Cancel, BeginOrUpdate, QuietNative

-----------------------------------------------------------------------------
(* The views' commands.                                                    *)

LEMMA SelectionsFit ==
  ASSUME GoodSession, NEW s \in Selections(doc)
  PROVE  IsSel(doc, s)
<1>1. CASE s \in Carets(doc)
  <2>1. PICK n \in Blocks(doc) : s = Caret(n, 0)
    BY <1>1 DEF Carets
  <2>2. Len(doc.text[n]) \in Nat
    BY LenProperties DEF GoodSession, IsDoc
  <2>3. QED
    BY <2>1, <2>2 DEF IsSel, IsPoint, Offsets, Caret, Inline, At
<1>2. CASE s \in {All, NodeSelection}
  BY <1>2 DEF IsSel, All, NodeSelection, Whole
<1>3. CASE s = CellRange /\ doc.grid # None
  BY <1>3 DEF IsSel, CellRange, Whole
<1>4. QED
  BY <1>1, <1>2, <1>3 DEF Selections

LEMMA MovesFit ==
  ASSUME GoodSession, NEW n \in Blocks(doc), NEW off \in {0, Len(doc.text[n])}, NEW extend
  PROVE  IsSel(doc, MovedTo(n, off, extend))
<1>1. off \in Offsets(doc, n)
  <2>1. Len(doc.text[n]) \in Nat
    BY LenProperties DEF GoodSession, IsDoc
  <2>2. QED
    BY <2>1 DEF Offsets
<1>2. CASE extend /\ sel.kind = "inline" /\ sel.anchor.node = n
  BY <1>1, <1>2 DEF MovedTo, GoodSession, IsSel, IsPoint, Inline, At
<1>3. CASE ~(extend /\ sel.kind = "inline" /\ sel.anchor.node = n)
  BY <1>1, <1>3 DEF MovedTo, IsSel, IsPoint, Caret, Inline, At
<1>4. QED
  BY <1>2, <1>3

LEMMA PublishedSelection ==
  ASSUME GoodSession, NEW s, IsSel(doc, s), Publish(Outcome(doc, s)), NEW t
  PROVE  Gained(t)
BY SelectFits, PublishGains

LEMMA ViewEventGains ==
  ASSUME GoodSession, NEW v \in Views,
         \/ MouseDown(v) \/ SelectCells(v) \/ SelectNode(v) \/ RouteSelection(v)
         \/ NavigateNode(v) \/ LeaveCells(v) \/ Navigate(v) \/ Command(v) \/ CommandAt(v)
         \/ History(v) \/ Transaction(v) \/ PassivePlan(v) \/ FocusSelection(v)
  PROVE  Gained(<<>>)
<1>1. CASE MouseDown(v) \/ Navigate(v)
  <2>1. PICK n \in Blocks(doc), extend \in BOOLEAN : \E off \in {0, Len(doc.text[n])} :
          Publish(Outcome(doc, MovedTo(n, off, extend)))
    BY <1>1 DEF MouseDown, Navigate, Select, Buildable
  <2>2. QED
    BY <2>1, MovesFit, PublishedSelection
<1>2. CASE SelectNode(v) \/ RouteSelection(v) \/ NavigateNode(v)
  <2>1. PICK s \in Selections(doc) : Publish(Outcome(doc, s))
    BY <1>2 DEF SelectNode, RouteSelection, NavigateNode, Install, Selections
  <2>2. QED
    BY <2>1, SelectionsFit, PublishedSelection
<1>3. CASE SelectCells(v)
  <2>1. CellRange \in Selections(doc) /\ Publish(Outcome(doc, CellRange))
    BY <1>3 DEF SelectCells, Selections
  <2>2. QED
    BY <2>1, SelectionsFit, PublishedSelection
<1>4. CASE LeaveCells(v)
  <2>1. Inner \in Blocks(doc) /\ Publish(Outcome(doc, Caret(Inner, 0)))
    BY <1>4 DEF LeaveCells, Select, GoodSession, IsSel, IsDoc
  <2>2. Caret(Inner, 0) \in Selections(doc)
    BY <2>1 DEF Selections, Carets
  <2>3. QED
    BY <2>1, <2>2, SelectionsFit, PublishedSelection
<1>5. CASE Command(v)
  <2>1. PICK o \in Edited : Publish(o)
    BY <1>5 DEF Command, Follow
  <2>2. ~HiddenEndpoint(doc, sel)
    BY <1>5 DEF Command
  <2>3. Fits(o, <<>>)
    BY <2>2, DeletedFits, RefusedFits, HostFits DEF Edited
  <2>4. QED
    BY <2>1, <2>3, PublishGains
<1>6. CASE CommandAt(v)
  <2>1. PICK s \in Selections(doc) :
          ~HiddenEndpoint(doc, s) /\ \E o \in {Typed(s, <<>>), Outcome(doc, s)} : Publish(o)
    BY <1>6 DEF CommandAt, Follow
  <2>2. IsSel(doc, s)
    BY SelectionsFit
  <2>3. Fits(Typed(s, <<>>), <<>>) /\ Fits(Outcome(doc, s), <<>>)
    BY <2>1, <2>2, ShortTexts, TypedFits, SelectFits
  <2>4. QED
    BY <2>1, <2>3, PublishGains
<1>7. CASE History(v) \/ Transaction(v) \/ PassivePlan(v)
  <2>1. PICK o \in HostOutcomes : Publish(o)
    BY <1>7 DEF History, Transaction, PassivePlan, Follow
  <2>2. QED
    BY <2>1, HostFits, PublishGains
<1>8. CASE FocusSelection(v)
  BY <1>8, QuietGains DEF FocusSelection
<1>9. QED
  BY <1>1, <1>2, <1>3, <1>4, <1>5, <1>6, <1>7, <1>8

LEMMA HostEditsGains ==
  ASSUME GoodSession, HostEdits
  PROVE  Gained(<<>>)
<1>1. PICK o \in HostOutcomes \union {Outcome(doc, s) : s \in Selections(doc)} : Publish(o)
  BY DEF HostEdits
<1>2. CASE o \in HostOutcomes
  BY <1>1, <1>2, HostFits, PublishGains
<1>3. CASE \E s \in Selections(doc) : o = Outcome(doc, s)
  BY <1>1, <1>3, SelectionsFit, PublishedSelection
<1>4. QED
  BY <1>1, <1>2, <1>3

-----------------------------------------------------------------------------
(* The invariants of the specification.                                    *)

\* Letters and deletions bring no composed text.
LEMMA PlainStep ==
  ASSUME SessionInv, NEW t \in {<<>>, <<Letter>>}, Gained(t), ime'.left = ime.left,
         ime' = ime \/ ime'.at # "composing"
  PROVE  SessionInv'
<1>1. \A x \in Preedits : ~Holds(t, x)
  BY ViewsAssumption DEF Holds
<1>2. \A x \in Preedits : Single(doc', x)
  BY <1>1 DEF SessionInv, Gained, Gains
<1>3. \A x \in Preedits : Free(doc, x) => Free(doc', x)
  BY <1>1 DEF Gained, Gains
<1>4. ime'.left \subseteq Preedits /\ \A x \in ime'.left : Free(doc', x)
  BY <1>3 DEF SessionInv
<1>5. ime'.at = "composing" =>
        \E x \in Preedits \ ime'.left : ime'.text = <<x>> /\ Free(doc', x)
  BY <1>3 DEF SessionInv
<1>6. QED
  BY <1>2, <1>4, <1>5 DEF SessionInv, GoodSession, Gained

\* The text the method composes may enter as the composition ends.
LEMMA ComposedStep ==
  ASSUME SessionInv, ime.at = "composing", Gained(ime.text),
         ime'.left = ime.left, ime'.at # "composing"
  PROVE  SessionInv'
<1>1. PICK p \in Preedits \ ime.left : ime.text = <<p>> /\ Free(doc, p)
  BY DEF SessionInv
<1>2. \A x \in Preedits \ {p} : ~Holds(ime.text, x)
  BY <1>1 DEF Holds
<1>3. \A x \in Preedits : Single(doc', x)
  BY <1>1, <1>2 DEF SessionInv, Gained, Gains
<1>4. ime'.left \subseteq Preedits /\ \A x \in ime'.left : Free(doc', x)
  BY <1>1, <1>2 DEF SessionInv, Gained, Gains
<1>5. QED
  BY <1>3, <1>4 DEF SessionInv, GoodSession, Gained

LEMMA ImeGains ==
  ASSUME SessionInv, ViewInv, ime.at = "composing",
         \/ ~TakesText(handler) /\ Ignore
         \/ Mark(handler, None, <<>>) \/ Unmark(handler)
         \/ ReplaceText(handler, None, <<>>) \/ ReplaceText(handler, None, ime.text)
  PROVE  Gained(ime.text) \/ Gained(<<>>)
<1>1. Short(ime.text) /\ Short(<<>>) /\ None \in NativeRanges
  BY ShortTexts DEF SessionInv, NativeRanges
<1>2. /\ GoodSession /\ CompsHold(comps, handler)
      /\ \A c \in comps : c.text = ime.text
  BY DEF SessionInv, ViewInv, CompsInv
<1>3. CASE Ignore
  BY <1>2, <1>3, QuietGains DEF Ignore, QuietNative
<1>4. CASE Mark(handler, None, <<>>)
  BY <1>2, <1>4, MarkIsQuiet, QuietGains
<1>5. CASE Unmark(handler)
  BY <1>1, <1>2, <1>5, UnmarkGains
<1>6. CASE ReplaceText(handler, None, <<>>) \/ ReplaceText(handler, None, ime.text)
  BY <1>1, <1>2, <1>6, ReplaceTextGains
<1>7. QED
  BY <1>3, <1>4, <1>5, <1>6

LEMMA ImeStepHolds ==
  ASSUME SessionInv, ViewInv,
         TypeLetter \/ ImeStarts \/ ImeUpdates \/ ImeCommits \/ ImeCancels \/ ImeUnmarks
           \/ WindowUnmarks
  PROVE  SessionInv' /\ \E t : Gained(t)
<1>1. GoodSession /\ CompsHold(comps, handler)
  BY DEF SessionInv, ViewInv, CompsInv
<1>2. CASE TypeLetter
  <2>1. Gained(<<Letter>>)
    BY <1>1, <1>2, ShortTexts, ReplaceTextGains DEF TypeLetter
  <2>2. UNCHANGED ime
    BY <1>2 DEF TypeLetter
  <2>3. QED
    BY <2>1, <2>2, PlainStep
<1>3. CASE ImeStarts
  <2>1. PICK p \in ime.left, range \in NativeRanges :
          /\ Mark(handler, range, <<p>>)
          /\ ime' = [at |-> "composing", text |-> <<p>>, left |-> ime.left \ {p}]
    BY <1>3 DEF ImeStarts
  <2>2. UNCHANGED <<doc, sel>>
    BY <2>1, MarkIsQuiet
  <2>3. Gained(<<>>)
    BY <1>1, <2>2, QuietGains
  <2>4. /\ ime'.left \subseteq Preedits /\ \A x \in ime'.left : Free(doc', x)
        /\ p \in Preedits \ ime'.left /\ ime'.text = <<p>> /\ Free(doc', p)
    BY <2>1, <2>2 DEF SessionInv
  <2>5. GoodSession' /\ \A x \in Preedits : Single(doc', x)
    BY <2>2 DEF SessionInv, GoodSession
  <2>6. QED
    BY <2>3, <2>4, <2>5 DEF SessionInv
<1>4. CASE ImeUpdates
  <2>1. UNCHANGED <<doc, sel, ime>>
    BY <1>4, MarkIsQuiet DEF ImeUpdates
  <2>2. Gained(<<>>)
    BY <1>1, <2>1, QuietGains
  <2>3. QED
    BY <2>1, <2>2, PlainStep
<1>5. CASE ImeCommits \/ ImeCancels \/ WindowUnmarks
  <2>1. ime.at = "composing" /\ \E at \in {"idle", "unmark"} : \E t : ime' = ImeAt(at, t)
    BY <1>5 DEF ImeCommits, ImeCancels, WindowUnmarks, Ended
  <2>2. ime'.left = ime.left /\ ime'.at # "composing"
    BY <2>1, MethodRests
  <2>3. \/ ~TakesText(handler) /\ Ignore
        \/ Mark(handler, None, <<>>) \/ Unmark(handler)
        \/ ReplaceText(handler, None, <<>>) \/ ReplaceText(handler, None, ime.text)
    BY <1>5 DEF ImeCommits, ImeCancels, WindowUnmarks
  <2>4. Gained(ime.text) \/ Gained(<<>>)
    BY <2>1, <2>3, ImeGains
  <2>5. QED
    BY <2>1, <2>2, <2>4, PlainStep, ComposedStep
<1>6. CASE ImeUnmarks
  <2>1. ime.at = "unmark" /\ ime' = ImeAt("idle", <<>>) /\ (Ignore \/ Unmark(handler))
    BY <1>6 DEF ImeUnmarks
  <2>2. ime'.left = ime.left /\ ime'.at = "idle"
    BY <2>1, MethodRests
  <2>3. comps = {}
    BY <2>1 DEF ViewInv, CompsInv
  <2>4. Gained(<<>>)
    <3>1. CASE Ignore
      BY <1>1, <3>1, QuietGains DEF Ignore, QuietNative
    <3>2. CASE Unmark(handler)
      BY <1>1, <2>3, <3>2, ShortTexts, UnmarkGains
    <3>3. QED
      BY <2>1, <3>1, <3>2
  <2>5. QED
    BY <2>2, <2>4, PlainStep
<1>7. QED
  BY <1>2, <1>3, <1>4, <1>5, <1>6

LEMMA SessionStep ==
  ASSUME SessionInv, ViewInv, [ViewNext]_vars
  PROVE  SessionInv' /\ \E t : Gained(t)
<1>1. GoodSession
  BY DEF SessionInv
<1>2. CASE Gained(<<>>) /\ UNCHANGED ime
  BY <1>2, PlainStep
<1>3. CASE UNCHANGED <<doc, sel, ime>>
  BY <1>1, <1>2, <1>3, QuietGains
<1>4. CASE Event
  <2>1. CASE TypeLetter \/ ImeStarts \/ ImeUpdates \/ ImeCommits \/ ImeCancels \/ ImeUnmarks
               \/ WindowUnmarks
    BY <2>1, ImeStepHolds
  <2>2. CASE HostEdits
    BY <1>1, <1>2, <2>2, HostEditsGains DEF HostEdits
  <2>3. CASE FocusElsewhere
    BY <1>3, <2>3 DEF FocusElsewhere
  <2>4. ASSUME NEW v \in Views,
               \/ MouseDown(v) \/ SelectCells(v) \/ SelectNode(v) \/ RouteSelection(v)
               \/ NavigateNode(v) \/ LeaveCells(v) \/ Navigate(v) \/ Command(v) \/ CommandAt(v)
               \/ History(v) \/ Transaction(v) \/ PassivePlan(v) \/ FocusSelection(v)
        PROVE  Gained(<<>>) /\ UNCHANGED ime
    <3>1. UNCHANGED ime
      BY <2>4 DEF MouseDown, SelectCells, SelectNode, RouteSelection, NavigateNode, LeaveCells,
                  Navigate, Command, CommandAt, History, Transaction, PassivePlan, FocusSelection
    <3>2. QED
      BY <1>1, <2>4, <3>1, ViewEventGains
  <2>5. QED
    BY <1>2, <1>4, <2>1, <2>2, <2>3, <2>4 DEF Event
<1>5. CASE Draw
  BY <1>3, <1>5 DEF Draw
<1>6. CASE UNCHANGED vars
  BY <1>3, <1>6 DEF vars
<1>7. QED
  BY <1>4, <1>5, <1>6 DEF ViewNext

LEMMA SessionInit == Init => SessionInv
<1> SUFFICES ASSUME Init
             PROVE  SessionInv
  OBVIOUS
<1>1. /\ Outcome(doc, sel) \in HostOutcomes /\ ime = Idle
  BY DEF Init, HostOutcomes
<1>2. /\ DOMAIN doc = {"text", "grid"} /\ doc.text \in [Blocks(doc) -> Seq(Content)]
      /\ First \in Blocks(doc) /\ sel = Caret(First, 0)
      /\ doc.grid # None => Inner \in Blocks(doc)
  BY ViewsAssumption DEF Init
<1>3. GoodSession
  <2>1. ASSUME NEW n \in Blocks(doc) PROVE doc.text[n] \in Seq(Item) /\ Len(doc.text[n]) \in Nat
    <3>1. doc.text[n] \in Seq(Content) /\ Content \subseteq Item
      BY <1>2 DEF Item
    <3>2. QED
      BY <3>1, LenProperties
  <2>2. IsDoc(doc)
    BY <1>2, <2>1 DEF IsDoc
  <2>3. 0 \in Offsets(doc, First)
    BY <1>2, <2>1 DEF Offsets
  <2>4. IsSel(doc, sel)
    BY <1>2, <2>3 DEF IsSel, IsPoint, Caret, Inline, At
  <2>5. QED
    BY <2>2, <2>4 DEF GoodSession
<1>4. ASSUME NEW x \in Preedits PROVE Free(doc, x)
  <2>1. ASSUME NEW n \in Blocks(doc), Holds(doc.text[n], x) PROVE FALSE
    <3>1. doc.text[n] \in Seq(Content)
      BY <1>2
    <3>2. x \in Content
      BY <2>1, <3>1 DEF Holds
    <3>3. QED
      BY <3>2, ViewsAssumption
  <2>2. QED
    BY <2>1 DEF Free
<1>5. \A x \in Preedits : Single(doc, x)
  BY <1>4 DEF Free, Single, Holds, Once
<1>6. QED
  BY <1>1, <1>3, <1>4, <1>5 DEF SessionInv, Idle

LEMMA InputHolds == Spec => [](ViewInv /\ SessionInv)
<1>1. Init => ViewInv /\ SessionInv
  BY ViewInit, SessionInit
<1>2. ViewInv /\ SessionInv /\ [ViewNext]_vars => (ViewInv /\ SessionInv)'
  BY ViewStep, SessionStep DEF SessionInv
<1>3. QED
  BY <1>1, <1>2, PTL DEF Spec

\* There is at most one composition in the window, and it is the input
\* handler's, for every interleaving of events and frames.
THEOREM OneCompositionHolds == Spec => []OneComposition
<1>1. ViewInv => OneComposition
  BY DEF ViewInv, CompsInv, CompsHold, OneComposition
<1>2. QED
  BY <1>1, InputHolds, PTL

\* An input method that has ended its composition leaves no view composing.
THEOREM IdleMethodIsQuiet == Spec => []IdleMethodBlocksNoKey
<1>1. ViewInv => IdleMethodBlocksNoKey
  BY DEF ViewInv, CompsInv, IdleMethodBlocksNoKey, FocusedChildComposing, Composition
<1>2. QED
  BY <1>1, InputHolds, PTL

\* A composed text enters the document at most once, whatever the platform
\* commits, unmarks and cancels and however panes and frames interleave.
THEOREM ComposedTextEntersOnce == Spec => []CompositionEntersOnce
<1>1. ASSUME SessionInv, NEW x \in Preedits,
             NEW a \in Occurrences(x), NEW b \in Occurrences(x)
      PROVE  a = b
  <2>1. PICK n, i, m, j : /\ a = <<n, i>> /\ b = <<m, j>> /\ n \in Blocks(doc) /\ m \in Blocks(doc)
                          /\ i \in DOMAIN doc.text[n] /\ j \in DOMAIN doc.text[m]
                          /\ doc.text[n][i] = x /\ doc.text[m][j] = x
    BY DEF Occurrences, OccurrencesIn
  <2>2. Single(doc, x)
    BY <1>1 DEF SessionInv
  <2>3. n = m
    BY <2>1, <2>2 DEF Single, Holds
  <2>4. i = j
    BY <2>1, <2>2, <2>3 DEF Single, Once
  <2>5. QED
    BY <2>1, <2>3, <2>4
<1>2. SessionInv => CompositionEntersOnce
  BY <1>1 DEF CompositionEntersOnce
<1>3. QED
  BY <1>2, InputHolds, PTL

\* While the renderer hides the table, no input, command or pointer event of a
\* view changes the text of its cell: only a document a host installs may.
THEOREM HiddenCellStays == Spec => HiddenCellUntouched
<1> DEFINE CellStays == Hidden(doc) /\ Hidden(doc') => doc'.text[Inner] = doc.text[Inner]
                      \/ \E o \in HostOutcomes : doc' = o.doc
<1>1. ViewInv /\ SessionInv /\ [ViewNext]_vars => [CellStays]_vars
  <2> SUFFICES ASSUME ViewInv, SessionInv, [ViewNext]_vars
               PROVE  CellStays
    OBVIOUS
  <2>1. KeepsHiddenCell(doc, doc')
    BY SessionStep DEF Gained
  <2>2. doc' \in HostDocs => \E o \in HostOutcomes : doc' = o.doc
    <3> DEFINE o == Outcome(doc', Caret(First, 0))
    <3>1. o.doc = doc'
      BY DEF Outcome
    <3>2. doc' \in HostDocs => o \in HostOutcomes
      BY DEF HostOutcomes
    <3>3. QED
      BY <3>1, <3>2
  <2>3. QED
    BY <2>1, <2>2 DEF KeepsHiddenCell
<1>2. QED
  BY <1>1, InputHolds, PTL DEF Spec, HiddenCellUntouched
=============================================================================
