------------------------------ MODULE Reading ------------------------------
(***************************************************************************)
(* Passive reading of a document: text blocks with a source mapping, the   *)
(* order of positions, prefixes and literal search                         *)
(* (crates/xiaomu-runtime/src/reading/).                                   *)
(*                                                                         *)
(* A letter is one scalar and one unit of every offset and budget.  Cursor *)
(* affinity, kind keys, opaque leaves of extensions and allocation failure *)
(* are left out.  A result is a set: empty when the call is refused.       *)
(***************************************************************************)
EXTENDS Navigation

CONSTANTS Samples,          \* documents to read, besides the session's
          ReadingOptions,   \* what atoms emit: [breaks, others], no letter or one
          Cases,            \* functions from letters to what search compares
          Queries, MatchLimits

-----------------------------------------------------------------------------
(* The projection of a block.                                              *)

ReadingSpan(from, to, start, end, kind) ==
  [from |-> from, to |-> to, start |-> start, end |-> end, kind |-> kind]
EmptyReading(node) == [node |-> node, text |-> <<>>, spans |-> <<>>]

AtomText(store, atom, options) ==
  IF store[atom].kind = HardBreak THEN options.breaks ELSE options.others

\* Text behind text grows the last span.
AppendText(block, letters, offset, ordinal) ==
  LET n == Len(block.spans)
      to == Len(block.text) + Len(letters)
      end == InlinePoint(block.node, offset + Len(letters), 0)
      span == ReadingSpan(Len(block.text), to, InlinePoint(block.node, offset, ordinal), end, "Text")
      grown == [block EXCEPT !.text = @ \o letters]
  IN IF n > 0 /\ block.spans[n].kind = "Text"
     THEN [grown EXCEPT !.spans[n].to = to, !.spans[n].end = end]
     ELSE [grown EXCEPT !.spans = Append(@, span)]

AppendAtom(store, block, atom, offset, ordinal, options) ==
  LET text == block.text \o AtomText(store, atom, options)
      span == ReadingSpan(Len(block.text), Len(text), InlinePoint(block.node, offset, ordinal),
                          InlinePoint(block.node, offset, ordinal + 1), "InlineAtom")
  IN [block EXCEPT !.text = text, !.spans = Append(@, span)]

BuildBlock(store, node, options) ==
  LET c == store[node].content
      seam(block, o) ==
        LET atoms == AtomsAt(c, o)
        IN FoldLeft(LAMBDA b, k : AppendAtom(store, b, atoms[k].atom, o, k - 1, options),
                    block, [k \in DOMAIN atoms |-> k])
      at(block, o) ==
        IF o = Len(c.text) THEN seam(block, o)
        ELSE AppendText(seam(block, o), <<c.text[o + 1].letter>>, o, AtomCountAt(c, o))
  IN FoldLeft(at, EmptyReading(node), [i \in 1..(Len(c.text) + 1) |-> i - 1])

\* The blocks in document order, from a stack of nodes to visit.
ReadingBlocks(store, options) ==
  LET visit(s, k) ==
        LET id == Last(s.stack)
            below == Front(s.stack) \o Reverse(Kids(store[id]))
        IN CASE s.stack = <<>> -> s
             [] s.stack # <<>> /\ IsInline(store, id) ->
                  [stack |-> Front(s.stack), blocks |-> Append(s.blocks, BuildBlock(store, id, options))]
             [] OTHER -> [s EXCEPT !.stack = below]
  IN FoldLeft(visit, [stack |-> <<Root>>, blocks |-> <<>>],
              [k \in 1..Cardinality(DOMAIN store) |-> k]).blocks

\* Spans of a block: its atoms and the stretches of text between them.
SpanCapacity(c) ==
  LET cuts == {c.atoms[i].offset : i \in DOMAIN c.atoms} \cup {Len(c.text)}
  IN Len(c.atoms) + Cardinality(cuts \ {0})

\* The budgets are counted before anything is built.
Preflight(store, options, limits) ==
  LET blocks == {id \in DOMAIN store : IsInline(store, id)}
      bytes(id) ==
        CASE IsInline(store, id) -> 2 * Len(store[id].content.text)
          [] store[id].kind \in AtomKinds -> Len(AtomText(store, id, options))
          [] OTHER -> 0
  IN /\ Cardinality(DOMAIN store) <= limits.nodes
     /\ MapThenSumSet(bytes, DOMAIN store) <= limits.bytes
     /\ MapThenSumSet(LAMBDA id : SpanCapacity(store[id].content), blocks) <= limits.spans

-----------------------------------------------------------------------------
(* Boundaries of the projected text and gaps of the source.                *)

Key(p) == <<p.offset, p.index>>
Below(k, l) == k[1] < l[1] \/ (k[1] = l[1] /\ k[2] < l[2])

\* The source gap at a boundary, before or after the atoms that emit nothing.
PointAt(block, offset, side) ==
  LET first == Cardinality({i \in DOMAIN block.spans : block.spans[i].to < offset})
      final == Cardinality({i \in DOMAIN block.spans : block.spans[i].from <= offset})
      chosen == IF side = "BeforeAtoms" THEN {i \in {first + 1} : first < final} ELSE {final} \ {0}
      inside(s) == CASE s.from = s.to -> {IF side = "BeforeAtoms" THEN s.start ELSE s.end}
                     [] s.from # s.to /\ offset = s.from -> {s.start}
                     [] s.from # s.to /\ offset = s.to -> {s.end}
                     [] OTHER -> {InlinePoint(block.node, s.start.offset + offset - s.from, 0) :
                                    k \in {s.kind} \cap {"Text"}}
  IN IF chosen = {} THEN {InlinePoint(block.node, 0, 0)}
     ELSE UNION {inside(block.spans[i]) : i \in chosen}

ProjectedOffset(block, p) ==
  LET ahead == {i \in DOMAIN block.spans : Below(Key(block.spans[i].end), Key(p))}
      n == Cardinality(ahead) + 1
      s == block.spans[n]
  IN CASE block.spans = <<>> -> {0 : k \in {Key(p)} \cap {<<0, 0>>}}
       [] block.spans # <<>> /\ n \notin DOMAIN block.spans -> {}
       [] n \in DOMAIN block.spans /\ Key(p) = Key(s.start) -> {s.from}
       [] n \in DOMAIN block.spans /\ Key(p) # Key(s.start) /\ Key(p) = Key(s.end) -> {s.to}
       [] OTHER -> {o \in {s.from + p.offset - s.start.offset} :
                      s.kind = "Text" /\ p.index = 0 /\ Below(Key(s.start), Key(p))}

\* The letters of the source before a boundary, without what atoms emit.
FragmentsBefore(block, end) ==
  FlattenSeq([i \in DOMAIN block.spans |->
    LET s == block.spans[i]
    IN IF s.kind = "Text" /\ s.from < end THEN SubSeq(block.text, s.from + 1, Min({s.to, end})) ELSE <<>>])

-----------------------------------------------------------------------------
(* The order of positions: slots and events from a stack of nodes, gaps    *)
(* and ends of containers.                                                 *)

PositionIndex(store) ==
  LET node(id) == [visit |-> "node", at |-> id]
      gap(g) == [visit |-> "gap", at |-> g]
      leave(id) == [visit |-> "leave", at |-> id]
      pushed(id) ==
        LET kids == Kids(store[id])
            n == Len(kids)
            child(i) == <<node(kids[n + 1 - i])>> \o (IF i < n THEN <<gap(NodeGap(id, n - i))>> ELSE <<>>)
        IN <<leave(id), gap(NodeGap(id, n))>> \o FlattenSeq([i \in 1..n |-> child(i)])
      entered(s, id) ==
        CASE store[id].content.shape = "children" ->
               [s EXCEPT !.stack = Front(@) \o pushed(id), !.slot = @ + 1,
                         !.nodes = (id :> s.slot) @@ @,
                         !.gaps = IF Kids(store[id]) = <<>> THEN @ ELSE (NodeGap(id, 0) :> s.slot) @@ @,
                         !.events = Append(@, <<"EnterContainer", id>>)]
          [] OTHER ->
               [s EXCEPT !.stack = Front(@), !.slot = @ + 1, !.nodes = (id :> s.slot) @@ @,
                         !.events = Append(@, <<IF IsInline(store, id) THEN "TextBlock" ELSE "AtomicBlock", id>>)]
      visit(s, k) ==
        LET top == Last(s.stack)
        IN CASE s.stack = <<>> -> s
             [] s.stack # <<>> /\ top.visit = "leave" ->
                  [s EXCEPT !.stack = Front(@), !.events = Append(@, <<"LeaveContainer", top.at>>)]
             [] s.stack # <<>> /\ top.visit = "gap" ->
                  [s EXCEPT !.stack = Front(@), !.slot = @ + 1, !.gaps = (top.at :> s.slot) @@ @]
             [] OTHER -> entered(s, top.at)
  IN FoldLeft(visit, [stack |-> <<node(Root)>>, slot |-> 0, nodes |-> <<>>, gaps |-> <<>>, events |-> <<>>],
              [k \in 1..(3 * Cardinality(DOMAIN store)) |-> k])

PositionSlot(index, p) ==
  CASE IsInlineAt(p) -> index.nodes[p.node]
    [] IsGap(p) -> index.gaps[p]
    [] IsAtomicAt(p) -> index.nodes[p.atomic]

\* The text of the blocks that have begun at a position.
Prefix(index, blocks, p) ==
  LET count == Cardinality({b \in DOMAIN blocks : index.nodes[blocks[b].node] <= PositionSlot(index, p)})
      end(block) == IF IsInlineAt(p) /\ p.node = block.node
                    THEN CHOOSE o \in ProjectedOffset(block, p) : TRUE ELSE Len(block.text)
  IN [b \in 1..count |-> FragmentsBefore(blocks[b], end(blocks[b]))]

-----------------------------------------------------------------------------
(* Literal search: one pass with the failure function of the query.        *)

\* How much of the pattern ends with this letter, when matched letters of it
\* ended before.
Advance(pattern, failure, matched, letter) ==
  LET back[m \in 0..Len(failure)] ==
        IF m = 0 \/ pattern[m + 1] = letter THEN m ELSE back[failure[m]]
      m == back[matched]
  IN IF pattern[m + 1] = letter THEN m + 1 ELSE m
Failure(pattern) ==
  FoldLeft(LAMBDA f, i : Append(f, Advance(pattern, f, f[i - 1], pattern[i])),
           <<0>>, [i \in 1..(Len(pattern) - 1) |-> i + 1])

\* Mutant: a match may begin inside the one before it.
ScanOverlapping(pattern, failure, letters) ==
  LET n == Len(pattern)
      read(s, i) ==
        LET ring == [s.ring EXCEPT ![i % n] = i - 1]
            matched == Advance(pattern, failure, s.matched, letters[i])
        IN IF matched < n THEN [s EXCEPT !.ring = ring, !.matched = matched]
           ELSE [ring |-> ring, matched |-> failure[n],
                 found |-> Append(s.found, [from |-> ring[(i + 1 - n) % n], to |-> i])]
  IN FoldLeft(read, [ring |-> [k \in 0..(n - 1) |-> 0], matched |-> 0, found |-> <<>>],
              [i \in DOMAIN letters |-> i]).found

\* The boundaries of the last letters are kept in a ring as long as the query.
Scan(pattern, failure, letters) ==
  LET n == Len(pattern)
      read(s, i) ==
        LET ring == [s.ring EXCEPT ![i % n] = i - 1]
            matched == Advance(pattern, failure, s.matched, letters[i])
        IN IF matched < n THEN [s EXCEPT !.ring = ring, !.matched = matched]
           ELSE [ring |-> ring, matched |-> 0,
                 found |-> Append(s.found, [from |-> ring[(i + 1 - n) % n], to |-> i])]
  IN FoldLeft(read, [ring |-> [k \in 0..(n - 1) |-> 0], matched |-> 0, found |-> <<>>],
              [i \in DOMAIN letters |-> i]).found

SourceMatch(block, range) ==
  LET start == CHOOSE p \in PointAt(block, range.from, "AfterAtoms") : TRUE
      end == CHOOSE p \in PointAt(block, range.to, "BeforeAtoms") : TRUE
      first == Cardinality({i \in DOMAIN block.spans : block.spans[i].to < range.from})
      near == {i \in DOMAIN block.spans : i > first /\ block.spans[i].from <= range.to}
      between(s) == s.kind = "InlineAtom" /\ ~Below(Key(s.start), Key(start)) /\ ~Below(Key(end), Key(s.end))
  IN [from |-> range.from, to |-> range.to, start |-> start, end |-> end,
      atoms |-> \E i \in near : between(block.spans[i])]

FindLiteral(blocks, query, key, limits) ==
  LET pattern == [i \in DOMAIN query |-> key[query[i]]]
      failure == Failure(pattern)
      ranges(block) == Scan(pattern, failure, [i \in DOMAIN block.text |-> key[block.text[i]]])
      matches(block) == LET found == ranges(block)
                        IN [i \in DOMAIN found |-> SourceMatch(block, found[i])]
      all == FlattenSeq([b \in DOMAIN blocks |-> matches(blocks[b])])
  IN CASE Len(query) > limits.query -> {}
       [] query = <<>> -> {<<>>}
       [] OTHER -> {m \in {all} : Len(m) <= limits.matches}

-----------------------------------------------------------------------------
(* What reading is for, told without spans, stacks or failure functions.   *)

\* The units of a block: its letters, and what its atoms emit.
Emitted(store, c, options) ==
  FlattenSeq([i \in 1..(Len(c.text) + 1) |->
    LET seam == AtomsAt(c, i - 1)
    IN FlattenSeq([k \in DOMAIN seam |-> AtomText(store, seam[k].atom, options)])
         \o (IF i > Len(c.text) THEN <<>> ELSE <<c.text[i].letter>>)])

\* The units before a gap.
UnitsBefore(store, c, options, p) ==
  LET atoms == SubSeq(c.atoms, 1, AtomsBefore(c, p.offset, p.index))
      loud == SelectSeq(atoms, LAMBDA a : AtomText(store, a.atom, options) # <<>>)
  IN p.offset + Len(loud)

\* A boundary maps to the first or the last gap with as much before it.
BlockMapsBack(store, block, options) ==
  LET c == store[block.node].content
      gaps == GapsOf(store, block.node)
      units == <<>> @@ [p \in gaps |-> UnitsBefore(store, c, options, p)]
      edge(side, same) ==
        {p \in same : \A q \in same : p = q \/ Below(Key(p), Key(q)) = (side = "BeforeAtoms")}
  IN /\ block.text = Emitted(store, c, options)
     /\ Len(block.spans) = SpanCapacity(c)
     /\ \A p \in gaps : ProjectedOffset(block, p) = {units[p]}
     /\ \A p \in gaps : FragmentsBefore(block, units[p]) = LettersOf(c, 0, p.offset)
     /\ \A o \in 0..Len(block.text), side \in {"BeforeAtoms", "AfterAtoms"} :
          PointAt(block, o, side) = edge(side, {p \in gaps : units[p] = o})

\* The first place the query can be read at, then the first one behind it.
Greedy(letters, pattern) ==
  LET n == Len(pattern)
      from[o \in 0..(Len(letters) + n)] ==
        CASE o + n > Len(letters) -> <<>>
          [] o + n <= Len(letters) /\ SubSeq(letters, o + 1, o + n) = pattern -> <<o>> \o from[o + n]
          [] OTHER -> from[o + 1]
  IN from[0]
SearchIsGreedy(store, blocks, query, key) ==
  LET pattern == [i \in DOMAIN query |-> key[query[i]]]
      expected(b) == Greedy([i \in DOMAIN blocks[b].text |-> key[blocks[b].text[i]]], pattern)
      all == FlattenSeq([b \in DOMAIN blocks |->
               LET es == expected(b) IN [k \in DOMAIN es |-> [block |-> b, from |-> es[k]]]])
      right(m, e) ==
        LET c == store[blocks[e.block].node].content
        IN /\ m.from = e.from /\ m.to = e.from + Len(query) /\ m.start.node = blocks[e.block].node
           /\ m.atoms = (AtomsBefore(c, m.start.offset, m.start.index)
                           < AtomsBefore(c, m.end.offset, m.end.index))
      found(limit) == FindLiteral(blocks, query, key, [query |-> 3, matches |-> limit])
  IN IF query = <<>> THEN found(0) = {<<>>}
     ELSE \A limit \in MatchLimits :
            IF Len(query) > 3 \/ Len(all) > limit THEN found(limit) = {}
            ELSE \A m \in found(limit) :
                   Len(m) = Len(all) /\ \A k \in DOMAIN all : right(m[k], all[k])

PositionsOf(store) ==
  InlineGaps(store)
    \cup UNION {{NodeGap(n, i) : i \in 0..Len(Kids(store[n]))} :
                  n \in {n \in DOMAIN store : store[n].content.shape = "children"}}
    \cup {AtomicAt(n) : n \in {n \in DOMAIN store : store[n].content.shape = "atomic"}}

\* Positions are ordered as the session orders a selection; the text before
\* one is the letters of the blocks that stand before it.
PositionsAgree(store, blocks) ==
  LET index == PositionIndex(store)
      slots == Slots(store)
      at(n) == SelectInSeq(index.events, LAMBDA e : e[2] = n)
      over(n) == SelectLastInSeq(index.events, LAMBDA e : e[2] = n)
      letters(p) ==
        [b \in 1..Cardinality({b \in DOMAIN blocks :
                                 SlotOf(slots, AtomicAt(blocks[b].node)) <= SlotOf(slots, p)}) |->
           LET c == store[blocks[b].node].content
           IN LettersOf(c, 0, IF IsInlineAt(p) /\ p.node = blocks[b].node THEN p.offset ELSE Len(c.text))]
  IN /\ \A p \in PositionsOf(store) : /\ PositionSlot(index, p) + 1 = SlotOf(slots, p)
                                      /\ Prefix(index, blocks, p) = letters(p)
     /\ \A n \in DOMAIN store : \A m \in (Subtree(store, n) \ {n}) \cap DOMAIN index.nodes :
          at(n) < at(m) /\ over(m) < over(n)

Budgets(store, blocks, options) ==
  LET units(b) == Len(blocks[b].text) + Len(store[blocks[b].node].content.text)
      exact == [nodes |-> Cardinality(DOMAIN store),
                bytes |-> MapThenSumSet(units, DOMAIN blocks),
                spans |-> MapThenSumSet(LAMBDA b : Len(blocks[b].spans), DOMAIN blocks)]
  IN /\ Preflight(store, options, exact)
     /\ \A budget \in DOMAIN exact : ~Preflight(store, options, [exact EXCEPT ![budget] = @ - 1])

Quietest == CHOOSE o \in ReadingOptions : o.breaks = <<>> /\ o.others = <<>>
Reads(store) ==
  \A options \in ReadingOptions : \A blocks \in {ReadingBlocks(store, options)} :
    /\ [b \in DOMAIN blocks |-> blocks[b].node] = InlineBlocks(store, Root)
    /\ \A b \in DOMAIN blocks : BlockMapsBack(store, blocks[b], options)
    /\ options = Quietest => PositionsAgree(store, blocks)
    /\ Budgets(store, blocks, options)
    /\ \A query \in Queries, key \in Cases : SearchIsGreedy(store, blocks, query, key)

\* Whatever a document holds, a gap and its place in the projected text map
\* to each other, the two orders of positions are the same, search finds all
\* and only the occurrences a reader would tick off from the left, and a
\* budget is refused exactly when what is built would exceed it
\* (projection.rs, position.rs, prefix.rs, search.rs).
ReadingIsExact ==
  /\ last.intent.intent = "Open" /\ scene = 1 => \A store \in Samples : Reads(store)
  /\ last.outcome = "changed" \/ last.intent.intent = "Open" => Reads(doc.store)

\* Right from a stop of the caret leads to the next one and Left leads back,
\* through letters, atoms, blocks and atomic blocks, except into a block of
\* atoms alone; a chip is crossed whole, whatever it is rendered as, and a
\* gap and its place in the row map to each other (visual_navigation.rs,
\* navigation.rs, inline_atom_display.rs).
NavigationVisitsEveryStop ==
  /\ last.intent.intent = "Open" /\ scene = 1 => \A store \in Samples : Walks(store)
  /\ last.outcome = "changed" \/ last.intent.intent = "Open" => Walks(doc.store)
=============================================================================
