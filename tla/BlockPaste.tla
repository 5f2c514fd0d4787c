----------------------------- MODULE BlockPaste -----------------------------
(***************************************************************************)
(* Copying a selection into a detached slice and pasting a slice           *)
(* (crates/xiaomu-runtime/src/clipboard/projection.rs, fragment.rs;        *)
(* session/paste.rs, paste_hierarchy.rs).                                  *)
(*                                                                         *)
(* A slice is a forest: nodes by the identities they had when copied, its  *)
(* roots, and whether it must be kept whole (closed).  Pasting gives every *)
(* node and atom a new identity.  Tables have planners of their own.       *)
(***************************************************************************)
EXTENDS BlockRanges

Slice(nodes, roots, closed) == [nodes |-> nodes, roots |-> roots, closed |-> closed]
SliceBlocks(slice) ==
  FlattenSeq([i \in DOMAIN slice.roots |-> InlineBlocks(slice.nodes, slice.roots[i])])
ContainsTasks(slice) == \E n \in DOMAIN slice.nodes : slice.nodes[n].kind \in {"TaskList", "TaskItem"}
ContainsAtomic(slice) == \E n \in DOMAIN slice.nodes : slice.nodes[n].content.shape = "atomic"

-----------------------------------------------------------------------------
(* Copying.                                                                *)

\* The letters and atoms between two gaps, anchored from the first.
SlicedInline(c, start, end) ==
  LET kept == SubSeq(c.atoms, AtomsBefore(c, start.offset, start.index) + 1,
                     AtomsBefore(c, end.offset, end.index))
  IN Inline(SubSeq(c.text, start.offset + 1, end.offset), Shifted(kept, -start.offset))

WholeSlice(store, roots, closed) ==
  Slice(Restrict(store, UNION {Subtree(store, r) : r \in Range(roots)}), roots, closed)

\* Everything under the root node; an empty document gives nothing.
SliceOfAll(store) ==
  LET kids == Kids(store[Root])
  IN IF kids = <<>> THEN {} ELSE {WholeSlice(store, kids, TRUE)}

\* Both ends in one block: a part of it, without its containers.
SliceWithin(store, head, tail) ==
  LET node == store[head.node]
      part == SlicedInline(node.content, head, tail)
      block == [node EXCEPT !.content = part]
  IN IF head = tail THEN {}
     ELSE {Slice((head.node :> block) @@ Restrict(store, AtomsOf(part)), <<head.node>>, FALSE)}

EndpointNode(p) == IF "atomic" \in DOMAIN p THEN p.atomic ELSE p.node

\* What a projection of picked leaves keeps: each of them under its containers.
ProjectedNodes(store, picked) ==
  {n \in DOMAIN store \ {Root} : Subtree(store, n) \cap picked # {}}

\* Ends in two leaves: all leaves between them, in the containers that hold
\* one, the first from the head and the last up to the tail.
SliceAcross(store, head, tail) ==
  LET leaves == Leaves(store, Root)
      at(p) == SelectInSeq(leaves, LAMBDA n : n = EndpointNode(p))
      picked == Range(SubSeq(leaves, at(head), at(tail)))
      above == ProjectedNodes(store, picked)
      starts(n) == IF "node" \in DOMAIN head /\ head.node = n THEN head ELSE [offset |-> 0, index |-> 0]
      stops(n) == IF "node" \in DOMAIN tail /\ tail.node = n THEN tail ELSE EndOf(store[n].content)
      pruned(n) ==
        LET c == store[n].content
        IN CASE c.shape = "inline" -> SlicedInline(c, starts(n), stops(n))
             [] c.shape = "children" -> Children(SelectSeq(c.kids, LAMBDA k : k \in above))
             [] OTHER -> c
      nodes == <<>> @@ [n \in above |-> [store[n] EXCEPT !.content = pruned(n)]]
      atoms == UNION {AtomsOf(nodes[n].content) : n \in {n \in above : nodes[n].content.shape = "inline"}}
  IN {Slice(nodes @@ Restrict(store, atoms), SelectSeq(Kids(store[Root]), LAMBDA k : k \in above), FALSE)}

-----------------------------------------------------------------------------
(* Pasting flat blocks and whole atomic blocks.                            *)

\* The document pasted into, the steps that got there, and the gaps replaced:
\* a selection over several blocks is deleted first.
PasteTargets(w, head, tail) ==
  IF head.node = tail.node THEN {[w |-> w, steps |-> <<>>, start |-> head, end |-> tail]}
  ELSE LET steps == CrossDeletionSteps(w.store, head, tail)
       IN {[w |-> r, steps |-> steps, start |-> head, end |-> head] : r \in Transact(w, steps)}

\* Atoms at the start of the slice go behind those before the gap.
PastedAtomStep(start, nodes, source, i) ==
  LET p == source.atoms[i]
      atom == nodes[p.atom]
      index == (IF p.offset = 0 THEN start.index ELSE 0) + Ordinal(source, i)
  IN InsertInlineAtomStep(InlinePoint(start.node, start.offset + p.offset, index),
                          atom.kind, atom.attrs, atom.content.marks)
PastedAtomSteps(start, nodes, source) ==
  [i \in DOMAIN source.atoms |-> PastedAtomStep(start, nodes, source, i)]

SingleBlockSteps(store, start, end, nodes, source) ==
  LET len == Len(source.text)
  IN RemoveAtoms(AtomsInsideSpan(store[start.node].content, start, end))
       \o <<ReplaceInlineTextStep(start, end.offset, LettersOf(source, 0, len))>>
       \o PushRunMarks(start.node, start.offset, source, 0, len)
       \o PastedAtomSteps(start, nodes, source)

\* The first block's text ends the target, the last takes what followed.
MultipleBlockSteps(store, start, end, blocks) ==
  LET target == store[start.node].content
      parent == ParentOf(store, start.node)
      position == Place(store, start.node)
      n == Len(blocks)
      first == Head(blocks).content
      last == [Last(blocks) EXCEPT !.content.text =
                 @ \o SubSeq(target.text, end.offset + 1, Len(target.text))]
  IN <<ReplaceTextStep(start.node, start.offset, Len(target.text), LettersOf(first, 0, Len(first.text)))>>
       \o PushRunMarks(start.node, start.offset, first, 0, Len(first.text))
       \o [i \in 1..(n - 2) |-> InsertNodeStep(parent, position + i, blocks[i + 1])]
       \o <<InsertNodeStep(parent, position + n - 1, last)>>

PlanFlatPaste(w, head, tail, slice) ==
  LET ids == SliceBlocks(slice)
      blocks == [i \in DOMAIN ids |-> slice.nodes[ids[i]]]
      source == Head(blocks).content
      steps(t) == IF Len(blocks) = 1 THEN SingleBlockSteps(t.w.store, t.start, t.end, slice.nodes, source)
                  ELSE MultipleBlockSteps(t.w.store, t.start, t.end, blocks)
      done == UNION {Transact(w, t.steps \o steps(t)) : t \in PasteTargets(w, head, tail)}
  IN CASE Len(blocks) = 1 /\ source = EmptyInline /\ head = tail -> NoChange
       [] Len(blocks) > 1 /\ (\E i \in DOMAIN blocks : blocks[i].content.atoms # <<>>) -> Refused
       [] OTHER -> Staged(done, IF Len(blocks) = 1 THEN CaretAtText(head.node, head.offset + Len(source.text))
                                   ELSE CaretAtLastInserted(Len(Last(blocks).content.text)))

\* Atomic blocks go behind the caret's block, whatever is selected.
PlanAtomicRootInsertion(w, head, slice) ==
  LET position == Place(w.store, head.node) + 1
      steps == [i \in DOMAIN slice.roots |->
                  InsertNodeStep(ParentOf(w.store, head.node), position + i - 1, slice.nodes[slice.roots[i]])]
  IN Planned(steps, After("MapExisting"))

-----------------------------------------------------------------------------
(* Pasting a hierarchy: the target is split, then every node of the slice  *)
(* and its atoms is a stage of its own, addressed by its path.             *)

\* Mutant: the atoms behind the split stay with the first half.
SplitStagesKeepAtoms(w, split) ==
  LET node == w.store[split.node]
      suffix == [node EXCEPT !.content = Inline(SubSeq(@.text, split.offset + 1, Len(@.text)), <<>>)]
      parent == ParentOf(w.store, split.node)
      place == Place(w.store, split.node) + 1
      truncated(r) == <<ReplaceInlineTextStep(split, Len(node.content.text), <<>>)>>
  IN UNION {Onward(r, truncated(r)) : r \in Onward(w, <<InsertNodeStep(parent, place, suffix)>>)}

\* The text behind the split is written into a block of its own; then its
\* atoms move there, with their identity, and the target is cut.
SplitStages(w, split) ==
  LET node == w.store[split.node]
      c == node.content
      suffix == [node EXCEPT !.content = Inline(SubSeq(@.text, split.offset + 1, Len(@.text)), <<>>)]
      parent == ParentOf(w.store, split.node)
      place == Place(w.store, split.node) + 1
      kept == AtomsBefore(c, split.offset, split.index)
      into(r) == InlinePoint(Kids(r.store[parent])[place + 1], 0, 0)
      migrated(r) ==
        FlattenSeq([i \in 1..(Len(c.atoms) - kept) |-> MovedAtomSteps(w.store, into(r), split, c, kept + i)])
          \o <<ReplaceInlineTextStep(split, Len(c.text), <<>>)>>
  IN UNION {Onward(r, migrated(r)) : r \in Onward(w, <<InsertNodeStep(parent, place, suffix)>>)}

\* The nodes of a slice, each with the way to it: its root, then child indices.
Locations(slice) ==
  LET under[id \in DOMAIN slice.nodes] ==
        LET kids == Kids(slice.nodes[id])
            below(k) == LET ls == under[kids[k]]
                        IN [j \in DOMAIN ls |-> [path |-> <<k>> \o ls[j].path, node |-> ls[j].node]]
        IN <<[path |-> <<>>, node |-> slice.nodes[id]]>> \o FlattenSeq([k \in DOMAIN kids |-> below(k)])
      rooted(i) == LET ls == under[slice.roots[i]]
                   IN [j \in DOMAIN ls |-> [path |-> <<i>> \o ls[j].path, node |-> ls[j].node]]
  IN FlattenSeq([i \in DOMAIN slice.roots |-> rooted(i)])

\* Roots stand behind the target, children where they stood in the slice.
ResolveLocation(store, target, path) ==
  LET root == Kids(store[ParentOf(store, target)])[Place(store, target) + 1 + Head(path)]
  IN FoldLeft(LAMBDA id, k : Kids(store[id])[k], root, Tail(path))
InsertionPoint(store, target, path) ==
  IF Len(path) = 1 THEN NodeGap(ParentOf(store, target), Place(store, target) + Head(path))
  ELSE NodeGap(ResolveLocation(store, target, Front(path)), Last(path) - 1)

BareNode(node) ==
  [node EXCEPT !.content = IF @.shape = "inline" THEN Inline(@.text, <<>>) ELSE Children(<<>>)]
NodeStages(r, target, slice, l) ==
  LET at == InsertionPoint(r.store, target, l.path)
      bare == Onward(r, <<InsertNodeStep(at.parent, at.index, BareNode(l.node))>>)
      leaf(q) == InlinePoint(ResolveLocation(q.store, target, l.path), 0, 0)
  IN IF l.node.content.shape # "inline" \/ l.node.content.atoms = <<>> THEN bare
     ELSE UNION {Onward(q, PastedAtomSteps(leaf(q), slice.nodes, l.node.content)) : q \in bare}

PlanPasteHierarchy(w, head, tail, slice) ==
  LET blocks == SliceBlocks(slice)
      start == {Done(w.store, w.next, <<>>, <<>>)}
      deletion == IF head.node # tail.node THEN CrossDeletionSteps(w.store, head, tail)
                  ELSE TextInputSteps(w, head, tail, <<>>, {})
      cleared == IF head = tail THEN start ELSE UNION {Onward(r, deletion) : r \in start}
      opened == UNION {SplitStages(r, head) : r \in cleared}
      insert(rs, l) == UNION {NodeStages(r, head.node, slice, l) : r \in rs}
  IN Staged(FoldLeft(insert, opened, Locations(slice)),
               CaretAtLastInserted(Len(slice.nodes[Last(blocks)].content.text)))

-----------------------------------------------------------------------------
PlanPasteSlice(w, head, tail, slice) ==
  LET inline == {p \in {head, tail} : "offset" \in DOMAIN p} = {head, tail}
      atomicRoots == \A r \in Range(slice.roots) : slice.nodes[r].content.shape = "atomic"
      hierarchical == \E r \in Range(slice.roots) : slice.nodes[r].content.shape = "children"
  IN IF slice.closed \/ ContainsTasks(slice) THEN Refused
     ELSE IF ContainsAtomic(slice) THEN
            IF atomicRoots /\ "offset" \in DOMAIN head THEN PlanAtomicRootInsertion(w, head, slice) ELSE Refused
     ELSE IF SliceBlocks(slice) = <<>> THEN NoChange
     ELSE IF ~inline THEN Refused
     ELSE IF hierarchical THEN PlanPasteHierarchy(w, head, tail, slice)
     ELSE PlanFlatPaste(w, head, tail, slice)
=============================================================================
