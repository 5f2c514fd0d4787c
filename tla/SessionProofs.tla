---------------------------- MODULE SessionProofs ----------------------------
(***************************************************************************)
(* The session keeps its types, its selection valid and its history        *)
(* replayable, for every document, plan, policy and option, with the facts *)
(* about transactions and stacks that this rests on.                       *)
(***************************************************************************)
EXTENDS Session, SequenceTheorems, TLAPS

-----------------------------------------------------------------------------
(* Transactions and stacks.                                                *)

(* What is left of a non-empty stack when its newest element is taken.     *)
LEMMA FrontElements ==
  ASSUME NEW S, NEW stack \in Seq(S), stack # <<>>
  PROVE  /\ Len(stack) \in Nat /\ Len(stack) > 0
         /\ Last(stack) = stack[Len(stack)] /\ Last(stack) \in S
         /\ Front(stack) \in Seq(S)
         /\ Len(Front(stack)) = Len(stack) - 1
         /\ \A i \in 1..(Len(stack) - 1) : Front(stack)[i] = stack[i]
<1> DEFINE n == Len(stack)
<1>1. n \in Nat /\ n > 0
  OBVIOUS
<1>2. Last(stack) = stack[n] /\ stack[n] \in S
  BY <1>1 DEF Last
<1>3. \A i \in 1..(n - 1) : stack[i] \in S
  BY <1>1
<1>4. Front(stack) = SubSeq(stack, 1, n - 1)
  BY DEF Front
<1> HIDE DEF n
<1>5. /\ Front(stack) \in Seq(S)
      /\ Len(Front(stack)) = IF 1 <= n - 1 THEN n - 1 - 1 + 1 ELSE 0
      /\ \A i \in 1..(n - 1 - 1 + 1) : Front(stack)[i] = stack[1 + i - 1]
  BY <1>1, <1>3, <1>4, SubSeqProperties
<1>6. Len(Front(stack)) = n - 1
  BY <1>1, <1>5
<1>7. ASSUME NEW i \in 1..(n - 1) PROVE Front(stack)[i] = stack[i]
  <2>1. i \in 1..(n - 1 - 1 + 1) /\ 1 + i - 1 = i
    BY <1>1
  <2>2. QED
    BY <1>5, <2>1
<1>8. QED
  BY <1>1, <1>2, <1>5, <1>6, <1>7 DEF n

(* The edges of a transaction are edges, and its length is a number: the   *)
(* two facts every other lemma starts from.                                *)
LEMMA TransactionElements ==
  ASSUME NEW tx \in Transaction
  PROVE  /\ Len(tx) \in Nat
         /\ \A i \in 1..Len(tx) :
              /\ tx[i] \in Edge
              /\ tx[i].from \in Stores
              /\ tx[i].to \in Stores
<1>1. Len(tx) \in Nat
  BY DEF Transaction
<1>2. ASSUME NEW i \in 1..Len(tx) PROVE tx[i] \in Edge
  BY <1>1 DEF Transaction
<1>3. ASSUME NEW e \in Edge PROVE e.from \in Stores /\ e.to \in Stores
  BY DEF Edge
<1>4. QED
  BY <1>1, <1>2, <1>3

(* The inverse of a transaction is a transaction of the same length, with  *)
(* every edge turned round (transaction/mod.rs, the flattened inverse).    *)
LEMMA InverseElements ==
  ASSUME NEW tx \in Transaction
  PROVE  /\ InverseOf(tx) \in Transaction
         /\ Len(InverseOf(tx)) = Len(tx)
         /\ \A i \in 1..Len(tx) :
              /\ InverseOf(tx)[i].from = tx[Len(tx) + 1 - i].to
              /\ InverseOf(tx)[i].to = tx[Len(tx) + 1 - i].from
<1>1. Len(tx) \in Nat
  BY TransactionElements
<1>2. ASSUME NEW i \in 1..Len(tx) PROVE Reversed(tx[Len(tx) + 1 - i]) \in Edge
  <2>1. Len(tx) + 1 - i \in 1..Len(tx)
    BY <1>1
  <2>2. tx[Len(tx) + 1 - i].from \in Stores /\ tx[Len(tx) + 1 - i].to \in Stores
    BY <2>1, TransactionElements
  <2>3. QED
    BY <2>2 DEF Reversed, Edge
<1>3. InverseOf(tx) \in [1..Len(tx) -> Edge]
  BY <1>2 DEF InverseOf
<1>4. InverseOf(tx) \in Transaction /\ Len(InverseOf(tx)) = Len(tx)
  BY <1>1, <1>3 DEF Transaction
<1>5. ASSUME NEW i \in 1..Len(tx)
      PROVE  InverseOf(tx)[i] = Reversed(tx[Len(tx) + 1 - i])
  BY DEF InverseOf
<1>6. ASSUME NEW i \in 1..Len(tx)
      PROVE  /\ InverseOf(tx)[i].from = tx[Len(tx) + 1 - i].to
             /\ InverseOf(tx)[i].to = tx[Len(tx) + 1 - i].from
  <2> DEFINE e == tx[Len(tx) + 1 - i]
  <2>1. Reversed(e).from = e.to /\ Reversed(e).to = e.from
    BY DEF Reversed
  <2>2. InverseOf(tx)[i] = Reversed(e)
    BY <1>5
  <2>3. QED
    BY <2>1, <2>2
<1>7. QED
  BY <1>4, <1>6

(* What an accepted transaction is: a non-empty chain of edges that starts *)
(* at the store, and whose result is where its last edge ends.             *)
LEMMA AcceptedChain ==
  ASSUME NEW tx \in Transaction, NEW s, Accepts(tx, s)
  PROVE  /\ Len(tx) \in Nat
         /\ Len(tx) > 0
         /\ tx[1].from = s
         /\ \A i \in 1..(Len(tx) - 1) : tx[i].to = tx[i + 1].from
         /\ ResultOf(tx) = tx[Len(tx)].to
         /\ ResultOf(tx) \in Stores
         /\ s \in Stores
<1>1. Len(tx) \in Nat /\ tx # <<>>
  BY TransactionElements DEF Accepts
<1>2. Len(tx) > 0
  BY <1>1 DEF Transaction
<1>3. tx[1].from \in Stores /\ tx[Len(tx)].to \in Stores
  BY <1>1, <1>2, TransactionElements
<1>4. QED
  BY <1>1, <1>2, <1>3 DEF Accepts, ResultOf, Last

(* A transaction Core accepts has an inverse Core accepts on its result,   *)
(* and the inverse leads back (ADR 0003, exact inverse undo).              *)
LEMMA InverseReturns ==
  ASSUME NEW tx \in Transaction, NEW s, Accepts(tx, s)
  PROVE  /\ InverseOf(tx) \in Transaction
         /\ Accepts(InverseOf(tx), ResultOf(tx))
         /\ ResultOf(InverseOf(tx)) = s
<1> DEFINE back == InverseOf(tx)
           n == Len(tx)
<1>1. /\ n \in Nat /\ n > 0
      /\ tx[1].from = s
      /\ \A i \in 1..(n - 1) : tx[i].to = tx[i + 1].from
      /\ ResultOf(tx) = tx[n].to
  BY AcceptedChain
<1>2. /\ back \in Transaction
      /\ Len(back) = n
      /\ \A i \in 1..n : back[i].from = tx[n + 1 - i].to /\ back[i].to = tx[n + 1 - i].from
  BY InverseElements
<1> HIDE DEF back, n
<1>3. back # <<>>
  BY <1>1, <1>2 DEF Transaction
<1>4. back[1].from = ResultOf(tx)
  <2>1. 1 \in 1..n /\ n + 1 - 1 = n
    BY <1>1
  <2>2. QED
    BY <1>1, <1>2, <2>1
<1>5. ASSUME NEW i \in 1..(Len(back) - 1) PROVE back[i].to = back[i + 1].from
  <2> DEFINE j == n - i
  <2>1. i \in 1..n /\ i + 1 \in 1..n /\ j \in 1..(n - 1)
    BY <1>1, <1>2
  <2>2. n + 1 - i = j + 1 /\ n + 1 - (i + 1) = j
    BY <1>1, <2>1
  <2>3. back[i].to = tx[j + 1].from /\ back[i + 1].from = tx[j].to
    BY <1>2, <2>1, <2>2
  <2>4. tx[j].to = tx[j + 1].from
    BY <1>1, <2>1
  <2>5. QED
    BY <2>3, <2>4
<1>6. ResultOf(back) = s
  <2>1. n \in 1..n /\ n + 1 - n = 1
    BY <1>1
  <2>2. back[n].to = s
    BY <1>1, <1>2, <2>1
  <2>3. QED
    BY <1>2, <2>2 DEF ResultOf, Last
<1>7. Accepts(back, ResultOf(tx))
  BY <1>3, <1>4, <1>5 DEF Accepts
<1>8. QED
  BY <1>2, <1>6, <1>7 DEF back

(* Replaying one transaction and then another is replaying both in one     *)
(* (history.rs, merge_entries).                                            *)
LEMMA ConcatReplays ==
  ASSUME NEW tx \in Transaction, NEW next \in Transaction, NEW s,
         Accepts(tx, s), Accepts(next, ResultOf(tx))
  PROVE  /\ tx \o next \in Transaction
         /\ Accepts(tx \o next, s)
         /\ ResultOf(tx \o next) = ResultOf(next)
<1> DEFINE both == tx \o next
           m == Len(tx)
           n == Len(next)
<1>1. /\ m \in Nat /\ m > 0 /\ tx[1].from = s
      /\ \A i \in 1..(m - 1) : tx[i].to = tx[i + 1].from
      /\ ResultOf(tx) = tx[m].to
  BY AcceptedChain
<1>2. /\ n \in Nat /\ n > 0 /\ next[1].from = tx[m].to
      /\ \A i \in 1..(n - 1) : next[i].to = next[i + 1].from
      /\ ResultOf(next) = next[n].to
  BY <1>1, AcceptedChain
<1>3. /\ both \in Transaction
      /\ Len(both) = m + n
      /\ \A i \in 1..m : both[i] = tx[i]
      /\ \A i \in 1..n : both[m + i] = next[i]
  BY <1>1, <1>2 DEF Transaction
<1> HIDE DEF both, m, n
<1>4. both # <<>>
  BY <1>1, <1>2, <1>3 DEF Transaction
<1>5. both[1].from = s
  BY <1>1, <1>3
<1>6. ASSUME NEW i \in 1..(Len(both) - 1) PROVE both[i].to = both[i + 1].from
  <2>1. CASE i < m
    <3>1. i \in 1..(m - 1) /\ i \in 1..m /\ i + 1 \in 1..m
      BY <1>1, <2>1
    <3>2. QED
      BY <1>1, <1>3, <3>1
  <2>2. CASE i = m
    <3>1. m \in 1..m /\ 1 \in 1..n
      BY <1>1, <1>2
    <3>2. both[m] = tx[m] /\ both[m + 1] = next[1]
      BY <1>3, <3>1
    <3>3. QED
      BY <1>2, <2>2, <3>2
  <2>3. CASE i > m
    <3> DEFINE k == i - m
    <3>1. k \in 1..(n - 1) /\ k \in 1..n /\ k + 1 \in 1..n
      BY <1>1, <1>2, <1>3, <2>3
    <3>2. i = m + k /\ i + 1 = m + (k + 1)
      BY <1>1, <1>3, <2>3
    <3>3. both[i] = next[k] /\ both[i + 1] = next[k + 1]
      BY <1>3, <3>1, <3>2
    <3>4. next[k].to = next[k + 1].from
      BY <1>2, <3>1
    <3>5. QED
      BY <3>3, <3>4
  <2>4. QED
    BY <1>1, <1>2, <1>3, <2>1, <2>2, <2>3
<1>7. ResultOf(both) = ResultOf(next)
  <2>1. n \in 1..n
    BY <1>2
  <2>2. both[m + n] = next[n]
    BY <1>3, <2>1
  <2>3. QED
    BY <1>2, <1>3, <2>2 DEF ResultOf, Last
<1>8. Accepts(both, s)
  BY <1>4, <1>5, <1>6 DEF Accepts
<1>9. QED
  BY <1>3, <1>7, <1>8 DEF both

-----------------------------------------------------------------------------
(* The typing group.                                                       *)

(* Closing and recording keep the grouping state well formed (history.rs,  *)
(* GroupingState::close and record).                                       *)
LEMMA GroupingTypes ==
  ASSUME NEW g \in GroupingState, NEW group \in Group, NEW time \in Option(Nat)
  PROVE  /\ NewGrouping \in GroupingState
         /\ Closed(g) \in GroupingState
         /\ GroupingAfter(g, group, time) \in GroupingState
<1>1. NewGrouping \in GroupingState
  BY DEF NewGrouping, GroupingState, Option
<1>2. Closed(g) \in GroupingState
  BY DEF Closed, GroupingState, Option
<1>3. [g EXCEPT !.open = TRUE, !.last = None] \in GroupingState
  BY DEF GroupingState, Option
<1>4. ASSUME ClockAccepts(g, time)
      PROVE  [open |-> TRUE, last |-> time, high |-> time] \in GroupingState
  BY <1>4 DEF GroupingState, Option, ClockAccepts
<1>5. QED
  BY <1>1, <1>2, <1>3, <1>4 DEF GroupingAfter

(* Merging keeps an entry an entry (history.rs, merge_entries).            *)
LEMMA MergeType ==
  ASSUME NEW previous \in HistoryEntry, NEW next \in HistoryEntry,
         Continues(previous, next)
  PROVE  MergeEntries(previous, next) \in HistoryEntry
<1>1. /\ previous.redo \in Transaction /\ previous.undo \in Transaction
      /\ next.redo \in Transaction /\ next.undo \in Transaction
      /\ previous.before \in Selections /\ next.after \in Selections
  BY DEF HistoryEntry
<1>2. previous.group \in TypingGroup /\ next.group \in TypingGroup
  BY DEF HistoryEntry, Continues, Group
<1>3. [previous.group EXCEPT !.end = next.group.end] \in Group
  BY <1>2 DEF TypingGroup, Group
<1>4. /\ previous.redo \o next.redo \in Transaction
      /\ next.undo \o previous.undo \in Transaction
  BY <1>1 DEF Transaction
<1>5. QED
  BY <1>1, <1>3, <1>4 DEF MergeEntries, HistoryEntry

(* Recording yields a stack with at least one entry (history.rs, record).  *)
LEMMA RecordedType ==
  ASSUME NEW stack \in Seq(HistoryEntry), NEW entry \in HistoryEntry, NEW mayMerge
  PROVE  Recorded(stack, entry, mayMerge) \in Seq(HistoryEntry)
<1>1. Append(stack, entry) \in Seq(HistoryEntry)
  OBVIOUS
<1>2. ASSUME stack # <<>>, Continues(Last(stack), entry)
      PROVE  Append(Front(stack), MergeEntries(Last(stack), entry)) \in Seq(HistoryEntry)
  <2>1. Last(stack) \in HistoryEntry /\ Front(stack) \in Seq(HistoryEntry)
    BY <1>2 DEF Last, Front
  <2>2. MergeEntries(Last(stack), entry) \in HistoryEntry
    BY <1>2, <2>1, MergeType
  <2>3. QED
    BY <2>1, <2>2
<1>3. QED
  BY <1>1, <1>2 DEF Recorded

-----------------------------------------------------------------------------
(* Candidates.                                                             *)

Stages == Seq(Plan) \ {<<>>}

(* The edges of a plan sequence form a transaction of the same length.     *)
LEMMA StagesType ==
  ASSUME NEW stages \in Stages
  PROVE  /\ Len(stages) \in Nat
         /\ Len(stages) > 0
         /\ Last(stages) \in Plan
         /\ Last(stages) = stages[Len(stages)]
         /\ TransactionOf(stages) \in Transaction
         /\ Len(TransactionOf(stages)) = Len(stages)
         /\ \A i \in 1..Len(stages) :
              /\ TransactionOf(stages)[i].from = stages[i].from
              /\ TransactionOf(stages)[i].to = stages[i].to
<1>1. Len(stages) \in Nat /\ Len(stages) > 0
  BY DEF Stages
<1>2. Last(stages) \in Plan /\ Last(stages) = stages[Len(stages)]
  BY <1>1 DEF Stages, Last
<1>3. ASSUME NEW i \in 1..Len(stages)
      PROVE  /\ EdgeOf(stages[i]) \in Edge
             /\ EdgeOf(stages[i]).from = stages[i].from
             /\ EdgeOf(stages[i]).to = stages[i].to
  <2>1. stages[i] \in Plan
    BY <1>1 DEF Stages
  <2>2. QED
    BY <2>1 DEF Plan, EdgeOf, Edge
<1>4. TransactionOf(stages) \in [1..Len(stages) -> Edge]
  BY <1>3 DEF TransactionOf
<1>5. TransactionOf(stages) \in Transaction /\ Len(TransactionOf(stages)) = Len(stages)
  BY <1>1, <1>4 DEF Transaction
<1>6. ASSUME NEW i \in 1..Len(stages)
      PROVE  TransactionOf(stages)[i] = EdgeOf(stages[i])
  BY DEF TransactionOf
<1>7. ASSUME NEW i \in 1..Len(stages)
      PROVE  /\ TransactionOf(stages)[i].from = stages[i].from
             /\ TransactionOf(stages)[i].to = stages[i].to
  <2>1. TransactionOf(stages)[i] = EdgeOf(stages[i])
    BY <1>6
  <2>2. QED
    BY <1>3, <2>1
<1>8. QED
  BY <1>1, <1>2, <1>5, <1>7

(* What a policy leaves of an edit still applies to the live document, and *)
(* its selection to the amended one (finalization.rs, finalize_candidate). *)
LEMMA FinalApplies ==
  ASSUME NEW stages \in Stages, NEW pending, NEW final \in Finalizations(stages, pending),
         Applies(stages)
  PROVE  final \in Stages /\ Applies(final)
<1>1. CASE final = stages
  BY <1>1
<1>2. ASSUME NEW a \in Amendments, Amends(a, stages, pending), final = Append(stages, a)
      PROVE  final \in Stages /\ Applies(final)
  <2> DEFINE n == Len(stages)
             tx == TransactionOf(stages)
             more == TransactionOf(final)
  <2>1. a \in Plan
    BY PlanAssumption
  <2>2. n \in Nat /\ n > 0
    BY StagesType
  <2>3. /\ final \in Stages
        /\ Len(final) = n + 1
        /\ \A i \in 1..n : final[i] = stages[i]
        /\ final[n + 1] = a
    BY <1>2, <2>1, <2>2 DEF Stages
  <2>4. /\ Len(tx) = n /\ tx \in Transaction /\ Last(stages) = stages[n]
        /\ \A i \in 1..n : tx[i].from = stages[i].from /\ tx[i].to = stages[i].to
    BY StagesType
  <2>5. /\ Len(more) = n + 1 /\ more \in Transaction /\ Last(final) = final[n + 1]
        /\ \A i \in 1..(n + 1) : more[i].from = final[i].from /\ more[i].to = final[i].to
    BY <2>3, StagesType
  <2>6. /\ tx[1].from = store
        /\ \A i \in 1..(n - 1) : tx[i].to = tx[i + 1].from
    BY <2>4, AcceptedChain DEF Applies
  <2> HIDE DEF n, tx, more
  <2>7. more # <<>>
    BY <2>2, <2>5 DEF Transaction
  <2>8. more[1].from = store
    BY <2>2, <2>3, <2>4, <2>5, <2>6
  <2>9. ASSUME NEW i \in 1..(Len(more) - 1) PROVE more[i].to = more[i + 1].from
    <3>1. CASE i = n
      <4>1. a.from = stages[n].to
        BY <1>2, <2>4 DEF Amends
      <4>2. QED
        BY <2>2, <2>3, <2>5, <3>1, <4>1
    <3>2. CASE i # n
      <4>1. i \in 1..(n - 1) /\ i \in 1..n /\ i + 1 \in 1..n /\ i \in 1..(n + 1) /\ i + 1 \in 1..(n + 1)
        BY <2>2, <2>5, <3>2
      <4>2. more[i].to = tx[i].to /\ more[i + 1].from = tx[i + 1].from
        BY <2>3, <2>4, <2>5, <4>1
      <4>3. QED
        BY <2>6, <4>1, <4>2
    <3>3. QED
      BY <3>1, <3>2
  <2>10. Accepts(more, store)
    BY <2>7, <2>8, <2>9 DEF Accepts
  <2>11. Last(final).after \in ValidAt[Last(final).to]
    BY <1>2, <2>3, <2>5 DEF Amends
  <2>12. QED
    BY <2>3, <2>10, <2>11 DEF Applies, more
<1>3. QED
  BY <1>1, <1>2 DEF Finalizations

(* Every candidate has a later revision than the live document, whatever   *)
(* number of transactions made it (transaction/apply.rs, apply_steps).     *)
LEMMA RevisionGrows ==
  ASSUME TypeOK, NEW final \in Stages
  PROVE  RevisionOf(final) \in Nat /\ RevisionOf(final) > revision
<1>1. Len(final) \in Nat /\ Len(final) > 0
  BY StagesType
<1>2. revision \in Nat
  BY DEF TypeOK
<1>3. QED
  BY <1>1, <1>2 DEF RevisionOf

(* A candidate is well formed (commit.rs, prepare_commit_at).              *)
LEMMA CandidateType ==
  ASSUME TypeOK, NEW final \in Stages, NEW group \in Group
  PROVE  CandidateOf(final, group) \in Candidate
<1> DEFINE tx == TransactionOf(final)
<1>1. tx \in Transaction /\ Last(final) \in Plan
  BY StagesType
<1>2. InverseOf(tx) \in Transaction
  BY <1>1, InverseElements
<1>3. InverseOf(InverseOf(tx)) \in Transaction
  BY <1>2, InverseElements
<1>4. (IF hsb # None THEN hsb ELSE selection) \in Selections
  BY DEF TypeOK, Option
<1>5. Last(final).after \in Selections /\ Last(final).to \in Stores
  BY <1>1 DEF Plan
<1> HIDE DEF tx
<1>6. EntryOf(final, group) \in HistoryEntry
  BY <1>2, <1>3, <1>4, <1>5 DEF EntryOf, HistoryEntry, tx
<1>7. RevisionOf(final) \in Nat
  BY RevisionGrows
<1>8. QED
  BY <1>5, <1>6, <1>7 DEF CandidateOf, Candidate

(* The entry of an applied edit replays in both directions, from the live  *)
(* document to the candidate and back (commit.rs, prepare_commit_at).      *)
LEMMA CandidateReplays ==
  ASSUME TypeOK, SelectionValid, hsb # None => hsb \in ValidAt[store],
         NEW final \in Stages, Applies(final), NEW group \in Group,
         NEW candidate, candidate = CandidateOf(final, group)
  PROVE  /\ EntryReplays(candidate.entry)
         /\ Start(candidate.entry) = store
         /\ Finish(candidate.entry) = candidate.store
         /\ candidate.selection \in ValidAt[candidate.store]
<1> DEFINE tx == TransactionOf(final)
           entry == candidate.entry
<1>1. tx \in Transaction /\ Len(final) \in Nat /\ Len(final) > 0 /\ Len(tx) = Len(final)
  BY StagesType
<1>2. Accepts(tx, store) /\ Last(final).after \in ValidAt[Last(final).to]
  BY DEF Applies
<1>3. ResultOf(tx) = Last(final).to
  <2>1. ResultOf(tx) = tx[Len(final)].to
    BY <1>1, <1>2, AcceptedChain
  <2>2. Len(final) \in 1..Len(final)
    BY <1>1
  <2>3. tx[Len(final)].to = final[Len(final)].to /\ Last(final) = final[Len(final)]
    BY <2>2, StagesType
  <2>4. QED
    BY <2>1, <2>3
<1> HIDE DEF tx
<1>4. /\ InverseOf(tx) \in Transaction
      /\ Accepts(InverseOf(tx), ResultOf(tx))
      /\ ResultOf(InverseOf(tx)) = store
  BY <1>1, <1>2, InverseReturns
<1>5. /\ Accepts(InverseOf(InverseOf(tx)), store)
      /\ ResultOf(InverseOf(InverseOf(tx))) = ResultOf(tx)
  BY <1>4, InverseReturns
<1>6. /\ candidate.store = Last(final).to
      /\ candidate.selection = Last(final).after
      /\ entry.redo = InverseOf(InverseOf(tx))
      /\ entry.undo = InverseOf(tx)
      /\ entry.before = IF hsb # None THEN hsb ELSE selection
      /\ entry.after = Last(final).after
  BY DEF CandidateOf, EntryOf, tx
<1> HIDE DEF entry
<1>7. Start(entry) = store /\ Finish(entry) = ResultOf(tx)
  BY <1>5, <1>6 DEF Start, Finish, Accepts
<1>8. entry.before \in ValidAt[store]
  BY <1>6 DEF SelectionValid
<1>9. EntryReplays(entry)
  BY <1>2, <1>3, <1>4, <1>5, <1>6, <1>7, <1>8 DEF EntryReplays
<1>10. QED
  BY <1>2, <1>3, <1>6, <1>7, <1>9 DEF entry

-----------------------------------------------------------------------------
(* The stacks.                                                             *)

(* An entry that starts at the live document extends the undo chain to     *)
(* where it ends (history.rs, record and push_undo).                       *)
LEMMA UndoPush ==
  ASSUME NEW stack \in Seq(HistoryEntry), NEW entry \in HistoryEntry, NEW s,
         UndoReaches(stack, s), EntryReplays(entry), Start(entry) = s
  PROVE  UndoReaches(Append(stack, entry), Finish(entry))
<1> DEFINE n == Len(stack)
           more == Append(stack, entry)
<1>1. /\ n \in Nat
      /\ Len(more) = n + 1
      /\ \A i \in 1..n : more[i] = stack[i]
      /\ more[n + 1] = entry
      /\ more # <<>>
  OBVIOUS
<1>2. n > 0 => stack # <<>> /\ Last(stack) = stack[n]
  BY <1>1 DEF Last
<1>3. Last(more) = entry
  BY <1>1 DEF Last
<1> HIDE DEF n, more
<1>4. ASSUME NEW i \in 1..Len(more) PROVE EntryReplays(more[i])
  <2>1. CASE i = n + 1
    BY <1>1, <2>1
  <2>2. CASE i # n + 1
    <3>1. i \in 1..n
      BY <1>1, <2>2
    <3>2. EntryReplays(stack[i]) /\ more[i] = stack[i]
      BY <1>1, <3>1 DEF UndoReaches, n
    <3>3. QED
      BY <3>2
  <2>3. QED
    BY <2>1, <2>2
<1>5. ASSUME NEW i \in 1..(Len(more) - 1) PROVE Finish(more[i]) = Start(more[i + 1])
  <2>1. CASE i = n
    <3>1. n > 0 /\ i \in 1..n
      BY <1>1, <2>1
    <3>2. more[i] = stack[n] /\ more[i + 1] = entry
      BY <1>1, <2>1, <3>1
    <3>3. Finish(stack[n]) = s
      BY <1>2, <3>1 DEF UndoReaches
    <3>4. QED
      BY <3>2, <3>3
  <2>2. CASE i # n
    <3>1. i \in 1..(n - 1) /\ i \in 1..n /\ i + 1 \in 1..n
      BY <1>1, <2>2
    <3>2. Finish(stack[i]) = Start(stack[i + 1])
      BY <3>1 DEF UndoReaches, n
    <3>3. more[i] = stack[i] /\ more[i + 1] = stack[i + 1]
      BY <1>1, <3>1
    <3>4. QED
      BY <3>2, <3>3
  <2>3. QED
    BY <2>1, <2>2
<1>6. QED
  BY <1>1, <1>3, <1>4, <1>5 DEF UndoReaches, more

(* Taking the newest undo entry leaves a chain that reaches the document   *)
(* it starts from (history.rs, pop_undo).                                  *)
LEMMA UndoPop ==
  ASSUME NEW stack \in Seq(HistoryEntry), NEW s, UndoReaches(stack, s), stack # <<>>
  PROVE  /\ Last(stack) \in HistoryEntry
         /\ Front(stack) \in Seq(HistoryEntry)
         /\ EntryReplays(Last(stack))
         /\ Finish(Last(stack)) = s
         /\ UndoReaches(Front(stack), Start(Last(stack)))
<1> DEFINE n == Len(stack)
           rest == Front(stack)
<1>1. n \in Nat /\ n > 0 /\ Last(stack) = stack[n]
  BY DEF Last
<1>2. /\ rest \in Seq(HistoryEntry)
      /\ Len(rest) = n - 1
      /\ \A i \in 1..(n - 1) : rest[i] = stack[i]
  BY FrontElements
<1>3. Last(stack) \in HistoryEntry
  BY FrontElements
<1>4. rest # <<>> => Last(rest) = rest[n - 1] /\ n - 1 \in 1..(n - 1)
  BY <1>1, <1>2 DEF Last
<1>5. /\ \A i \in 1..n : EntryReplays(stack[i])
      /\ \A i \in 1..(n - 1) : Finish(stack[i]) = Start(stack[i + 1])
      /\ Finish(Last(stack)) = s
  BY DEF UndoReaches
<1> HIDE DEF n, rest
<1>6. EntryReplays(Last(stack))
  BY <1>1, <1>5
<1>7. \A i \in 1..Len(rest) : EntryReplays(rest[i])
  BY <1>1, <1>2, <1>5
<1>8. ASSUME NEW i \in 1..(Len(rest) - 1) PROVE Finish(rest[i]) = Start(rest[i + 1])
  <2>1. i \in 1..(n - 1) /\ i + 1 \in 1..(n - 1)
    BY <1>1, <1>2
  <2>2. Finish(stack[i]) = Start(stack[i + 1])
    BY <1>5, <2>1
  <2>3. rest[i] = stack[i] /\ rest[i + 1] = stack[i + 1]
    BY <1>2, <2>1
  <2>4. QED
    BY <2>2, <2>3
<1>9. rest # <<>> => Finish(Last(rest)) = Start(Last(stack))
  <2>1. ASSUME rest # <<>> PROVE Finish(rest[n - 1]) = Start(stack[n])
    <3>1. n - 1 \in 1..(n - 1) /\ (n - 1) + 1 = n
      BY <1>1, <1>4, <2>1
    <3>2. Finish(stack[n - 1]) = Start(stack[n])
      BY <1>5, <3>1
    <3>3. rest[n - 1] = stack[n - 1]
      BY <1>2, <3>1
    <3>4. QED
      BY <3>2, <3>3
  <2>2. QED
    BY <1>1, <1>4, <2>1
<1>10. UndoReaches(rest, Start(Last(stack)))
  BY <1>7, <1>8, <1>9 DEF UndoReaches
<1>11. QED
  BY <1>2, <1>3, <1>5, <1>6, <1>10 DEF rest

(* An entry that ends at the live document extends the redo chain to where *)
(* it starts (history.rs, push_redo).                                      *)
LEMMA RedoPush ==
  ASSUME NEW stack \in Seq(HistoryEntry), NEW entry \in HistoryEntry, NEW s,
         RedoReaches(stack, s), EntryReplays(entry), Finish(entry) = s
  PROVE  RedoReaches(Append(stack, entry), Start(entry))
<1> DEFINE n == Len(stack)
           more == Append(stack, entry)
<1>1. /\ n \in Nat
      /\ Len(more) = n + 1
      /\ \A i \in 1..n : more[i] = stack[i]
      /\ more[n + 1] = entry
      /\ more # <<>>
  OBVIOUS
<1>2. n > 0 => stack # <<>> /\ Last(stack) = stack[n]
  BY <1>1 DEF Last
<1>3. Last(more) = entry
  BY <1>1 DEF Last
<1> HIDE DEF n, more
<1>4. ASSUME NEW i \in 1..Len(more) PROVE EntryReplays(more[i])
  <2>1. CASE i = n + 1
    BY <1>1, <2>1
  <2>2. CASE i # n + 1
    <3>1. i \in 1..n
      BY <1>1, <2>2
    <3>2. EntryReplays(stack[i]) /\ more[i] = stack[i]
      BY <1>1, <3>1 DEF RedoReaches, n
    <3>3. QED
      BY <3>2
  <2>3. QED
    BY <2>1, <2>2
<1>5. ASSUME NEW i \in 1..(Len(more) - 1) PROVE Start(more[i]) = Finish(more[i + 1])
  <2>1. CASE i = n
    <3>1. n > 0 /\ i \in 1..n
      BY <1>1, <2>1
    <3>2. more[i] = stack[n] /\ more[i + 1] = entry
      BY <1>1, <2>1, <3>1
    <3>3. Start(stack[n]) = s
      BY <1>2, <3>1 DEF RedoReaches
    <3>4. QED
      BY <3>2, <3>3
  <2>2. CASE i # n
    <3>1. i \in 1..(n - 1) /\ i \in 1..n /\ i + 1 \in 1..n
      BY <1>1, <2>2
    <3>2. Start(stack[i]) = Finish(stack[i + 1])
      BY <3>1 DEF RedoReaches, n
    <3>3. more[i] = stack[i] /\ more[i + 1] = stack[i + 1]
      BY <1>1, <3>1
    <3>4. QED
      BY <3>2, <3>3
  <2>3. QED
    BY <2>1, <2>2
<1>6. QED
  BY <1>1, <1>3, <1>4, <1>5 DEF RedoReaches, more

(* Taking the newest redo entry leaves a chain that reaches the document   *)
(* it ends in (history.rs, pop_redo).                                      *)
LEMMA RedoPop ==
  ASSUME NEW stack \in Seq(HistoryEntry), NEW s, RedoReaches(stack, s), stack # <<>>
  PROVE  /\ Last(stack) \in HistoryEntry
         /\ Front(stack) \in Seq(HistoryEntry)
         /\ EntryReplays(Last(stack))
         /\ Start(Last(stack)) = s
         /\ RedoReaches(Front(stack), Finish(Last(stack)))
<1> DEFINE n == Len(stack)
           rest == Front(stack)
<1>1. n \in Nat /\ n > 0 /\ Last(stack) = stack[n]
  BY DEF Last
<1>2. /\ rest \in Seq(HistoryEntry)
      /\ Len(rest) = n - 1
      /\ \A i \in 1..(n - 1) : rest[i] = stack[i]
  BY FrontElements
<1>3. Last(stack) \in HistoryEntry
  BY FrontElements
<1>4. rest # <<>> => Last(rest) = rest[n - 1] /\ n - 1 \in 1..(n - 1)
  BY <1>1, <1>2 DEF Last
<1>5. /\ \A i \in 1..n : EntryReplays(stack[i])
      /\ \A i \in 1..(n - 1) : Start(stack[i]) = Finish(stack[i + 1])
      /\ Start(Last(stack)) = s
  BY DEF RedoReaches
<1> HIDE DEF n, rest
<1>6. EntryReplays(Last(stack))
  BY <1>1, <1>5
<1>7. \A i \in 1..Len(rest) : EntryReplays(rest[i])
  BY <1>1, <1>2, <1>5
<1>8. ASSUME NEW i \in 1..(Len(rest) - 1) PROVE Start(rest[i]) = Finish(rest[i + 1])
  <2>1. i \in 1..(n - 1) /\ i + 1 \in 1..(n - 1)
    BY <1>1, <1>2
  <2>2. Start(stack[i]) = Finish(stack[i + 1])
    BY <1>5, <2>1
  <2>3. rest[i] = stack[i] /\ rest[i + 1] = stack[i + 1]
    BY <1>2, <2>1
  <2>4. QED
    BY <2>2, <2>3
<1>9. rest # <<>> => Start(Last(rest)) = Finish(Last(stack))
  <2>1. ASSUME rest # <<>> PROVE Start(rest[n - 1]) = Finish(stack[n])
    <3>1. n - 1 \in 1..(n - 1) /\ (n - 1) + 1 = n
      BY <1>1, <1>4, <2>1
    <3>2. Start(stack[n - 1]) = Finish(stack[n])
      BY <1>5, <3>1
    <3>3. rest[n - 1] = stack[n - 1]
      BY <1>2, <3>1
    <3>4. QED
      BY <3>2, <3>3
  <2>2. QED
    BY <1>1, <1>4, <2>1
<1>10. RedoReaches(rest, Finish(Last(stack)))
  BY <1>7, <1>8, <1>9 DEF RedoReaches
<1>11. QED
  BY <1>2, <1>3, <1>5, <1>6, <1>10 DEF rest

(* A merged entry replays from where the older one starts to where the     *)
(* newer one ends (history.rs, merge_entries).                             *)
LEMMA MergedReplays ==
  ASSUME NEW previous \in HistoryEntry, NEW next \in HistoryEntry,
         EntryReplays(previous), EntryReplays(next), Start(next) = Finish(previous)
  PROVE  /\ EntryReplays(MergeEntries(previous, next))
         /\ Start(MergeEntries(previous, next)) = Start(previous)
         /\ Finish(MergeEntries(previous, next)) = Finish(next)
<1> DEFINE both == MergeEntries(previous, next)
<1>1. /\ previous.redo \in Transaction /\ previous.undo \in Transaction
      /\ next.redo \in Transaction /\ next.undo \in Transaction
  BY DEF HistoryEntry
<1>2. /\ both.redo = previous.redo \o next.redo
      /\ both.undo = next.undo \o previous.undo
      /\ both.before = previous.before
      /\ both.after = next.after
  BY DEF MergeEntries
<1>3. /\ Accepts(previous.redo, Start(previous))
      /\ ResultOf(previous.redo) = Finish(previous)
      /\ Accepts(next.redo, Finish(previous))
      /\ ResultOf(next.redo) = Finish(next)
      /\ Accepts(next.undo, Finish(next))
      /\ ResultOf(next.undo) = Finish(previous)
      /\ Accepts(previous.undo, Finish(previous))
      /\ ResultOf(previous.undo) = Start(previous)
  BY DEF EntryReplays, Finish
<1> HIDE DEF both
<1>4. /\ Accepts(both.redo, Start(previous))
      /\ ResultOf(both.redo) = Finish(next)
  BY <1>1, <1>2, <1>3, ConcatReplays
<1>5. /\ Accepts(both.undo, Finish(next))
      /\ ResultOf(both.undo) = Start(previous)
  BY <1>1, <1>2, <1>3, ConcatReplays
<1>6. Start(both) = Start(previous) /\ Finish(both) = Finish(next)
  BY <1>4 DEF Start, Finish, Accepts
<1>7. /\ both.before \in ValidAt[Start(previous)]
      /\ both.after \in ValidAt[Finish(next)]
  BY <1>2 DEF EntryReplays
<1>8. QED
  BY <1>4, <1>5, <1>6, <1>7 DEF EntryReplays, both

(* Recording an edit of the live document, merged or not, leaves a chain   *)
(* that reaches the new document (history.rs, record).                     *)
LEMMA RecordedReplays ==
  ASSUME NEW stack \in Seq(HistoryEntry), NEW entry \in HistoryEntry, NEW mayMerge,
         NEW s, UndoReaches(stack, s), EntryReplays(entry), Start(entry) = s
  PROVE  UndoReaches(Recorded(stack, entry, mayMerge), Finish(entry))
<1>1. UndoReaches(Append(stack, entry), Finish(entry))
  BY UndoPush
<1>2. ASSUME stack # <<>>, Continues(Last(stack), entry)
      PROVE  UndoReaches(Append(Front(stack), MergeEntries(Last(stack), entry)), Finish(entry))
  <2> DEFINE previous == Last(stack)
             both == MergeEntries(previous, entry)
  <2>1. /\ previous \in HistoryEntry
        /\ Front(stack) \in Seq(HistoryEntry)
        /\ EntryReplays(previous)
        /\ Finish(previous) = s
        /\ UndoReaches(Front(stack), Start(previous))
    BY <1>2, UndoPop
  <2> HIDE DEF previous
  <2>2. /\ EntryReplays(both)
        /\ Start(both) = Start(previous)
        /\ Finish(both) = Finish(entry)
    BY <2>1, MergedReplays
  <2>3. both \in HistoryEntry
    BY <1>2, <2>1, MergeType DEF previous
  <2> HIDE DEF both
  <2>4. UndoReaches(Append(Front(stack), both), Finish(both))
    BY <2>1, <2>2, <2>3, UndoPush
  <2>5. QED
    BY <2>2, <2>4 DEF both, previous
<1>3. QED
  BY <1>1, <1>2 DEF Recorded

-----------------------------------------------------------------------------
(* Steps that several actions share.                                       *)

Results == {"None", "DocumentChanged", "SelectionChanged", "NoChange", "Error"}

(* What IInv says of the selection and the targets of a running call.      *)
LEMMA SelectionTypes ==
  ASSUME IInv
  PROVE  /\ selection \in ValidAt[store]
         /\ ValidAt[store] \subseteq Selections
  BY DocumentAssumption DEF IInv, TypeOK, SelectionValid

(* Leaving an operation on an unchanged document, with the stacks as they  *)
(* stood, keeps the invariant (policy.rs, with_transient_rollback).        *)
LEMMA LeaveKeeps ==
  ASSUME IInv, NEW result \in Results, phase \in {"intent", "collapsed", "apply"},
         Leave(result),
         store' = store, revision' = revision, undo' = undo, redo' = redo,
         prepared' = prepared,
         selection' \in ValidAt[store], marks' \in PendingMarks,
         grouping' \in GroupingState, token' \in Option(Token),
         heard' = heard \/ heard' = [heard EXCEPT !.selection = selection']
  PROVE  IInv'
<1>1. /\ phase' = "idle" /\ hsb' = None /\ saved' = None /\ taken' = None
      /\ begun' = None /\ outcome' = result /\ fsb' = saved.fsb
  BY DEF Leave, IInv, CallOK, Running
<1>2. fsb' \in Option(Selections)
  BY <1>1 DEF IInv, CallOK, Running, Transient
<1>3. selection' \in Selections
  BY SelectionTypes
<1>4. heard' \in [store : Stores, revision : Nat, selection : Selections]
  BY <1>3 DEF IInv, TypeOK
<1>5. TypeOK'
  BY <1>1, <1>2, <1>3, <1>4 DEF IInv, TypeOK, Results, Phases, Option
<1>6. SelectionValid'
  BY DEF SelectionValid
<1>7. CallOK'
  BY <1>1 DEF CallOK, Running
<1>8. StacksOK'
  BY <1>1 DEF IInv, StacksOK
<1>9. QED
  BY <1>5, <1>6, <1>7, <1>8 DEF IInv

(* Publishing a candidate of the live document leaves a document whose     *)
(* selection is valid and whose undo chain reaches it (commit.rs,          *)
(* publish_prepared_commit).                                               *)
LEMMA PublishedReplays ==
  ASSUME IInv, phase # "undoing",
         NEW candidate \in Candidate,
         EntryReplays(candidate.entry), Start(candidate.entry) = store,
         Finish(candidate.entry) = candidate.store,
         candidate.selection \in ValidAt[candidate.store],
         NEW g \in GroupingState, NEW time \in Option(Nat), NEW m \in PendingMarks,
         NEW tok \in Option(Token),
         PublishCandidate(candidate, g, time, m, tok)
  PROVE  /\ store' \in Stores /\ revision' \in Nat
         /\ selection' \in Selections /\ selection' \in ValidAt[store']
         /\ undo' \in Seq(HistoryEntry) /\ redo' \in Seq(HistoryEntry)
         /\ grouping' \in GroupingState
         /\ marks' \in PendingMarks /\ token' \in Option(Token)
         /\ heard' \in [store : Stores, revision : Nat, selection : Selections]
         /\ UndoReaches(undo', store')
         /\ RedoReaches(redo', store')
<1> DEFINE entry == candidate.entry
           mayMerge == MayMerge(g, entry.group, time)
<1>1. /\ candidate.store \in Stores /\ candidate.selection \in Selections
      /\ candidate.revision \in Nat
      /\ entry \in HistoryEntry
  BY DEF Candidate
<1>2. entry.group \in Group
  BY <1>1 DEF HistoryEntry
<1> HIDE DEF entry
<1>3. /\ store' = candidate.store /\ revision' = candidate.revision
      /\ selection' = candidate.selection
      /\ redo' = <<>>
      /\ undo' = Recorded(undo, entry, mayMerge)
      /\ grouping' = GroupingAfter(g, entry.group, time)
      /\ marks' = m /\ token' = tok
      /\ heard' = [store |-> store', revision |-> revision', selection |-> selection']
  BY DEF PublishCandidate, entry
<1> HIDE DEF mayMerge
<1>4. undo \in Seq(HistoryEntry) /\ revision \in Nat /\ UndoReaches(undo, store)
  BY DEF IInv, TypeOK, StacksOK
<1>5. undo' \in Seq(HistoryEntry)
  BY <1>1, <1>3, <1>4, RecordedType
<1>6. UndoReaches(Recorded(undo, entry, mayMerge), Finish(entry))
  BY <1>1, <1>4, RecordedReplays DEF entry
<1>7. UndoReaches(undo', store')
  BY <1>3, <1>6 DEF entry
<1>8. RedoReaches(<<>>, store')
  BY DEF RedoReaches
<1>9. grouping' \in GroupingState
  BY <1>2, <1>3, GroupingTypes
<1>10. QED
  BY <1>1, <1>3, <1>4, <1>5, <1>7, <1>8, <1>9

(* An operation that publishes an applied edit keeps the invariant.        *)
LEMMA CommitKeeps ==
  ASSUME IInv, phase \in {"intent", "collapsed", "apply"},
         NEW final \in Stages, Applies(final), NEW group \in Group,
         NEW g \in GroupingState, NEW time \in Option(Nat), NEW m \in PendingMarks,
         NEW tok \in Option(Token),
         Publish(CandidateOf(final, group), g, time, m, tok)
  PROVE  IInv'
<1> DEFINE candidate == CandidateOf(final, group)
<1>1. candidate \in Candidate
  BY CandidateType DEF IInv
<1>2. /\ EntryReplays(candidate.entry)
      /\ Start(candidate.entry) = store
      /\ Finish(candidate.entry) = candidate.store
      /\ candidate.selection \in ValidAt[candidate.store]
  BY CandidateReplays DEF IInv, CallOK
<1> HIDE DEF candidate
<1>3. /\ PublishCandidate(candidate, g, time, m, tok)
      /\ Leave("DocumentChanged")
      /\ prepared' = prepared
  BY DEF Publish, candidate
<1>4. /\ store' \in Stores /\ revision' \in Nat
      /\ selection' \in Selections /\ selection' \in ValidAt[store']
      /\ undo' \in Seq(HistoryEntry) /\ redo' \in Seq(HistoryEntry)
      /\ grouping' \in GroupingState
      /\ marks' \in PendingMarks /\ token' \in Option(Token)
      /\ heard' \in [store : Stores, revision : Nat, selection : Selections]
      /\ UndoReaches(undo', store')
      /\ RedoReaches(redo', store')
  BY <1>1, <1>2, <1>3, PublishedReplays
<1>5. /\ phase' = "idle" /\ hsb' = None /\ saved' = None /\ taken' = None
      /\ begun' = None /\ outcome' = "DocumentChanged" /\ fsb' = saved.fsb
  BY <1>3 DEF Leave, IInv, CallOK, Running
<1>6. fsb' \in Option(Selections)
  BY <1>5 DEF IInv, CallOK, Running, Transient
<1>7. TypeOK'
  BY <1>3, <1>4, <1>5, <1>6 DEF IInv, TypeOK, Phases, Option
<1>8. SelectionValid'
  BY <1>4 DEF SelectionValid
<1>9. CallOK'
  BY <1>5 DEF CallOK, Running
<1>10. StacksOK'
  BY <1>4, <1>5 DEF StacksOK
<1>11. QED
  BY <1>7, <1>8, <1>9, <1>10 DEF IInv

(* The marks a plan overrides are pending marks again (commit.rs).         *)
LEMMA OverrideType ==
  ASSUME NEW pending \in PendingMarks, NEW marksAfter \in PendingMarks \cup {Keep}
  PROVE  Override(marksAfter, pending) \in PendingMarks
  BY DEF Override

(* A single plan is a sequence of stages.                                  *)
LEMMA SingleStage ==
  ASSUME NEW plan \in Plan
  PROVE  <<plan>> \in Stages
  BY DEF Stages

(* The stages a command plans are stages.                                  *)
LEMMA StagedStages ==
  ASSUME NEW stages \in StagedPlans
  PROVE  stages \in Stages
<1>1. Plans \subseteq Plan
  BY PlanAssumption
<1>2. QED
  BY <1>1 DEF StagedPlans, Stages

(* A token a plan offers is well formed (input_rule_undo.rs,               *)
(* prepare_input_rule_undo).                                               *)
LEMMA OfferType ==
  ASSUME TypeOK, NEW final \in Stages, NEW tok \in Offers(final)
  PROVE  tok \in Option(Token)
<1>1. Last(final).after \in Selections
  BY StagesType DEF Plan
<1>2. Reversals \subseteq Plan
  BY PlanAssumption
<1>3. ASSUME NEW r \in Reversals, NEW m \in PendingMarks \cup {Keep}
      PROVE  [reversal |-> r, marks |-> m, revision |-> RevisionOf(final),
              at |-> Last(final).after] \in Token
  BY <1>1, <1>2, RevisionGrows DEF Token
<1>4. QED
  BY <1>3 DEF Offers, Option

(* The end of an intent that committed nothing keeps the invariant         *)
(* (policy.rs, apply_intent_with_selection_inner).                         *)
LEMMA FinishKeeps ==
  ASSUME IInv, phase \in {"intent", "collapsed"},
         NEW s \in ValidAt[store], NEW m \in PendingMarks, NEW g \in GroupingState,
         NEW t \in Option(Token), FinishUnchanged(s, m, g, t)
  PROVE  IInv'
<1>1. Closed(g) \in GroupingState
  BY DEF Closed, GroupingState, Option
<1>2. /\ selection' = s /\ marks' = m
      /\ store' = store /\ revision' = revision /\ undo' = undo /\ redo' = redo
      /\ prepared' = prepared
  BY DEF FinishUnchanged
<1>3. CASE s = saved.selection
  <2>1. grouping' = g /\ token' = t /\ heard' = heard /\ Leave("NoChange")
    BY <1>3 DEF FinishUnchanged
  <2>2. QED
    BY <1>2, <2>1, LeaveKeeps DEF Results
<1>4. CASE s # saved.selection
  <2>1. /\ grouping' = Closed(g) /\ token' = None
        /\ heard' = [heard EXCEPT !.selection = s] /\ Leave("SelectionChanged")
    BY <1>4 DEF FinishUnchanged
  <2>2. token' \in Option(Token)
    BY <2>1 DEF Option
  <2>3. QED
    BY <1>1, <1>2, <2>1, <2>2, LeaveKeeps DEF Results
<1>5. QED
  BY <1>3, <1>4

(* What an operation saves when it starts (policy.rs,                      *)
(* with_transient_rollback).                                               *)
LEMMA EnterSaves ==
  ASSUME IInv, NEW p \in Running, Enter(p)
  PROVE  /\ phase = "idle" /\ phase' = p
         /\ saved' \in Transient /\ saved'.hsb = None /\ saved'.selection = selection
         /\ fsb' \in Option(Selections)
         /\ begun' \in Option(SessionState)
         /\ outcome' = "None"
         /\ hsb = None
<1>1. /\ phase = "idle" /\ phase' = p
      /\ saved' = [selection |-> selection, marks |-> marks, grouping |-> grouping,
                   hsb |-> hsb, fsb |-> fsb, token |-> token]
      /\ fsb' = IF fsb = None THEN selection ELSE fsb
      /\ begun' = Session
      /\ outcome' = "None"
  BY DEF Enter
<1>2. hsb = None
  BY <1>1 DEF IInv, CallOK, Running
<1>3. saved' \in Transient
  BY <1>1 DEF IInv, TypeOK, Transient
<1>4. Session \in SessionState
  BY DEF IInv, TypeOK, Session, SessionState
<1>5. fsb' \in Option(Selections)
  BY <1>1 DEF IInv, TypeOK, Option
<1>6. QED
  BY <1>1, <1>2, <1>3, <1>4, <1>5 DEF Option

-----------------------------------------------------------------------------
(* The session starts in the invariant, and every step keeps it.           *)

(* A new session (mod.rs, DocumentSession::new).                           *)
LEMMA InitOK == Init => IInv
<1> SUFFICES ASSUME Init PROVE IInv
  OBVIOUS
<1>1. TypeOK
  BY DocumentAssumption, GroupingTypes, DelayAssumption
  DEF Init, TypeOK, Option, Phases, PendingMarks, NewGrouping, GroupingState
<1>2. SelectionValid
  BY DocumentAssumption DEF Init, SelectionValid
<1>3. CallOK
  BY DEF Init, CallOK, Running
<1>4. StacksOK
  BY DEF Init, StacksOK, UndoReaches, RedoReaches
<1>5. QED
  BY <1>1, <1>2, <1>3, <1>4 DEF IInv

(* Starting an intent or a direct edit.                                    *)
LEMMA BeginKeeps ==
  ASSUME IInv, BeginIntent \/ BeginApply
  PROVE  IInv'
<1>1. PICK p \in {"intent", "apply"} : Enter(p)
  BY DEF BeginIntent, BeginApply
<1>2. /\ phase = "idle" /\ phase' = p /\ p \in Running
      /\ saved' \in Transient /\ saved'.hsb = None /\ saved'.selection = selection
      /\ fsb' \in Option(Selections)
      /\ begun' \in Option(SessionState)
      /\ outcome' = "None"
      /\ hsb = None
  BY <1>1, EnterSaves DEF Running
<1>3. /\ store' = store /\ revision' = revision /\ undo' = undo /\ redo' = redo
      /\ taken' = taken /\ prepared' = prepared /\ heard' = heard
  BY DEF BeginIntent, BeginApply
<1>4. Closed(grouping) \in GroupingState
  BY DEF IInv, TypeOK, Closed, GroupingState, Option
<1>5. /\ selection' \in ValidAt[store]
      /\ hsb' = hsb \/ hsb' = selection
      /\ token' \in Option(Token) /\ marks' \in PendingMarks /\ grouping' \in GroupingState
  BY <1>4, SelectionTypes DEF BeginIntent, BeginApply, IInv, TypeOK, Option, PendingMarks
<1>6. TypeOK'
  BY <1>1, <1>2, <1>3, <1>5, SelectionTypes DEF IInv, TypeOK, Phases, Option
<1>7. SelectionValid'
  BY <1>3, <1>5 DEF SelectionValid
<1>8. CallOK'
  BY <1>1, <1>2, <1>3, <1>5, SelectionTypes DEF CallOK, Running
<1>9. StacksOK'
  BY <1>1, <1>2, <1>3 DEF IInv, StacksOK
<1>10. QED
  BY <1>6, <1>7, <1>8, <1>9 DEF IInv

(* The ways an intent ends without a commit.                               *)
LEMMA UnchangedKeeps ==
  ASSUME IInv, NoChange \/ StorePendingMarks \/ Navigate \/ Fail
  PROVE  IInv'
<1>1. /\ selection \in ValidAt[store] /\ marks \in PendingMarks /\ None \in PendingMarks
      /\ grouping \in GroupingState /\ Closed(grouping) \in GroupingState
      /\ token \in Option(Token) /\ None \in Option(Token)
  BY SelectionTypes DEF IInv, TypeOK, Closed, GroupingState, Option, PendingMarks
<1>2. CASE NoChange
  BY <1>1, <1>2, FinishKeeps DEF NoChange
<1>3. CASE StorePendingMarks
  BY <1>1, <1>3, FinishKeeps DEF StorePendingMarks
<1>4. CASE Navigate
  <2>1. phase \in {"intent", "collapsed"}
    BY <1>4 DEF Navigate
  <2>2. PICK next \in ValidAt[store] :
          IF next = selection
          THEN FinishUnchanged(selection, marks, grouping, None)
          ELSE /\ selection' = next
               /\ token' = None
               /\ marks' = None
               /\ grouping' = IF PreserveGroupOnMove THEN grouping ELSE Closed(grouping)
               /\ heard' = [heard EXCEPT !.selection = next]
               /\ Leave("SelectionChanged")
               /\ UNCHANGED <<store, revision, undo, redo, prepared>>
    BY <1>4 DEF Navigate
  <2>3. CASE next = selection
    BY <1>1, <2>1, <2>2, <2>3, FinishKeeps
  <2>4. CASE next # selection
    BY <1>1, <2>1, <2>2, <2>4, LeaveKeeps DEF Results
  <2>5. QED
    BY <2>3, <2>4
<1>5. CASE Fail
  <2>1. /\ phase \in {"intent", "collapsed", "apply"} /\ Leave("Error")
        /\ selection' = saved.selection /\ marks' = saved.marks
        /\ grouping' = saved.grouping /\ token' = saved.token
        /\ store' = store /\ revision' = revision /\ undo' = undo /\ redo' = redo
        /\ prepared' = prepared /\ heard' = heard
    BY <1>5 DEF Fail, RestoreTransient
  <2>2. saved \in Transient /\ saved.selection \in ValidAt[store]
    BY <2>1 DEF IInv, CallOK, Running
  <2>3. /\ saved.marks \in PendingMarks /\ saved.grouping \in GroupingState
        /\ saved.token \in Option(Token)
    BY <2>2 DEF Transient
  <2>4. QED
    BY <2>1, <2>2, <2>3, LeaveKeeps DEF Results
<1>6. QED
  BY <1>2, <1>3, <1>4, <1>5

(* Collapsing a cell range to its leading caret.                           *)
LEMMA CollapseKeeps ==
  ASSUME IInv, CollapseCellRange
  PROVE  IInv'
<1>1. /\ phase = "intent" /\ selection \in CellRanges
      /\ phase' = "collapsed" /\ selection' = LeadingCaret[selection]
      /\ UNCHANGED <<store, revision, undo, redo, grouping, marks, token, hsb, fsb,
                     saved, taken, prepared, outcome, begun, heard>>
  BY DEF CollapseCellRange
<1>2. selection' \in ValidAt[store] /\ selection' \in Selections
  BY <1>1, SelectionTypes, DocumentAssumption DEF IInv, TypeOK
<1>3. TypeOK'
  BY <1>1, <1>2 DEF IInv, TypeOK, Phases
<1>4. SelectionValid'
  BY <1>1, <1>2 DEF SelectionValid
<1>5. CallOK'
  BY <1>1 DEF IInv, CallOK, Running
<1>6. StacksOK'
  BY <1>1 DEF IInv, StacksOK
<1>7. QED
  BY <1>3, <1>4, <1>5, <1>6 DEF IInv

(* The ways an operation commits.                                          *)
LEMMA CommitsKeep ==
  ASSUME IInv,
         CommitTyping \/ CommitInline \/ CommitStructural \/ CommitHostPlan \/ UndoInputRule
  PROVE  IInv'
<1>1. /\ marks \in PendingMarks /\ None \in PendingMarks
      /\ grouping \in GroupingState /\ Closed(grouping) \in GroupingState
      /\ None \in Option(Token) /\ None \in Option(Nat) /\ Isolated \in Group
  BY DEF IInv, TypeOK, Closed, GroupingState, Option, PendingMarks, Group
<1>2. \A plan \in Plans : plan \in Plan /\ <<plan>> \in Stages /\ plan.group \in Group
  BY PlanAssumption, SingleStage DEF Plan
<1>3. CASE CommitTyping
  <2>1. phase = "intent"
    BY <1>3 DEF CommitTyping
  <2>2. PICK plan \in TypingPlans[selection], time \in Option(Times) :
          /\ Applies(<<plan>>)
          /\ \E final \in Finalizations(<<plan>>, marks) :
               Publish(CandidateOf(final, plan.group), grouping, time,
                       Override(IF ConsumePending THEN None ELSE Keep, marks), None)
    BY <1>3 DEF CommitTyping
  <2> PICK final \in Finalizations(<<plan>>, marks) :
        Publish(CandidateOf(final, plan.group), grouping, time,
                Override(IF ConsumePending THEN None ELSE Keep, marks), None)
    BY <2>2
  <2>3. plan \in Plans /\ time \in Option(Nat)
    BY PlanAssumption, OptionAssumption DEF IInv, TypeOK, Option
  <2>4. final \in Stages /\ Applies(final)
    BY <1>2, <2>2, <2>3, FinalApplies
  <2>5. Override(IF ConsumePending THEN None ELSE Keep, marks) \in PendingMarks
    BY <1>1, OverrideType
  <2>6. QED
    BY <1>1, <1>2, <2>1, <2>2, <2>3, <2>4, <2>5, CommitKeeps
<1>4. CASE CommitInline
  <2>1. phase = "intent"
    BY <1>4 DEF CommitInline
  <2>2. PICK stages \in CaretPlans[selection] :
          /\ Applies(stages)
          /\ \E final \in Finalizations(stages, marks), marksAfter \in PendingMarks \cup {Keep} :
               Publish(CandidateOf(final, Isolated), Closed(grouping), None,
                       Override(marksAfter, marks), None)
    BY <1>1, <1>4 DEF CommitInline
  <2> PICK final \in Finalizations(stages, marks), marksAfter \in PendingMarks \cup {Keep} :
        Publish(CandidateOf(final, Isolated), Closed(grouping), None,
                Override(marksAfter, marks), None)
    BY <2>2
  <2>3. stages \in Stages
    <3>1. stages \in StagedPlans
      BY PlanAssumption DEF IInv, TypeOK
    <3>2. QED
      BY <3>1, StagedStages
  <2>4. final \in Stages /\ Applies(final)
    BY <2>2, <2>3, FinalApplies
  <2>5. Override(marksAfter, marks) \in PendingMarks
    BY <1>1, OverrideType
  <2>6. QED
    BY <1>1, <2>1, <2>2, <2>4, <2>5, CommitKeeps
<1>5. CASE CommitStructural
  <2>1. phase \in {"intent", "collapsed", "apply"}
    BY <1>5 DEF CommitStructural
  <2>2. PICK stages \in StructuralPlans :
          /\ Applies(stages)
          /\ \E final \in Finalizations(stages, None) :
               Publish(CandidateOf(final, Isolated), Closed(grouping), None, None, None)
    BY <1>5 DEF CommitStructural
  <2> PICK final \in Finalizations(stages, None) :
        Publish(CandidateOf(final, Isolated), Closed(grouping), None, None, None)
    BY <2>2
  <2>3. stages \in Stages
    BY PlanAssumption, StagedStages
  <2>4. final \in Stages /\ Applies(final)
    BY <2>2, <2>3, FinalApplies
  <2>5. QED
    BY <1>1, <2>1, <2>2, <2>4, CommitKeeps
<1>6. CASE CommitHostPlan
  <2>1. phase \in {"intent", "collapsed", "apply"}
    BY <1>6 DEF CommitHostPlan
  <2>2. PICK plan \in HostPlans :
          /\ Applies(<<plan>>)
          /\ \E final \in Finalizations(<<plan>>, None), marksAfter \in PendingMarks \cup {Keep} :
               \E tok \in Offers(final) :
                 Publish(CandidateOf(final, plan.group), Closed(grouping), None,
                         Override(marksAfter, None), tok)
    BY <1>6 DEF CommitHostPlan
  <2> PICK final \in Finalizations(<<plan>>, None), marksAfter \in PendingMarks \cup {Keep} :
        \E tok \in Offers(final) :
          Publish(CandidateOf(final, plan.group), Closed(grouping), None,
                  Override(marksAfter, None), tok)
    BY <2>2
  <2> PICK tok \in Offers(final) :
        Publish(CandidateOf(final, plan.group), Closed(grouping), None,
                Override(marksAfter, None), tok)
    OBVIOUS
  <2>3. plan \in Plans
    BY PlanAssumption
  <2>4. final \in Stages /\ Applies(final)
    BY <1>2, <2>2, <2>3, FinalApplies
  <2>5. Override(marksAfter, None) \in PendingMarks /\ tok \in Option(Token)
    BY <1>1, <2>4, OverrideType, OfferType DEF IInv
  <2>6. QED
    BY <1>1, <1>2, <2>1, <2>2, <2>3, <2>4, <2>5, CommitKeeps
<1>7. CASE UndoInputRule
  <2>1. phase \in {"intent", "collapsed", "apply"} /\ token \in Token
    BY <1>7 DEF UndoInputRule, IInv, TypeOK, Option
  <2>2. Applies(<<token.reversal>>)
    BY <1>7 DEF UndoInputRule
  <2> PICK final \in Finalizations(<<token.reversal>>, None) :
        Publish(CandidateOf(final, Isolated), Closed(grouping), None,
                Override(token.marks, None), None)
    BY <1>7 DEF UndoInputRule
  <2>3. token.reversal \in Plan /\ token.marks \in PendingMarks \cup {Keep}
    BY <2>1 DEF Token
  <2>4. final \in Stages /\ Applies(final)
    BY <2>2, <2>3, SingleStage, FinalApplies
  <2>5. Override(token.marks, None) \in PendingMarks
    BY <1>1, <2>3, OverrideType
  <2>6. QED
    BY <1>1, <2>1, <2>2, <2>4, <2>5, CommitKeeps
<1>8. QED
  BY <1>3, <1>4, <1>5, <1>6, <1>7

(* The calls that never run an operation.                                  *)
LEMMA CallsKeep ==
  ASSUME IInv, TraverseNothing \/ CloseHistoryGroup \/ SetSelection
  PROVE  IInv'
<1>1. Closed(grouping) \in GroupingState
  BY DEF IInv, TypeOK, Closed, GroupingState, Option
<1>2. /\ phase = "idle" /\ UNCHANGED <<store, revision, undo, redo, hsb, fsb, phase, saved,
                                       taken, prepared, begun>>
  BY DEF TraverseNothing, CloseHistoryGroup, SetSelection
<1>3. /\ marks' \in PendingMarks /\ grouping' \in GroupingState
      /\ token' \in Option(Token)
      /\ outcome' \in Results
  BY <1>1 DEF TraverseNothing, CloseHistoryGroup, SetSelection, IInv, TypeOK, Option,
              PendingMarks, Results
<1>4. /\ selection' \in ValidAt[store]
      /\ heard' = heard \/ heard' = [heard EXCEPT !.selection = selection']
  BY SelectionTypes DEF TraverseNothing, CloseHistoryGroup, SetSelection
<1>5. /\ selection' \in Selections
      /\ heard' \in [store : Stores, revision : Nat, selection : Selections]
  BY <1>4, SelectionTypes DEF IInv, TypeOK
<1>6. TypeOK'
  BY <1>2, <1>3, <1>5 DEF IInv, TypeOK, Results
<1>7. SelectionValid'
  BY <1>2, <1>4 DEF SelectionValid
<1>8. CallOK'
  BY <1>2 DEF IInv, CallOK, Running
<1>9. StacksOK'
  BY <1>2 DEF IInv, StacksOK
<1>10. QED
  BY <1>6, <1>7, <1>8, <1>9 DEF IInv

(* Taking the newest entry of a stack for a traversal.                     *)
LEMMA TakeKeeps ==
  ASSUME IInv, TakeUndo \/ TakeRedo
  PROVE  IInv'
<1>1. PICK p \in {"undoing", "redoing"} :
        /\ Enter(p)
        /\ p = "undoing" => /\ undo # <<>> /\ taken' = Last(undo)
                            /\ undo' = Front(undo) /\ redo' = redo
        /\ p = "redoing" => /\ redo # <<>> /\ taken' = Last(redo)
                            /\ redo' = Front(redo) /\ undo' = undo
  BY DEF TakeUndo, TakeRedo
<1>2. /\ phase = "idle" /\ phase' = p /\ p \in Running
      /\ saved' \in Transient /\ saved'.hsb = None /\ saved'.selection = selection
      /\ fsb' \in Option(Selections)
      /\ begun' \in Option(SessionState)
      /\ outcome' = "None"
      /\ hsb = None
  BY <1>1, EnterSaves DEF Running
<1>3. /\ marks' = None /\ grouping' = Closed(grouping)
      /\ UNCHANGED <<store, revision, selection, token, hsb, prepared, heard>>
  BY DEF TakeUndo, TakeRedo
<1>4. Closed(grouping) \in GroupingState
  BY DEF IInv, TypeOK, Closed, GroupingState, Option
<1>5. /\ undo \in Seq(HistoryEntry) /\ redo \in Seq(HistoryEntry)
      /\ UndoReaches(undo, store) /\ RedoReaches(redo, store)
  BY <1>2 DEF IInv, TypeOK, StacksOK
<1>6. /\ undo' \in Seq(HistoryEntry) /\ redo' \in Seq(HistoryEntry)
      /\ taken' \in HistoryEntry /\ EntryReplays(taken')
  BY <1>1, <1>5, UndoPop, RedoPop
<1>7. StacksOK'
  <2>1. CASE p = "undoing"
    <3>1. Finish(taken') = store /\ UndoReaches(undo', Start(taken'))
      BY <1>1, <1>5, <2>1, UndoPop
    <3>2. QED
      BY <1>1, <1>2, <1>3, <1>5, <2>1, <3>1 DEF StacksOK
  <2>2. CASE p = "redoing"
    <3>1. Start(taken') = store /\ RedoReaches(redo', Finish(taken'))
      BY <1>1, <1>5, <2>2, RedoPop
    <3>2. QED
      BY <1>1, <1>2, <1>3, <1>5, <2>2, <3>1 DEF StacksOK
  <2>3. QED
    BY <2>1, <2>2
<1>8. TypeOK'
  BY <1>1, <1>2, <1>3, <1>4, <1>6 DEF IInv, TypeOK, Phases, Option, PendingMarks
<1>9. SelectionValid'
  BY <1>3 DEF IInv, SelectionValid
<1>10. CallOK'
  BY <1>1, <1>2, <1>3, <1>6, SelectionTypes DEF CallOK, Running
<1>11. QED
  BY <1>7, <1>8, <1>9, <1>10 DEF IInv

(* Replaying the entry taken: capturing the live selection into the side   *)
(* it leaves keeps the entry replayable (mod.rs, undo_inner, redo_inner).  *)
LEMMA ReplayKeeps ==
  ASSUME IInv, ReplayUndo \/ ReplayRedo
  PROVE  IInv'
<1> DEFINE landed == IF phase = "undoing" THEN taken.before ELSE taken.after
<1>1. /\ phase \in {"undoing", "redoing"}
      /\ taken \in HistoryEntry /\ EntryReplays(taken)
      /\ saved \in Transient /\ saved.hsb = None
      /\ selection \in ValidAt[store] /\ selection \in Selections
  BY SelectionTypes DEF ReplayUndo, ReplayRedo, IInv, CallOK, Running
<1>2. /\ Leave("DocumentChanged")
      /\ marks' = marks /\ grouping' = grouping /\ prepared' = prepared
      /\ revision' = revision + 1 /\ token' = None
      /\ heard' = [store |-> store', revision |-> revision', selection |-> selection']
  BY DEF ReplayUndo, ReplayRedo, Replay
<1>3. /\ phase' = "idle" /\ hsb' = None /\ fsb' = saved.fsb /\ saved' = None
      /\ taken' = None /\ begun' = None /\ outcome' = "DocumentChanged"
  BY <1>1, <1>2 DEF Leave
<1>4. ASSUME NEW entry \in HistoryEntry, EntryReplays(entry)
      PROVE  /\ Start(entry) \in Stores /\ Finish(entry) \in Stores
             /\ entry.before \in Selections /\ entry.after \in Selections
  <2>1. entry.redo \in Transaction
    BY DEF HistoryEntry
  <2>2. QED
    BY <1>4, <2>1, AcceptedChain DEF EntryReplays, Finish, HistoryEntry
<1>5. CASE phase = "undoing"
  <2>1. /\ store' = Start(taken) /\ selection' = taken.before
        /\ redo' = Append(redo, Undone(taken)) /\ undo' = undo
    BY <1>1, <1>5 DEF ReplayUndo, ReplayRedo, Replay, EntryReplays
  <2>2. /\ Undone(taken) \in HistoryEntry
        /\ Start(Undone(taken)) = Start(taken) /\ Finish(Undone(taken)) = Finish(taken)
        /\ Undone(taken).redo = taken.redo /\ Undone(taken).undo = taken.undo
        /\ Undone(taken).before = taken.before
        /\ Undone(taken).after = taken.after \/ Undone(taken).after = selection
    BY <1>1 DEF Undone, HistoryEntry, Start, Finish
  <2>3. Finish(taken) = store /\ UndoReaches(undo, Start(taken)) /\ RedoReaches(redo, store)
    BY <1>5 DEF IInv, StacksOK
  <2>4. EntryReplays(Undone(taken))
    BY <1>1, <2>2, <2>3 DEF EntryReplays
  <2>5. RedoReaches(redo', store') /\ UndoReaches(undo', store')
    BY <2>1, <2>2, <2>3, <2>4, RedoPush DEF IInv, TypeOK
  <2>6. undo' \in Seq(HistoryEntry) /\ redo' \in Seq(HistoryEntry)
    BY <2>1, <2>2 DEF IInv, TypeOK
  <2>7. /\ store' \in Stores /\ selection' \in Selections /\ selection' \in ValidAt[store']
    BY <1>1, <1>4, <2>1 DEF EntryReplays
  <2>8. TypeOK'
    BY <1>1, <1>2, <1>3, <2>6, <2>7 DEF IInv, TypeOK, Phases, Option, Transient
  <2>9. SelectionValid' /\ CallOK' /\ StacksOK'
    BY <1>3, <2>5, <2>7 DEF SelectionValid, CallOK, Running, StacksOK
  <2>10. QED
    BY <2>8, <2>9 DEF IInv
<1>6. CASE phase = "redoing"
  <2>1. /\ store' = Finish(taken) /\ selection' = taken.after
        /\ undo' = Append(undo, Redone(taken)) /\ redo' = redo
    BY <1>1, <1>6 DEF ReplayUndo, ReplayRedo, Replay, Finish
  <2>2. /\ Redone(taken) \in HistoryEntry
        /\ Start(Redone(taken)) = Start(taken) /\ Finish(Redone(taken)) = Finish(taken)
        /\ Redone(taken).redo = taken.redo /\ Redone(taken).undo = taken.undo
        /\ Redone(taken).after = taken.after
        /\ Redone(taken).before = taken.before \/ Redone(taken).before = selection
    BY <1>1 DEF Redone, HistoryEntry, Start, Finish
  <2>3. Start(taken) = store /\ RedoReaches(redo, Finish(taken)) /\ UndoReaches(undo, store)
    BY <1>6 DEF IInv, StacksOK
  <2>4. EntryReplays(Redone(taken))
    BY <1>1, <2>2, <2>3 DEF EntryReplays
  <2>5. RedoReaches(redo', store') /\ UndoReaches(undo', store')
    BY <2>1, <2>2, <2>3, <2>4, UndoPush DEF IInv, TypeOK
  <2>6. undo' \in Seq(HistoryEntry) /\ redo' \in Seq(HistoryEntry)
    BY <2>1, <2>2 DEF IInv, TypeOK
  <2>7. /\ store' \in Stores /\ selection' \in Selections /\ selection' \in ValidAt[store']
    BY <1>1, <1>4, <2>1 DEF EntryReplays
  <2>8. TypeOK'
    BY <1>1, <1>2, <1>3, <2>6, <2>7 DEF IInv, TypeOK, Phases, Option, Transient
  <2>9. SelectionValid' /\ CallOK' /\ StacksOK'
    BY <1>3, <2>5, <2>7 DEF SelectionValid, CallOK, Running, StacksOK
  <2>10. QED
    BY <2>8, <2>9 DEF IInv
<1>7. QED
  BY <1>1, <1>5, <1>6

(* A rejected traversal puts the entry back (mod.rs, undo_inner and        *)
(* redo_inner).                                                            *)
LEMMA FailTraversalKeeps ==
  ASSUME IInv, FailTraversal
  PROVE  IInv'
<1>1. /\ phase \in {"undoing", "redoing"}
      /\ taken \in HistoryEntry /\ EntryReplays(taken)
      /\ saved \in Transient /\ saved.hsb = None /\ saved.selection \in ValidAt[store]
  BY DEF FailTraversal, IInv, CallOK, Running
<1>2. /\ selection' = saved.selection /\ marks' = saved.marks
      /\ grouping' = saved.grouping /\ token' = saved.token
      /\ Leave("Error")
      /\ UNCHANGED <<store, revision, prepared, heard>>
  BY DEF FailTraversal, RestoreTransient
<1>3. /\ phase' = "idle" /\ hsb' = None /\ fsb' = saved.fsb /\ saved' = None
      /\ taken' = None /\ begun' = None /\ outcome' = "Error"
  BY <1>1, <1>2 DEF Leave
<1>4. undo \in Seq(HistoryEntry) /\ redo \in Seq(HistoryEntry)
  BY DEF IInv, TypeOK
<1>5. /\ undo' \in Seq(HistoryEntry) /\ redo' \in Seq(HistoryEntry)
      /\ UndoReaches(undo', store) /\ RedoReaches(redo', store)
  <2>1. CASE phase = "undoing"
    <3>1. undo' = Append(undo, taken) /\ redo' = redo
      BY <2>1 DEF FailTraversal
    <3>2. Finish(taken) = store /\ UndoReaches(undo, Start(taken)) /\ RedoReaches(redo, store)
      BY <2>1 DEF IInv, StacksOK
    <3>3. UndoReaches(Append(undo, taken), store)
      BY <1>1, <1>4, <3>2, UndoPush
    <3>4. QED
      BY <1>1, <1>4, <3>1, <3>2, <3>3
  <2>2. CASE phase = "redoing"
    <3>1. redo' = Append(redo, taken) /\ undo' = undo
      BY <2>2 DEF FailTraversal
    <3>2. Start(taken) = store /\ RedoReaches(redo, Finish(taken)) /\ UndoReaches(undo, store)
      BY <2>2 DEF IInv, StacksOK
    <3>3. RedoReaches(Append(redo, taken), store)
      BY <1>1, <1>4, <3>2, RedoPush
    <3>4. QED
      BY <1>1, <1>4, <3>1, <3>2, <3>3
  <2>3. QED
    BY <1>1, <2>1, <2>2
<1>6. TypeOK'
  BY <1>1, <1>2, <1>3, <1>5 DEF IInv, TypeOK, Transient, Phases, Option
<1>7. SelectionValid' /\ CallOK' /\ StacksOK'
  BY <1>1, <1>2, <1>3, <1>5 DEF SelectionValid, CallOK, Running, StacksOK
<1>8. QED
  BY <1>6, <1>7 DEF IInv

(* A prepared cut: preparing changes nothing, publishing commits exactly   *)
(* what was prepared (prepared_cut.rs).                                    *)
LEMMA CutKeeps ==
  ASSUME IInv, PrepareCut \/ PublishCut \/ CancelCut
  PROVE  IInv'
<1>1. CASE PrepareCut
  <2>1. /\ phase = "idle" /\ phase' = "cut" /\ begun' = Session /\ outcome' = "None"
        /\ UNCHANGED <<store, revision, selection, undo, redo, grouping, marks, token, hsb, fsb,
                       saved, taken, heard>>
    BY <1>1 DEF PrepareCut
  <2>2. PICK plan \in CutPlans :
          /\ Applies(<<plan>>)
          /\ \E final \in Finalizations(<<plan>>, marks) : prepared' = CandidateOf(final, Isolated)
    BY <1>1 DEF PrepareCut
  <2>3. PICK final \in Finalizations(<<plan>>, marks) : prepared' = CandidateOf(final, Isolated)
    BY <2>2
  <2>4. <<plan>> \in Stages /\ Isolated \in Group
    BY PlanAssumption, SingleStage DEF Group
  <2>5. final \in Stages /\ Applies(final)
    BY <2>2, <2>4, FinalApplies
  <2>6. prepared' \in Candidate
    BY <2>3, <2>4, <2>5, CandidateType DEF IInv
  <2>7. /\ EntryReplays(prepared'.entry)
        /\ Start(prepared'.entry) = store
        /\ Finish(prepared'.entry) = prepared'.store
        /\ prepared'.selection \in ValidAt[prepared'.store]
    BY <2>3, <2>4, <2>5, CandidateReplays DEF IInv, CallOK
  <2>8. prepared'.revision = RevisionOf(final) /\ RevisionOf(final) > revision
    BY <2>3, <2>5, RevisionGrows DEF IInv, CandidateOf
  <2>9. Session \in SessionState
    BY DEF IInv, TypeOK, Session, SessionState
  <2>10. TypeOK'
    BY <2>1, <2>6, <2>9 DEF IInv, TypeOK, Phases, Option
  <2>11. SelectionValid' /\ StacksOK'
    BY <2>1 DEF IInv, SelectionValid, StacksOK
  <2>12. CallOK'
    BY <2>1, <2>6, <2>7, <2>8 DEF IInv, CallOK, Running
  <2>13. QED
    BY <2>10, <2>11, <2>12 DEF IInv
<1>2. CASE PublishCut
  <2>1. /\ phase = "cut" /\ prepared' = None /\ phase' = "idle" /\ begun' = None
        /\ outcome' = "DocumentChanged"
        /\ UNCHANGED <<hsb, fsb, saved, taken>>
        /\ PublishCandidate(prepared, grouping, None, None, None)
    BY <1>2 DEF PublishCut
  <2>2. /\ prepared \in Candidate
        /\ EntryReplays(prepared.entry)
        /\ Start(prepared.entry) = store
        /\ Finish(prepared.entry) = prepared.store
        /\ prepared.selection \in ValidAt[prepared.store]
        /\ hsb = None
    BY <2>1 DEF IInv, CallOK, Running
  <2>3. /\ grouping \in GroupingState /\ None \in Option(Nat) /\ None \in PendingMarks
        /\ None \in Option(Token)
    BY DEF IInv, TypeOK, Option, PendingMarks
  <2>4. /\ store' \in Stores /\ revision' \in Nat
        /\ selection' \in Selections /\ selection' \in ValidAt[store']
        /\ undo' \in Seq(HistoryEntry) /\ redo' \in Seq(HistoryEntry)
        /\ grouping' \in GroupingState
        /\ marks' \in PendingMarks /\ token' \in Option(Token)
        /\ heard' \in [store : Stores, revision : Nat, selection : Selections]
        /\ UndoReaches(undo', store')
        /\ RedoReaches(redo', store')
    BY <2>1, <2>2, <2>3, PublishedReplays
  <2>5. TypeOK'
    BY <2>1, <2>4 DEF IInv, TypeOK, Phases, Option
  <2>6. SelectionValid' /\ CallOK' /\ StacksOK'
    BY <2>1, <2>2, <2>4 DEF SelectionValid, CallOK, Running, StacksOK
  <2>7. QED
    BY <2>5, <2>6 DEF IInv
<1>3. CASE CancelCut
  <2>1. /\ phase = "cut" /\ prepared' = None /\ phase' = "idle" /\ begun' = None
        /\ outcome' = "None"
        /\ UNCHANGED <<store, revision, selection, undo, redo, grouping, marks, token, hsb, fsb,
                       saved, taken, heard>>
    BY <1>3 DEF CancelCut
  <2>2. TypeOK'
    BY <2>1 DEF IInv, TypeOK, Phases, Option
  <2>3. SelectionValid' /\ CallOK' /\ StacksOK'
    BY <2>1 DEF IInv, SelectionValid, CallOK, Running, StacksOK
  <2>4. QED
    BY <2>2, <2>3 DEF IInv
<1>4. QED
  BY <1>1, <1>2, <1>3

(* Every step keeps the invariant.                                         *)
LEMMA NextKeeps ==
  ASSUME IInv, [Next]_vars
  PROVE  IInv'
<1>1. CASE BeginIntent \/ BeginApply
  BY <1>1, BeginKeeps
<1>2. CASE NoChange \/ StorePendingMarks \/ Navigate \/ Fail
  BY <1>2, UnchangedKeeps
<1>3. CASE CollapseCellRange
  BY <1>3, CollapseKeeps
<1>4. CASE CommitTyping \/ CommitInline \/ CommitStructural \/ CommitHostPlan \/ UndoInputRule
  BY <1>4, CommitsKeep
<1>5. CASE TraverseNothing \/ CloseHistoryGroup \/ SetSelection
  BY <1>5, CallsKeep
<1>6. CASE TakeUndo \/ TakeRedo
  BY <1>6, TakeKeeps
<1>7. CASE ReplayUndo \/ ReplayRedo
  BY <1>7, ReplayKeeps
<1>8. CASE FailTraversal
  BY <1>8, FailTraversalKeeps
<1>9. CASE PrepareCut \/ PublishCut \/ CancelCut
  BY <1>9, CutKeeps
<1>10. CASE UNCHANGED vars
  <2>1. TypeOK' /\ SelectionValid'
    BY <1>10 DEF IInv, TypeOK, SelectionValid, vars
  <2>2. CallOK' /\ StacksOK'
    BY <1>10 DEF IInv, CallOK, StacksOK, vars
  <2>3. QED
    BY <2>1, <2>2 DEF IInv
<1>11. QED
  BY <1>1, <1>2, <1>3, <1>4, <1>5, <1>6, <1>7, <1>8, <1>9, <1>10 DEF Next

-----------------------------------------------------------------------------

(* What a call in progress holds always fits the document: the strengthened *)
(* invariant of the session, for every document and every option.          *)
THEOREM Inductive == Spec => []IInv
<1>1. Init => IInv
  BY InitOK
<1>2. IInv /\ [Next]_vars => IInv'
  BY NextKeeps
<1>3. QED
  BY <1>1, <1>2, PTL DEF Spec

(* The session is always well typed.                                       *)
THEOREM TypeCorrect == Spec => []TypeOK
<1>1. IInv => TypeOK
  BY DEF IInv
<1>2. QED
  BY <1>1, Inductive, PTL

(* The selection is always valid for the live document, tentative targets, *)
(* collapsed cell ranges, rollbacks and traversals included (mod.rs).      *)
THEOREM SelectionAlwaysValid == Spec => []SelectionValid
<1>1. IInv => SelectionValid
  BY DEF IInv
<1>2. QED
  BY <1>1, Inductive, PTL

(* Undo and redo always replay, entry after entry, whatever was merged,    *)
(* amended, captured or put back (history.rs, commit.rs, mod.rs).          *)
THEOREM HistoryAlwaysReplays == Spec => []HistoryReplays
<1>1. ASSUME IInv PROVE HistoryReplays
  <2>1. undo \in Seq(HistoryEntry) /\ redo \in Seq(HistoryEntry)
    BY <1>1 DEF IInv, TypeOK
  <2>2. phase \in {"undoing", "redoing"} => taken \in HistoryEntry /\ EntryReplays(taken)
    BY <1>1 DEF IInv, CallOK
  <2>3. UndoReaches(UndoStack, store)
    <3>1. CASE phase = "undoing"
      BY <1>1, <2>1, <2>2, <3>1, UndoPush DEF IInv, StacksOK, UndoStack
    <3>2. CASE phase # "undoing"
      BY <1>1, <3>2 DEF IInv, StacksOK, UndoStack
    <3>3. QED
      BY <3>1, <3>2
  <2>4. RedoReaches(RedoStack, store)
    <3>1. CASE phase = "redoing"
      BY <1>1, <2>1, <2>2, <3>1, RedoPush DEF IInv, StacksOK, RedoStack
    <3>2. CASE phase # "redoing"
      BY <1>1, <3>2 DEF IInv, StacksOK, RedoStack
    <3>3. QED
      BY <3>1, <3>2
  <2>5. QED
    BY <2>3, <2>4 DEF HistoryReplays
<1>2. IInv => HistoryReplays
  BY <1>1
<1>3. QED
  BY <1>2, Inductive, PTL
=============================================================================
