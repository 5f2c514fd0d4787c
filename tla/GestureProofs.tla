---------------------------- MODULE GestureProofs ----------------------------
(***************************************************************************)
(* The gestures of a view, proved for every document, selection, screen    *)
(* and bound: what is cached about a table is what its document says, a    *)
(* resize is committed only as it was measured, an activated chip is the   *)
(* one the user saw, an image lands where it was pasted.                   *)
(***************************************************************************)
EXTENDS EditorGestures, TLAPS

-----------------------------------------------------------------------------
(* The cache of a document's keys.                                         *)

IsAdmission(a) ==
  DOMAIN a = {"enabled", "metadata", "configuration", "snapshot", "entries", "measured"}
SameRules(a, b) ==
  b.enabled = a.enabled /\ b.metadata = a.metadata /\ b.configuration = a.configuration

\* The last measurement of t had the key that the document of s gives.
Fits(a, s, t) ==
  /\ BuildKey(a, s, t) # InvalidKey
  /\ t \in DOMAIN a.measured
  /\ a.measured[t] = BuildKey(a, s, t)

\* Every cached entry is what the snapshot's document says of its table.
EntryHolds(a, s, t) ==
  /\ DOMAIN a.entries[t] = {"key", "admitted"}
  /\ a.entries[t].key = BuildKey(a, s, t)
  /\ a.entries[t].admitted <=> Fits(a, s, t)
Cached(a) == [doc |-> a.snapshot[2]]
CacheHolds(a) ==
  /\ IsAdmission(a)
  /\ a.snapshot = NoSnapshot => a.entries = NoEntries
  /\ \A t \in DOMAIN a.entries : t \in TablesOf(Cached(a)) /\ EntryHolds(a, Cached(a), t)

LEMMA KeyNamesItsTable ==
  ASSUME NEW a, NEW s, NEW t, BuildKey(a, s, t) # InvalidKey
  PROVE  BuildKey(a, s, t).table = t
BY DEF BuildKey

\* A key depends on the rules and on the document alone.
LEMMA KeyOfDocument ==
  ASSUME NEW a, NEW b, SameRules(a, b), NEW s, NEW r, r.doc = s.doc, NEW t
  PROVE  BuildKey(b, r, t) = BuildKey(a, s, t)
BY DEF BuildKey, SameRules

LEMMA SnapshotDocument ==
  ASSUME NEW a, NEW s, a.snapshot = Snapshot(s)
  PROVE  /\ a.snapshot # NoSnapshot
         /\ Cached(a).doc = s.doc
         /\ TablesOf(Cached(a)) = TablesOf(s)
         /\ \A t : BuildKey(a, Cached(a), t) = BuildKey(a, s, t)
<1>1. a.snapshot # NoSnapshot /\ Cached(a).doc = s.doc
  BY DEF Snapshot, NoSnapshot, Cached
<1>2. \A t : BuildKey(a, Cached(a), t) = BuildKey(a, s, t)
  BY <1>1 DEF BuildKey
<1>3. QED
  BY <1>1, <1>2 DEF TablesOf

LEMMA EntriesOfDocument ==
  ASSUME NEW a, NEW s, a.snapshot = Snapshot(s)
  PROVE  CacheHolds(a) <=>
           /\ IsAdmission(a)
           /\ \A t \in DOMAIN a.entries : t \in TablesOf(s) /\ EntryHolds(a, s, t)
<1>1. \A t : Fits(a, Cached(a), t) <=> Fits(a, s, t)
  BY SnapshotDocument DEF Fits
<1>2. \A t : EntryHolds(a, Cached(a), t) <=> EntryHolds(a, s, t)
  BY <1>1, SnapshotDocument DEF EntryHolds
<1>3. QED
  BY <1>2, SnapshotDocument DEF CacheHolds

LEMMA EmptyCacheHolds ==
  ASSUME NEW a, IsAdmission(a), a.entries = NoEntries
  PROVE  CacheHolds(a)
BY DEF CacheHolds, NoEntries

\* A cache prepared for a document keeps what was measured of its tables.
LEMMA PreparedHolds ==
  ASSUME NEW a, CacheHolds(a), NEW s, NEW p, p = Prepared(a, s)
  PROVE  /\ CacheHolds(p)
         /\ p.snapshot = Snapshot(s)
         /\ SameRules(a, p)
         /\ \A t \in TablesOf(s) : (Fits(p, s, t) <=> Fits(a, s, t))
<1>1. CASE a.snapshot = Snapshot(s)
  BY <1>1 DEF Prepared, SameRules
<1>2. CASE a.snapshot # Snapshot(s)
  <2>1. p = [a EXCEPT !.snapshot = Snapshot(s), !.entries = NoEntries,
                      !.measured = Kept(a.measured, TablesOf(s))]
    BY <1>2 DEF Prepared
  <2>2. /\ IsAdmission(p) /\ p.snapshot = Snapshot(s) /\ p.entries = NoEntries
        /\ p.measured = Kept(a.measured, TablesOf(s)) /\ SameRules(a, p)
    BY <2>1 DEF CacheHolds, IsAdmission, SameRules
  <2>3. \A t \in TablesOf(s) : (Fits(p, s, t) <=> Fits(a, s, t))
    <3>1. \A t \in TablesOf(s) : BuildKey(p, s, t) = BuildKey(a, s, t)
      BY <2>2, KeyOfDocument
    <3>2. QED
      BY <2>2, <3>1 DEF Fits, Kept
  <2>4. QED
    BY <2>2, <2>3, EmptyCacheHolds
<1>3. QED
  BY <1>1, <1>2

\* Looking a table up adds at most its entry.
LEMMA LookedUpHolds ==
  ASSUME NEW a, CacheHolds(a), NEW s, NEW t, NEW q, q = LookedUp(a, s, t)
  PROVE  /\ CacheHolds(q)
         /\ q.snapshot = Snapshot(s)
         /\ SameRules(a, q)
         /\ \A u \in TablesOf(s) : (Fits(q, s, u) <=> Fits(a, s, u))
         /\ t \in TablesOf(s) => t \in DOMAIN q.entries /\ EntryHolds(q, s, t)
<1> DEFINE p == Prepared(a, s)
<1>1. /\ CacheHolds(p) /\ p.snapshot = Snapshot(s) /\ SameRules(a, p)
      /\ \A u \in TablesOf(s) : (Fits(p, s, u) <=> Fits(a, s, u))
  BY PreparedHolds
<1>2. \A u \in DOMAIN p.entries : u \in TablesOf(s) /\ EntryHolds(p, s, u)
  BY <1>1, EntriesOfDocument
<1> HIDE DEF p
<1>3. CASE t \notin TablesOf(s) \/ t \in DOMAIN p.entries
  <2>1. q = p
    BY <1>3 DEF LookedUp, p
  <2>2. QED
    BY <1>1, <1>2, <1>3, <2>1
<1>4. CASE t \in TablesOf(s) /\ t \notin DOMAIN p.entries
  <2> DEFINE e == Entry(p, BuildKey(p, s, t))
  <2>1. q = [p EXCEPT !.entries = Put(p.entries, t, e)]
    BY <1>4 DEF LookedUp, p
  <2>2. /\ DOMAIN e = {"key", "admitted"} /\ e.key = BuildKey(p, s, t)
        /\ e.admitted <=> Fits(p, s, t)
    BY KeyNamesItsTable DEF Entry, Fits
  <2> HIDE DEF e
  <2>3. /\ IsAdmission(q) /\ SameRules(p, q) /\ q.snapshot = p.snapshot
        /\ q.measured = p.measured /\ q.entries = Put(p.entries, t, e)
    BY <1>1, <2>1 DEF CacheHolds, IsAdmission, SameRules
  <2>4. /\ DOMAIN q.entries = DOMAIN p.entries \union {t}
        /\ q.entries[t] = e
        /\ \A u \in DOMAIN p.entries : q.entries[u] = p.entries[u]
    BY <1>4, <2>3 DEF Put
  <2>5. \A u : BuildKey(q, s, u) = BuildKey(p, s, u)
    BY <2>3, KeyOfDocument
  <2>6. \A u : Fits(q, s, u) <=> Fits(p, s, u)
    BY <2>3, <2>5 DEF Fits
  <2>7. \A u \in DOMAIN q.entries : u \in TablesOf(s) /\ EntryHolds(q, s, u)
    BY <1>2, <1>4, <2>2, <2>4, <2>5, <2>6 DEF EntryHolds
  <2>8. CacheHolds(q)
    BY <1>1, <2>3, <2>7, EntriesOfDocument
  <2>9. SameRules(a, q)
    BY <1>1, <2>3 DEF SameRules
  <2>10. QED
    BY <1>1, <2>3, <2>4, <2>6, <2>7, <2>8, <2>9
<1>5. QED
  BY <1>3, <1>4

\* What the cache answers is what was last measured, if the document still fits.
LEMMA PermitsIsFits ==
  ASSUME NEW a, CacheHolds(a), NEW s, NEW t \in TablesOf(s)
  PROVE  Permits(a, s, t) <=> IF a.enabled THEN Fits(a, s, t) ELSE LegacyPermits(s, t)
BY LookedUpHolds DEF Permits, EntryHolds

\* The tables on which a view may act are those whose key was measured.
LEMMA CanBuildHasKey ==
  ASSUME NEW a, CacheHolds(a), a.enabled, NEW s, NEW t \in TablesOf(s), CanBuild(a, s, t)
  PROVE  BuildKey(a, s, t) # InvalidKey
<1>1. SameRules(a, LookedUp(a, s, t)) /\ EntryHolds(LookedUp(a, s, t), s, t)
  BY LookedUpHolds
<1>2. Key(a, s, t) = BuildKey(a, s, t)
  BY <1>1, KeyOfDocument DEF Key, EntryHolds
<1>3. QED
  BY <1>2 DEF CanBuild

LEMMA KeyOfTable ==
  ASSUME NEW a, CacheHolds(a), NEW s, NEW t \in TablesOf(s)
  PROVE  Key(a, s, t) = BuildKey(a, s, t)
<1>1. SameRules(a, LookedUp(a, s, t)) /\ EntryHolds(LookedUp(a, s, t), s, t)
  BY LookedUpHolds
<1>2. QED
  BY <1>1, KeyOfDocument DEF Key, EntryHolds

LEMMA AskedHolds ==
  ASSUME NEW a, CacheHolds(a), NEW s, NEW t
  PROVE  CacheHolds(AskedAncestors(a, s, t)) /\ SameRules(a, AskedAncestors(a, s, t))
<1>1. CASE ~a.enabled \/ t \notin TablesOf(s)
  BY <1>1 DEF AskedAncestors, SameRules
<1>2. CASE a.enabled /\ t \in TablesOf(s)
  <2> DEFINE asked == LookedUp(a, s, t)
             u == s.doc.tables[t].within
  <2>1. CacheHolds(asked) /\ SameRules(a, asked)
    BY LookedUpHolds
  <2>2. CacheHolds(LookedUp(asked, s, u)) /\ SameRules(asked, LookedUp(asked, s, u))
    BY <2>1, LookedUpHolds
  <2>3. AskedAncestors(a, s, t) \in {asked, LookedUp(asked, s, u)}
    BY <1>2 DEF AskedAncestors
  <2>4. QED
    BY <2>1, <2>2, <2>3 DEF SameRules
<1>3. QED
  BY <1>1, <1>2

LEMMA AllLookedUpHolds ==
  ASSUME NEW a, CacheHolds(a), NEW s, NEW q, q = AllLookedUp(a, s)
  PROVE  /\ CacheHolds(q)
         /\ q.snapshot = Snapshot(s)
         /\ SameRules(a, q)
         /\ DOMAIN q.entries = TablesOf(s)
<1> DEFINE p == Prepared(a, s)
           e(t) == Entry(p, BuildKey(p, s, t))
<1>1. CacheHolds(p) /\ p.snapshot = Snapshot(s) /\ SameRules(a, p)
  BY PreparedHolds
<1>2. \A u \in DOMAIN p.entries : u \in TablesOf(s) /\ EntryHolds(p, s, u)
  BY <1>1, EntriesOfDocument
<1>3. q = [p EXCEPT !.entries = [t \in TablesOf(s) |->
                                   IF t \in DOMAIN p.entries THEN p.entries[t] ELSE e(t)]]
  BY DEF AllLookedUp
<1>4. \A t : /\ DOMAIN e(t) = {"key", "admitted"}
             /\ e(t).key = BuildKey(p, s, t)
             /\ e(t).admitted <=> Fits(p, s, t)
  BY KeyNamesItsTable DEF Entry, Fits
<1> HIDE DEF p, e
<1>5. /\ IsAdmission(q) /\ SameRules(p, q) /\ q.snapshot = p.snapshot /\ q.measured = p.measured
      /\ q.entries = [t \in TablesOf(s) |->
                        IF t \in DOMAIN p.entries THEN p.entries[t] ELSE e(t)]
  BY <1>1, <1>3 DEF CacheHolds, IsAdmission, SameRules
<1>6. \A u : BuildKey(q, s, u) = BuildKey(p, s, u)
  BY <1>5, KeyOfDocument
<1>7. \A u : Fits(q, s, u) <=> Fits(p, s, u)
  BY <1>5, <1>6 DEF Fits
<1>8. \A u \in DOMAIN q.entries : u \in TablesOf(s) /\ EntryHolds(q, s, u)
  BY <1>2, <1>4, <1>5, <1>6, <1>7 DEF EntryHolds
<1>9. QED
  BY <1>1, <1>5, <1>8, EntriesOfDocument DEF SameRules

\* A frame's measurements: every table of the document has its entry again.
LEMMA MeasuredTablesHold ==
  ASSUME NEW a, CacheHolds(a), a.enabled, NEW d, NEW good \in SUBSET TablesOf(session),
         NEW q, q = MeasuredTables(a, d, good)
  PROVE  CacheHolds(q) /\ SameRules(a, q)
<1> DEFINE p == AllLookedUp(a, session)
           ok == LaidOut(p, d, good)
           entries == [t \in DOMAIN p.entries |-> [p.entries[t] EXCEPT !.admitted = t \in ok]]
           measured == [t \in ok |-> p.entries[t].key]
<1>1. /\ CacheHolds(p) /\ p.snapshot = Snapshot(session) /\ SameRules(a, p)
      /\ DOMAIN p.entries = TablesOf(session)
  BY AllLookedUpHolds
<1>2. \A t \in TablesOf(session) : EntryHolds(p, session, t)
  BY <1>1, EntriesOfDocument
<1>3. q = [p EXCEPT !.entries = entries, !.measured = measured]
  BY DEF MeasuredTables
<1>4. \A t \in ok : t \in TablesOf(session) /\ BuildKey(p, session, t) # InvalidKey
  <2>1. SUFFICES ASSUME NEW t \in ok
                 PROVE  t \in TablesOf(session) /\ BuildKey(p, session, t) # InvalidKey
    OBVIOUS
  <2>2. t \in good /\ Measurable(p, d, t)
    BY DEF LaidOut
  <2>3. CanBuild(p, session, t)
    BY <2>2 DEF Measurable, Around, ToSet
  <2>4. QED
    BY <1>1, <2>2, <2>3, CanBuildHasKey DEF SameRules
<1> HIDE DEF p, ok, entries, measured
<1>5. IsAdmission(q) /\ SameRules(p, q) /\ q.snapshot = p.snapshot
  BY <1>1, <1>3 DEF CacheHolds, IsAdmission, SameRules
<1>6. \A t : BuildKey(q, session, t) = BuildKey(p, session, t)
  BY <1>5, KeyOfDocument
<1> USE DEF entries, measured
<1>7. q.measured = measured /\ q.entries = entries
  BY <1>1, <1>3 DEF CacheHolds, IsAdmission
<1>8. \A t \in TablesOf(session) : Fits(q, session, t) <=> t \in ok
  BY <1>2, <1>4, <1>6, <1>7 DEF Fits, EntryHolds
<1>9. \A t \in TablesOf(session) : EntryHolds(q, session, t)
  <2>1. SUFFICES ASSUME NEW t \in TablesOf(session) PROVE EntryHolds(q, session, t)
    OBVIOUS
  <2>2. q.entries[t] = [p.entries[t] EXCEPT !.admitted = t \in ok]
    BY <1>1, <1>7
  <2>3. DOMAIN p.entries[t] = {"key", "admitted"} /\ p.entries[t].key = BuildKey(p, session, t)
    BY <1>2 DEF EntryHolds
  <2>4. QED
    BY <1>6, <1>8, <2>2, <2>3 DEF EntryHolds
<1>10. QED
  BY <1>1, <1>5, <1>9, <1>7, EntriesOfDocument DEF SameRules

\* The outcome of a layout reaches the table's entry and its measurement alike.
LEMMA RevokedHolds ==
  ASSUME NEW a, CacheHolds(a), NEW t, NEW q, q = Revoked(a, t)
  PROVE  CacheHolds(q) /\ SameRules(a, q)
<1> DEFINE entries == [u \in DOMAIN a.entries |->
                         IF u = t THEN [a.entries[u] EXCEPT !.admitted = FALSE] ELSE a.entries[u]]
<1>1. q = [a EXCEPT !.measured = Without(a.measured, t), !.entries = entries]
  BY DEF Revoked
<1>2. /\ IsAdmission(q) /\ SameRules(a, q) /\ q.snapshot = a.snapshot
      /\ q.measured = Without(a.measured, t) /\ q.entries = entries
  BY <1>1 DEF CacheHolds, IsAdmission, SameRules
<1>3. Cached(q) = Cached(a)
  BY <1>2 DEF Cached
<1>4. \A u : BuildKey(q, Cached(a), u) = BuildKey(a, Cached(a), u)
  BY <1>2, KeyOfDocument
<1>5. \A u : Fits(q, Cached(a), u) <=> u # t /\ Fits(a, Cached(a), u)
  BY <1>2, <1>4 DEF Fits, Without
<1>6. \A u \in DOMAIN q.entries : u \in TablesOf(Cached(a)) /\ EntryHolds(q, Cached(a), u)
  <2>1. SUFFICES ASSUME NEW u \in DOMAIN q.entries
                 PROVE  u \in TablesOf(Cached(a)) /\ EntryHolds(q, Cached(a), u)
    OBVIOUS
  <2>2. u \in TablesOf(Cached(a)) /\ EntryHolds(a, Cached(a), u)
    BY <1>2 DEF CacheHolds
  <2>3. q.entries[u] = IF u = t THEN [a.entries[u] EXCEPT !.admitted = FALSE] ELSE a.entries[u]
    BY <1>2
  <2>4. QED
    BY <1>4, <1>5, <2>2, <2>3 DEF EntryHolds
<1>7. a.snapshot = NoSnapshot => q.entries = NoEntries
  BY <1>2 DEF CacheHolds, NoEntries
<1>8. QED
  BY <1>2, <1>3, <1>6, <1>7 DEF CacheHolds

LEMMA AdmittedHolds ==
  ASSUME NEW a, CacheHolds(a), NEW t, NEW key, key # InvalidKey, NEW q, q = Admitted(a, t, key)
  PROVE  CacheHolds(q) /\ SameRules(a, q)
<1>1. CASE ~(t \in DOMAIN a.entries /\ a.entries[t].key = key)
  BY <1>1 DEF Admitted, SameRules
<1>2. CASE t \in DOMAIN a.entries /\ a.entries[t].key = key
  <2>1. q = [a EXCEPT !.entries[t].admitted = TRUE, !.measured = Put(a.measured, t, key)]
    BY <1>2 DEF Admitted
  <2>2. EntryHolds(a, Cached(a), t)
    BY <1>2 DEF CacheHolds
  <2>3. /\ IsAdmission(q) /\ SameRules(a, q) /\ q.snapshot = a.snapshot
        /\ q.measured = Put(a.measured, t, key)
        /\ DOMAIN q.entries = DOMAIN a.entries
        /\ DOMAIN q.entries[t] = {"key", "admitted"}
        /\ q.entries[t].key = key /\ q.entries[t].admitted
        /\ \A u \in DOMAIN a.entries \ {t} : q.entries[u] = a.entries[u]
    BY <1>2, <2>1, <2>2 DEF CacheHolds, IsAdmission, SameRules, EntryHolds
  <2>4. Cached(q) = Cached(a)
    BY <2>3 DEF Cached
  <2>5. \A u : BuildKey(q, Cached(a), u) = BuildKey(a, Cached(a), u)
    BY <2>3, KeyOfDocument
  <2>6. BuildKey(a, Cached(a), t) = key
    BY <1>2, <2>2 DEF EntryHolds
  <2>7. Fits(q, Cached(a), t)
    BY <2>3, <2>5, <2>6 DEF Fits, Put
  <2>8. \A u : u # t => (Fits(q, Cached(a), u) <=> Fits(a, Cached(a), u))
    BY <2>3, <2>5 DEF Fits, Put
  <2>9. \A u \in DOMAIN q.entries : u \in TablesOf(Cached(a)) /\ EntryHolds(q, Cached(a), u)
    <3>1. t \in TablesOf(Cached(a)) /\ EntryHolds(q, Cached(a), t)
      BY <1>2, <2>3, <2>5, <2>6, <2>7 DEF CacheHolds, EntryHolds
    <3>2. \A u \in DOMAIN a.entries \ {t} : u \in TablesOf(Cached(a)) /\ EntryHolds(a, Cached(a), u)
      BY DEF CacheHolds
    <3>3. \A u \in DOMAIN a.entries \ {t} : EntryHolds(q, Cached(a), u)
      BY <2>3, <2>5, <2>8, <3>2 DEF EntryHolds
    <3>4. QED
      BY <2>3, <3>1, <3>2, <3>3
  <2>10. a.snapshot # NoSnapshot
    BY <1>2 DEF CacheHolds, NoEntries
  <2>11. QED
    BY <2>3, <2>4, <2>9, <2>10 DEF CacheHolds
<1>3. QED
  BY <1>1, <1>2

LEMMA RecordedHolds ==
  ASSUME NEW a, CacheHolds(a), NEW t, NEW key, key # InvalidKey, NEW success
  PROVE  CacheHolds(Recorded(a, t, key, success)) /\ SameRules(a, Recorded(a, t, key, success))
<1>1. Recorded(a, t, key, success) \in {a, Admitted(a, t, key), Revoked(a, t)}
  BY DEF Recorded
<1>2. SameRules(a, a)
  BY DEF SameRules
<1>3. QED
  BY <1>1, <1>2, AdmittedHolds, RevokedHolds

-----------------------------------------------------------------------------
(* The cache over a behaviour.                                             *)

CacheInv == CacheHolds(admission)

LEMMA CacheInit == Init => CacheInv
<1> SUFFICES ASSUME Init PROVE CacheInv
  OBVIOUS
<1>1. IsAdmission(admission) /\ admission.entries = NoEntries
  BY DEF Init, ResizeInit, AdmissionInit, IsAdmission
<1>2. QED
  BY <1>1, EmptyCacheHolds DEF CacheInv

LEMMA CacheStep == CacheInv /\ [Next]_vars => CacheInv'
<1> SUFFICES ASSUME CacheInv, [Next]_vars PROVE CacheHolds(admission')
  BY DEF CacheInv
<1> USE DEF CacheInv
<1>1. CASE UNCHANGED admission
  BY <1>1
<1>2. CASE Press
  BY <1>2, AskedHolds DEF Press
<1>3. CASE Frame
  BY <1>3, MeasuredTablesHold DEF Frame
<1>4. CASE CommitReturns
  <2> DEFINE d == call.gesture
             key == Key(admission, session, d.table)
  <2>1. admission' = admission \/
        /\ key # InvalidKey
        /\ admission' = Recorded(LookedUp(admission, session, d.table), d.table, key, TRUE)
    BY <1>4 DEF CommitReturns, Readmits
  <2>2. CacheHolds(LookedUp(admission, session, d.table))
    BY LookedUpHolds
  <2>3. QED
    BY <2>1, <2>2, RecordedHolds
<1>5. CASE Asked
  <2>1. CASE AskPermission
    BY <2>1, AskedHolds DEF AskPermission
  <2>2. CASE AskDocument
    BY <2>2, PreparedHolds DEF AskDocument
  <2>3. QED
    BY <1>5, <2>1, <2>2 DEF Asked
<1>6. CASE HostConfigures
  <2>1. PICK enabled, metadata : admission' = Reconfigured(admission, enabled, metadata)
    BY <1>6 DEF HostConfigures
  <2>2. IsAdmission(admission') /\ admission'.entries = NoEntries
    BY <2>1 DEF Reconfigured, IsAdmission
  <2>3. QED
    BY <2>2, EmptyCacheHolds
<1>7. QED
  BY <1>1, <1>2, <1>3, <1>4, <1>5, <1>6
     DEF Next, Steps, Changes, vars, ResizeSteps, ResizeChanges, resizeVars,
         Move, Release, Deferred, Wheel, HostInstalls, ScreenChanges

LEMMA CacheAlways == Spec => []CacheInv
<1>1. QED
  BY CacheInit, CacheStep, PTL DEF Spec

(* What a view is told about a table is what its document says now, for    *)
(* any sequence of edits, rollbacks, replaced contents, policies and       *)
(* frames (CapabilityCache::prepare, table, record, revoke).               *)
THEOREM CacheTransparent == Spec => []CacheIsTransparent
<1>1. CacheInv => CacheIsTransparent
  <2> SUFFICES ASSUME CacheInv, NEW t \in TablesOf(session),
                      NEW fresh, fresh = [admission EXCEPT !.snapshot = NoSnapshot,
                                                           !.entries = NoEntries]
               PROVE  Permits(admission, session, t) = Permits(fresh, session, t)
    BY DEF CacheIsTransparent
  <2>1. /\ IsAdmission(fresh) /\ fresh.entries = NoEntries
        /\ fresh.measured = admission.measured /\ SameRules(admission, fresh)
    BY DEF CacheInv, CacheHolds, IsAdmission, SameRules
  <2>2. CacheHolds(fresh)
    BY <2>1, EmptyCacheHolds
  <2>3. Fits(fresh, session, t) <=> Fits(admission, session, t)
    BY <2>1, KeyOfDocument DEF Fits
  <2>4. Permits(admission, session, t) <=> Permits(fresh, session, t)
    BY <2>1, <2>2, <2>3, PermitsIsFits DEF CacheInv, SameRules
  <2>5. Permits(admission, session, t) \in BOOLEAN /\ Permits(fresh, session, t) \in BOOLEAN
    BY DEF Permits, LegacyPermits
  <2>6. QED
    BY <2>4, <2>5
<1>2. QED
  BY <1>1, CacheAlways, PTL

-----------------------------------------------------------------------------
(* The gesture over a behaviour.                                           *)

\* Only a new configuration changes the rules that keys are built by.
LEMMA RulesKept ==
  ASSUME CacheInv, [Next]_vars
  PROVE  SameRules(admission, admission') \/ (drag' = NoDrag /\ measurements' = {})
<1> USE DEF CacheInv
<1>1. CASE UNCHANGED admission
  BY <1>1 DEF SameRules
<1>2. CASE Press
  BY <1>2, AskedHolds DEF Press
<1>3. CASE Frame
  <2>1. CASE UNCHANGED admission
    BY <2>1 DEF SameRules
  <2>2. CASE admission.enabled
    BY <1>3, <2>2, MeasuredTablesHold DEF Frame
  <2>3. QED
    BY <1>3, <2>1, <2>2 DEF Frame
<1>4. CASE CommitReturns
  <2> DEFINE d == call.gesture
             key == Key(admission, session, d.table)
             looked == LookedUp(admission, session, d.table)
  <2>1. admission' = admission \/
        (key # InvalidKey /\ admission' = Recorded(looked, d.table, key, TRUE))
    BY <1>4 DEF CommitReturns, Readmits
  <2>2. CacheHolds(looked) /\ SameRules(admission, looked)
    BY LookedUpHolds
  <2>3. key # InvalidKey => SameRules(looked, Recorded(looked, d.table, key, TRUE))
    BY <2>2, RecordedHolds
  <2>4. QED
    BY <2>1, <2>2, <2>3 DEF SameRules
<1>5. CASE Asked
  <2>1. CASE AskPermission
    BY <2>1, AskedHolds DEF AskPermission
  <2>2. CASE AskDocument
    BY <2>2, PreparedHolds DEF AskDocument, SameRules
  <2>3. QED
    BY <1>5, <2>1, <2>2 DEF Asked
<1>6. CASE HostConfigures
  BY <1>6 DEF HostConfigures
<1>7. QED
  BY <1>1, <1>2, <1>3, <1>4, <1>5, <1>6
     DEF Next, Steps, Changes, vars, ResizeSteps, ResizeChanges, resizeVars,
         Move, Release, Deferred, Wheel, HostInstalls, ScreenChanges

IsMeasurement(m) ==
  DOMAIN m = {"table", "rev", "doc", "key", "available", "origin", "width"}
IsGesture(d) ==
  DOMAIN d = {"token", "released", "queued", "table", "rev", "doc", "key",
              "available", "origin", "width"}

\* What was measured, of the document it was measured in.
KeyHolds(m) ==
  /\ m.table \in DOMAIN m.doc.tables
  /\ m.key = BuildKey(admission, m, m.table)

\* A frame measures a table once; a gesture has the key of the document it was
\* pressed on; one that is queued was measured, and waits for its commit alone.
MeasurementsHold ==
  /\ \A m \in measurements : IsMeasurement(m) /\ KeyHolds(m)
  /\ \A m, n \in measurements : m.table = n.table => m = n
DragHolds == Active(drag) => IsGesture(drag) /\ KeyHolds(drag)
QueueHolds ==
  Active(drag) /\ drag.queued =>
    drag.released /\ queue = {drag.token} /\ Exact(drag, measurements)
CallHolds ==
  call.kind = "resize" => call.gesture.table \in DOMAIN call.gesture.doc.tables
ResizeInv == MeasurementsHold /\ DragHolds /\ QueueHolds /\ CallHolds

LEMMA ValidatedGesture ==
  ASSUME NEW d, NEW ms
  PROVE  /\ Validated(d, ms) \in {d, NoDrag}
         /\ Active(Validated(d, ms)) => Active(d) /\ Valid(d, ms)
BY DEF Validated, Active

LEMMA GesturesAreActive ==
  ASSUME NEW d, IsGesture(d)
  PROVE  Active(d)
BY DEF IsGesture, Active, NoDrag

\* A preview changes the width alone.
LEMMA UpdatedGesture ==
  ASSUME NEW d, IsGesture(d), KeyHolds(d), NEW w, Active(Updated(d, w))
  PROVE  /\ IsGesture(Updated(d, w)) /\ KeyHolds(Updated(d, w))
         /\ Updated(d, w).released = d.released /\ Updated(d, w).queued = d.queued
<1>1. Updated(d, w) = [d EXCEPT !.width = w]
  BY DEF Updated, Active
<1> DEFINE u == [d EXCEPT !.width = w]
<1>2. /\ IsGesture(u) /\ u.released = d.released /\ u.queued = d.queued
      /\ u.doc = d.doc /\ u.table = d.table /\ u.key = d.key
  BY DEF IsGesture
<1>3. KeyHolds(u)
  BY <1>2 DEF KeyHolds, BuildKey
<1>4. QED
  BY <1>1, <1>2, <1>3

LEMMA ResizeInitInv == Init => ResizeInv
BY DEF Init, HostInit, ResizeInit, ResizeInv, MeasurementsHold, DragHolds, QueueHolds,
       CallHolds, Active, NoDrag, NoCall, None

\* Rules kept, keys still hold.
LEMMA KeyStill ==
  ASSUME SameRules(admission, admission'), NEW m, KeyHolds(m)
  PROVE  /\ m.table \in DOMAIN m.doc.tables
         /\ m.key = BuildKey(admission', m, m.table)
BY KeyOfDocument DEF KeyHolds

LEMMA MeasurementsStep ==
  ASSUME CacheInv, ResizeInv, [Next]_vars
  PROVE  MeasurementsHold'
<1>0. CASE measurements' = {}
  BY <1>0 DEF MeasurementsHold
<1>1. CASE UNCHANGED measurements
  <2>1. CASE measurements = {}
    BY <1>0, <1>1, <2>1
  <2>2. CASE SameRules(admission, admission')
    BY <1>1, <2>2, KeyStill DEF ResizeInv, MeasurementsHold, KeyHolds
  <2>3. QED
    BY <1>1, <2>1, <2>2, RulesKept
<1>2. CASE Frame /\ measurements' # measurements
  <2>1. PICK good, d2 :
          /\ good \in SUBSET TablesOf(session)
          /\ admission.enabled
          /\ admission' = MeasuredTables(admission, d2, good)
          /\ measurements' = Measurements(admission', d2, good)
          /\ session' = session
    BY <1>2 DEF Frame
  <2>2. CacheHolds(admission')
    BY <2>1, MeasuredTablesHold DEF CacheInv
  <2>3. ASSUME NEW m \in measurements'
        PROVE  \E t \in TablesOf(session) : m = Measurement(admission', d2, t)
    BY <2>1, <2>3 DEF Measurements, LaidOut
  <2>4. ASSUME NEW t \in TablesOf(session)
        PROVE  LET m == Measurement(admission', d2, t)
               IN /\ IsMeasurement(m) /\ m.table = t /\ m.doc = session.doc
                  /\ m.key = BuildKey(admission', m, t)
    <3>1. Key(admission', session, t) = BuildKey(admission', session, t)
      BY <2>2, KeyOfTable
    <3>2. QED
      BY <3>1 DEF Measurement, IsMeasurement, BuildKey
  <2>5. QED
    BY <2>3, <2>4 DEF MeasurementsHold, KeyHolds, TablesOf
<1>3. CASE CommitReturns /\ measurements' # measurements
  <2> DEFINE d == call.gesture
             key == Key(admission, session, d.table)
             moved(m) == [m EXCEPT !.key = key, !.doc = session.doc, !.rev = session.rev]
  <2>1. PICK own \in SUBSET measurements :
          /\ \A m \in own : OnlyWidths(d.doc, session.doc) /\ Readmits(d, m)
          /\ own # {}
          /\ measurements' = (measurements \ own) \union {moved(m) : m \in own}
    BY <1>3 DEF CommitReturns
  <2>2. d.table \in TablesOf(session)
    BY <1>3, <2>1 DEF CommitReturns, ResizeInv, CallHolds, OnlyWidths, TablesOf
  <2>3. key = BuildKey(admission, session, d.table)
    BY <2>2, KeyOfTable DEF CacheInv
  <2>4. own # {} /\ \A m \in own : m.table = d.table
    BY <2>1 DEF Readmits
  <2> HIDE DEF d, key
  <2>5. SameRules(admission, admission')
    <3>1. PICK m \in own : TRUE
      BY <2>1
    <3>2. moved(m) \in measurements'
      BY <2>1, <3>1
    <3>3. QED
      BY <3>2, RulesKept
  <2>6. ASSUME NEW m \in own
        PROVE  /\ IsMeasurement(moved(m)) /\ moved(m).table = m.table
               /\ moved(m).doc = session.doc /\ moved(m).key = key
    <3>1. IsMeasurement(m)
      BY <2>1 DEF ResizeInv, MeasurementsHold
    <3>2. QED
      BY <3>1 DEF IsMeasurement
  <2>7. ASSUME NEW m \in own
        PROVE  KeyHolds(moved(m))
    <3>1. BuildKey(admission, moved(m), d.table) = BuildKey(admission, session, d.table)
      BY <2>6 DEF BuildKey
    <3>2. moved(m).table = d.table
      BY <2>4, <2>6
    <3> HIDE DEF moved
    <3>3. QED
      BY <2>2, <2>3, <2>6, <3>1, <3>2 DEF KeyHolds, TablesOf
  <2> HIDE DEF moved
  <2>8. \A m \in measurements' : IsMeasurement(m) /\ KeyHolds(m)
    BY <2>1, <2>6, <2>7 DEF ResizeInv, MeasurementsHold
  <2>9. \A m \in measurements' :
          /\ IsMeasurement(m) /\ m.table \in DOMAIN m.doc.tables
          /\ m.key = BuildKey(admission', m, m.table)
    BY <2>5, <2>8, KeyStill
  <2>10. \A m, n \in measurements' : m.table = n.table => m = n
    BY <2>1, <2>4, <2>6 DEF ResizeInv, MeasurementsHold
  <2>11. QED
    BY <2>9, <2>10 DEF MeasurementsHold, KeyHolds
<1>4. QED
  BY <1>0, <1>1, <1>2, <1>3
     DEF Next, Steps, Changes, vars, ResizeSteps, ResizeChanges, resizeVars, Rest,
         Press, Move, Release, Deferred, Wheel, Asked, HostInstalls, HostConfigures, ScreenChanges

LEMMA FinishedGesture ==
  ASSUME NEW d, NEW d2 \in {d, NoDrag}, NEW ms, NEW ok,
         NEW f, f = FinishedMeasurement(IF ok THEN Validated(d2, ms) ELSE NoDrag, ms)
  PROVE  \/ f \in {d, NoDrag}
         \/ /\ Active(d) /\ d.released /\ Exact(d, ms)
            /\ f = [d EXCEPT !.queued = TRUE]
<1> DEFINE v == IF ok THEN Validated(d2, ms) ELSE NoDrag
<1>1. v \in {d, NoDrag}
  BY ValidatedGesture
<1>2. \/ f \in {v, NoDrag}
      \/ Active(v) /\ v.released /\ Exact(v, ms) /\ f = [v EXCEPT !.queued = TRUE]
  BY DEF FinishedMeasurement
<1>3. QED
  BY <1>1, <1>2 DEF Active

\* How a step changes the gesture.
LEMMA DragChanges ==
  ASSUME ResizeInv, [Next]_vars, drag' # drag, drag' # NoDrag
  PROVE  \/ Press
         \/ \E w : /\ Move \/ Release
                   /\ Active(drag) /\ ~drag.released /\ Active(Updated(drag, w))
                   /\ \/ Move /\ drag' = Updated(drag, w)
                      \/ /\ Release
                         /\ drag' = [Updated(drag, w) EXCEPT !.released = TRUE, !.queued = FALSE]
         \/ /\ Frame /\ Active(drag) /\ drag.released /\ Exact(drag, measurements')
            /\ drag' = [drag EXCEPT !.queued = TRUE]
            /\ queue' = IF Active(drag') /\ drag'.queued THEN {drag'.token} ELSE {}
<1>1. CASE Move
  BY <1>1 DEF Move, Active
<1>2. CASE Release
  <2>1. PICK w \in Widths \union {Outside} :
          LET d == Updated(drag, w)
              r == [d EXCEPT !.released = TRUE, !.queued = Exact(d, measurements)]
          IN IF ~Active(d) THEN drag' = NoDrag /\ call' = call
             ELSE IF r.queued THEN CommitNow(r)
             ELSE drag' = r /\ call' = call
    BY <1>2 DEF Release
  <2> DEFINE d == Updated(drag, w)
             r == [d EXCEPT !.released = TRUE, !.queued = Exact(d, measurements)]
  <2>2. Active(drag) /\ ~drag.released /\ Active(d)
    BY <1>2, <2>1 DEF Release, Active
  <2>3. IsGesture(d)
    BY <2>2, UpdatedGesture DEF ResizeInv, DragHolds
  <2>4. IsGesture(r) /\ r.released /\ (r.queued <=> Exact(d, measurements))
    BY <2>3 DEF IsGesture
  <2> HIDE DEF r
  <2>5. ~r.queued
    BY <2>1, <2>2, <2>4, ValidatedGesture DEF CommitNow, r, Active
  <2>6. drag' = r /\ ~Exact(d, measurements)
    BY <2>1, <2>2, <2>4, <2>5 DEF r
  <2>7. Exact(d, measurements) = FALSE
    BY <2>6 DEF Exact
  <2>8. r = [d EXCEPT !.released = TRUE, !.queued = FALSE]
    BY <2>7 DEF r
  <2>9. QED
    BY <1>2, <2>2, <2>6, <2>8
<1>3. CASE Deferred
  BY <1>3, ValidatedGesture DEF Deferred, CommitNow
<1>4. CASE Frame
  <2> DEFINE d1 == Validated(drag, measurements)
  <2>1. CASE drag' = d1
    BY <2>1, ValidatedGesture
  <2>2. CASE drag' # d1
    <3>1. PICK good \in SUBSET TablesOf(session) :
            LET d2 == OnScreen(d1)
                a == MeasuredTables(admission, d2, good)
                ms == Measurements(a, d2, good)
                ok == Active(d2) /\ \A u \in ToSet(Around(session, d2.table)) : Permits(a, session, u)
                d3 == FinishedMeasurement(IF ok THEN Validated(d2, ms) ELSE NoDrag, ms)
            IN /\ measurements' = ms /\ drag' = d3
               /\ queue' = IF Active(d3) /\ d3.queued THEN {d3.token} ELSE {}
      BY <1>4, <2>2 DEF Frame
    <3> DEFINE d2 == OnScreen(d1)
               a == MeasuredTables(admission, d2, good)
               ms == Measurements(a, d2, good)
               ok == Active(d2) /\ \A u \in ToSet(Around(session, d2.table)) : Permits(a, session, u)
    <3>2. d2 \in {drag, NoDrag}
      BY ValidatedGesture DEF OnScreen
    <3>3. /\ drag' = FinishedMeasurement(IF ok THEN Validated(d2, ms) ELSE NoDrag, ms)
          /\ measurements' = ms
          /\ queue' = IF Active(drag') /\ drag'.queued THEN {drag'.token} ELSE {}
      BY <3>1
    <3> HIDE DEF d2, ms, ok
    <3>4. \/ drag' \in {drag, NoDrag}
          \/ /\ Active(drag) /\ drag.released /\ Exact(drag, ms)
             /\ drag' = [drag EXCEPT !.queued = TRUE]
      BY <3>2, <3>3, FinishedGesture
    <3>5. QED
      BY <1>4, <3>3, <3>4
  <2>3. QED
    BY <2>1, <2>2
<1>5. QED
  BY <1>1, <1>2, <1>3, <1>4
     DEF Next, Steps, Changes, vars, ResizeSteps, ResizeChanges, resizeVars, Wheel, CommitReturns,
         Asked, HostInstalls, HostConfigures, ScreenChanges

LEMMA DragStep ==
  ASSUME CacheInv, ResizeInv, [Next]_vars
  PROVE  DragHolds'
<1>1. SUFFICES ASSUME Active(drag')
               PROVE  /\ IsGesture(drag') /\ drag'.table \in DOMAIN drag'.doc.tables
                      /\ drag'.key = BuildKey(admission', drag', drag'.table)
  BY DEF DragHolds, KeyHolds
<1>2. SameRules(admission, admission')
  BY <1>1, RulesKept DEF Active
<1>3. SUFFICES IsGesture(drag') /\ KeyHolds(drag')
  BY <1>2, KeyStill
<1>4. CASE drag' = drag
  BY <1>1, <1>4 DEF ResizeInv, DragHolds
<1>5. CASE Press
  <2>1. PICK m \in measurements : drag' = Begun(m)
    BY <1>5 DEF Press
  <2>2. KeyHolds(m)
    BY DEF ResizeInv, MeasurementsHold
  <2>3. QED
    BY <2>1, <2>2 DEF Begun, IsGesture, KeyHolds, BuildKey
<1>6. ASSUME NEW w, Active(drag), Active(Updated(drag, w)),
             \/ drag' = Updated(drag, w)
             \/ drag' = [Updated(drag, w) EXCEPT !.released = TRUE, !.queued = FALSE]
      PROVE  IsGesture(drag') /\ KeyHolds(drag')
  <2>1. IsGesture(Updated(drag, w)) /\ KeyHolds(Updated(drag, w))
    BY <1>6, UpdatedGesture DEF ResizeInv, DragHolds
  <2>2. QED
    BY <1>6, <2>1 DEF IsGesture, KeyHolds, BuildKey
<1>7. CASE Active(drag) /\ drag' = [drag EXCEPT !.queued = TRUE]
  BY <1>7 DEF ResizeInv, DragHolds, IsGesture, KeyHolds, BuildKey
<1>8. QED
  BY <1>1, <1>4, <1>5, <1>6, <1>7, DragChanges DEF Active

LEMMA ExactStill ==
  ASSUME ResizeInv, CommitReturns, NEW d, Exact(d, measurements)
  PROVE  Exact(d, measurements')
<1>1. PICK m \in measurements : m.table = d.table /\ m.width = d.width
  BY DEF Exact, MeasurementsOf
<1>2. CASE measurements' = measurements
  BY <1>2 DEF Exact, MeasurementsOf
<1>3. CASE measurements' # measurements
  <2> DEFINE key == Key(admission, session, call.gesture.table)
             moved(n) == [n EXCEPT !.key = key, !.doc = session.doc, !.rev = session.rev]
  <2>1. PICK own \in SUBSET measurements :
          measurements' = (measurements \ own) \union {moved(n) : n \in own}
    BY <1>3 DEF CommitReturns
  <2>2. moved(m).table = m.table /\ moved(m).width = m.width
    BY DEF ResizeInv, MeasurementsHold, IsMeasurement
  <2>3. m \in measurements' \/ moved(m) \in measurements'
    BY <1>1, <2>1
  <2> HIDE DEF moved
  <2>4. QED
    BY <1>1, <2>2, <2>3 DEF Exact, MeasurementsOf
<1>4. QED
  BY <1>2, <1>3

LEMMA QueueStep ==
  ASSUME CacheInv, ResizeInv, [Next]_vars
  PROVE  QueueHolds'
<1>1. SUFFICES ASSUME Active(drag'), drag'.queued
               PROVE  /\ drag'.released /\ queue' = {drag'.token}
                      /\ Exact(drag', measurements')
  BY DEF QueueHolds
<1>2. CASE drag' = drag
  <2>1. drag.released /\ queue = {drag.token} /\ Exact(drag, measurements)
    BY <1>1, <1>2 DEF ResizeInv, QueueHolds
  <2>2. ~Quiet /\ queue # {}
    BY <2>1 DEF Quiet
  <2>3. ~Deferred
    BY <1>1, <1>2, <2>1, ValidatedGesture DEF Deferred, CommitNow, Active
  <2>4. CASE CommitReturns
    BY <1>2, <2>1, <2>4, ExactStill DEF CommitReturns
  <2>5. CASE UNCHANGED <<queue, measurements>>
    BY <1>2, <2>1, <2>5
  <2>6. QED
    BY <1>1, <1>2, <2>2, <2>3, <2>4, <2>5
       DEF Next, Steps, Changes, vars, ResizeSteps, ResizeChanges, resizeVars, Active,
           Press, Move, Release, Wheel, Frame, Asked, HostInstalls, HostConfigures, ScreenChanges
<1>3. CASE Press
  BY <1>1, <1>3 DEF Press, Begun
<1>4. ASSUME NEW w, Active(drag), ~drag.released, Active(Updated(drag, w)),
             drag' = Updated(drag, w)
      PROVE  FALSE
  BY <1>1, <1>4, UpdatedGesture DEF ResizeInv, DragHolds, QueueHolds
<1>5. ASSUME NEW w, Active(drag), Active(Updated(drag, w)),
             drag' = [Updated(drag, w) EXCEPT !.released = TRUE, !.queued = FALSE]
      PROVE  FALSE
  <2>1. IsGesture(Updated(drag, w))
    BY <1>5, UpdatedGesture DEF ResizeInv, DragHolds
  <2>2. QED
    BY <1>1, <1>5, <2>1 DEF IsGesture
<1>6. CASE /\ Active(drag) /\ drag.released /\ Exact(drag, measurements')
           /\ drag' = [drag EXCEPT !.queued = TRUE]
           /\ queue' = IF Active(drag') /\ drag'.queued THEN {drag'.token} ELSE {}
  <2>1. /\ drag'.released = drag.released
        /\ drag'.table = drag.table /\ drag'.width = drag.width
    BY <1>6 DEF ResizeInv, DragHolds, IsGesture
  <2>2. QED
    BY <1>1, <1>6, <2>1 DEF Exact, MeasurementsOf
<1>7. QED
  BY <1>1, <1>2, <1>3, <1>4, <1>5, <1>6, DragChanges DEF Active

\* What the steps of a gesture wait for.
LEMMA CommitNowCalls ==
  ASSUME NEW d, CommitNow(d)
  PROVE  call' = call \/ call'.kind = "resize"
BY DEF CommitNow

LEMMA ResizeCalls ==
  ASSUME ResizeSteps \/ ResizeChanges, call' # call
  PROVE  /\ Release \/ Deferred \/ CommitReturns
         /\ call.kind \in {None, "resize"} /\ call'.kind \in {None, "resize"}
<1>1. CASE Press \/ Move \/ Wheel \/ Frame \/ Asked \/ ResizeChanges
  BY <1>1 DEF Press, Move, Wheel, Frame, Asked, AskPermission, AskDocument, ResizeChanges,
     HostInstalls, HostConfigures, ScreenChanges, HostSteps, Composes, hostVars
<1>2. CASE Release
  <2>1. call = NoCall
    BY <1>2 DEF Release, Quiet
  <2>2. PICK w \in Widths \union {Outside} :
          LET d == Updated(drag, w)
              r == [d EXCEPT !.released = TRUE, !.queued = Exact(d, measurements)]
          IN IF ~Active(d) THEN drag' = NoDrag /\ call' = call
             ELSE IF r.queued THEN CommitNow(r)
             ELSE drag' = r /\ call' = call
    BY <1>2 DEF Release
  <2> DEFINE d == Updated(drag, w)
             r == [d EXCEPT !.released = TRUE, !.queued = Exact(d, measurements)]
  <2>3. CommitNow(r)
    <3>1. IF ~Active(d) THEN drag' = NoDrag /\ call' = call
          ELSE IF r.queued THEN CommitNow(r)
          ELSE drag' = r /\ call' = call
      BY <2>2, Zenon
    <3> HIDE DEF d, r
    <3>2. QED
      BY <3>1
  <2> HIDE DEF d, r
  <2>4. call'.kind = "resize"
    BY <2>3, CommitNowCalls
  <2>5. QED
    BY <1>2, <2>1, <2>4 DEF NoCall
<1>3. CASE Deferred
  <2>1. call = NoCall /\ CommitNow(drag)
    BY <1>3 DEF Deferred
  <2>2. QED
    BY <1>3, <2>1, CommitNowCalls DEF NoCall
<1>4. CASE CommitReturns
  BY <1>4 DEF CommitReturns, NoCall
<1>5. QED
  BY <1>1, <1>2, <1>3, <1>4 DEF ResizeSteps

\* Only a valid gesture with a measured width reaches the host.
LEMMA CommitCalls ==
  ASSUME CacheInv, ResizeInv, [Next]_vars, call'.kind = "resize", call' # call
  PROVE  /\ Valid(call'.gesture, measurements)
         /\ Exact(call'.gesture, measurements)
         /\ KeyHolds(call'.gesture)
<1>1. CASE Release
  <2>1. PICK w \in Widths \union {Outside} :
          LET d == Updated(drag, w)
              r == [d EXCEPT !.released = TRUE, !.queued = Exact(d, measurements)]
          IN IF ~Active(d) THEN drag' = NoDrag /\ call' = call
             ELSE IF r.queued THEN CommitNow(r)
             ELSE drag' = r /\ call' = call
    BY <1>1 DEF Release
  <2> DEFINE d == Updated(drag, w)
             r == [d EXCEPT !.released = TRUE, !.queued = Exact(d, measurements)]
  <2>2. Active(d) /\ r.queued /\ CommitNow(r)
    BY <2>1
  <2>3. IsGesture(d) /\ KeyHolds(d)
    BY <1>1, <2>2, UpdatedGesture DEF ResizeInv, DragHolds, Release
  <2>4. /\ r.queued <=> Exact(d, measurements)
        /\ r.table = d.table /\ r.width = d.width /\ r.key = d.key /\ r.doc = d.doc
    BY <2>3 DEF IsGesture
  <2> HIDE DEF r
  <2>5. Exact(r, measurements) /\ KeyHolds(r)
    BY <2>2, <2>3, <2>4 DEF Exact, MeasurementsOf, KeyHolds, BuildKey
  <2>6. call'.gesture = r /\ Valid(r, measurements)
    BY <2>2, ValidatedGesture DEF CommitNow
  <2>7. QED
    BY <2>5, <2>6
<1>2. CASE Deferred
  <2>1. /\ call'.gesture = drag /\ drag.queued
        /\ Active(Validated(drag, measurements))
    BY <1>2 DEF Deferred, CommitNow
  <2>2. Active(drag) /\ Valid(drag, measurements)
    BY <2>1, ValidatedGesture
  <2>3. QED
    BY <2>1, <2>2 DEF ResizeInv, DragHolds, QueueHolds
<1>3. call'.kind # "resize" \/ call' = call \/ Release \/ Deferred
  <2>1. CASE ResizeSteps \/ ResizeChanges
    <3>1. Release \/ Deferred \/ CommitReturns
      BY <2>1, ResizeCalls
    <3>2. CommitReturns => call' = NoCall
      BY DEF CommitReturns
    <3>3. NoCall.kind # "resize"
      BY DEF NoCall, None
    <3>4. QED
      BY <3>1, <3>2, <3>3
  <2>2. CASE AtomSteps \/ AtomChanges
    BY <2>2 DEF AtomSteps, AtomChanges, Draw, PressKey, KeyAnswered, PointerDown, Captured,
         LegacyDown, PointerMove, PointerUp, ActivationReturns, FocusMoves, Deactivates,
         InstallsCapability, InstallsRenderers, HostSteps, Composes, hostVars, NoCall, None, Delivery
  <2>3. CASE ClipboardSteps \/ ClipboardChanges
    BY <2>3 DEF ClipboardSteps, ClipboardChanges, Copy, PreparedCut, GenericCut, PasteRejected,
         PasteNative, PasteText, PasteImage, Imported, Import, Pastes, OtherProgramCopies,
         HostSteps, Composes, hostVars, NoCall, None
  <2>4. CASE UNCHANGED vars
    BY <2>4 DEF vars, hostVars
  <2>5. QED
    BY <2>1, <2>2, <2>3, <2>4 DEF Next, Steps, Changes
<1>4. QED
  BY <1>1, <1>2, <1>3

LEMMA ResizeAlways == Spec => [](CacheInv /\ ResizeInv)
<1>1. Init => CacheInv /\ ResizeInv
  BY CacheInit, ResizeInitInv
<1>2. CacheInv /\ ResizeInv /\ [Next]_vars => CacheInv' /\ ResizeInv'
  <2> SUFFICES ASSUME CacheInv, ResizeInv, [Next]_vars PROVE CacheInv' /\ ResizeInv'
    OBVIOUS
  <2>1. CallHolds'
    BY CommitCalls DEF CallHolds, ResizeInv, KeyHolds
  <2>2. QED
    BY <2>1, CacheStep, MeasurementsStep, DragStep, QueueStep DEF ResizeInv
<1>3. QED
  BY <1>1, <1>2, PTL DEF Spec

(* A resize reaches its host for the document it was pressed on, with a    *)
(* width that the column was measured at under its present structure       *)
(* (end_column_resize, commit_measured_column_resize).                     *)
THEOREM MeasuredCommits == Spec => CommitIsMeasured
<1>1. CacheInv /\ ResizeInv /\ [Next]_vars =>
        [call = NoCall /\ call'.kind = "resize" =>
           LET d == call'.gesture
           IN /\ d.doc = session.doc /\ d.rev = session.rev
              /\ \E m \in measurements :
                   /\ m.table = d.table /\ m.width = d.width
                   /\ m.key = BuildKey(admission, session, d.table)]_<<hostVars, resizeVars>>
  <2> SUFFICES ASSUME CacheInv, ResizeInv, [Next]_vars, call = NoCall, call'.kind = "resize"
               PROVE  LET d == call'.gesture
                      IN /\ d.doc = session.doc /\ d.rev = session.rev
                         /\ \E m \in measurements :
                              /\ m.table = d.table /\ m.width = d.width
                              /\ m.key = BuildKey(admission, session, d.table)
    OBVIOUS
  <2> DEFINE d == call'.gesture
  <2>1. Valid(d, measurements) /\ Exact(d, measurements) /\ KeyHolds(d)
    BY CommitCalls DEF NoCall, None
  <2> HIDE DEF d
  <2>2. d.doc = session.doc /\ d.rev = session.rev
    BY <2>1 DEF Valid
  <2>3. PICK m \in measurements : m.table = d.table /\ m.key = d.key
    BY <2>1 DEF Valid, MeasurementsOf
  <2>4. PICK n \in measurements : n.table = d.table /\ n.width = d.width
    BY <2>1 DEF Exact, MeasurementsOf
  <2>5. m = n
    BY <2>3, <2>4 DEF ResizeInv, MeasurementsHold
  <2>6. d.key = BuildKey(admission, session, d.table)
    BY <2>1, <2>2 DEF KeyHolds, BuildKey
  <2>7. QED
    BY <2>2, <2>3, <2>4, <2>5, <2>6 DEF d
<1>2. QED
  BY <1>1, ResizeAlways, PTL DEF Spec, CommitIsMeasured

-----------------------------------------------------------------------------
(* Stamps.  An identity and a revision belong to one document, so that a   *)
(* frame of an old stamp is never taken for one of the present document.   *)

SessionHolds ==
  /\ DOMAIN session = {"identity", "rev", "doc", "sel"}
  /\ session.identity \in {1, 2} /\ session.rev \in Nat
  /\ DOMAIN view = {"epoch", "composing", "owner"}

\* The stamp of a frame that was drawn, if any was.
NotLater(f) ==
  f = NoFrame \/
  \E i, r \in Nat : \E e :
    /\ f = <<i, r, e>>
    /\ i < session.identity \/ (i = session.identity /\ r <= session.rev)

Same == Stamp' = Stamp /\ session'.doc = session.doc
Grows == session'.identity = session.identity /\ session'.rev = session.rev + 1
Loads == session.identity = 1 /\ session'.identity = 2

LEMMA SessionHoldsInit == Init => SessionHolds
BY DEF Init, HostInit, SessionHolds

LEMMA HostMoves ==
  ASSUME SessionHolds, HostSteps \/ Composes
  PROVE  SessionHolds' /\ (Same \/ Grows \/ Loads)
<1>1. CASE HostEdits
  BY <1>1 DEF HostEdits, SessionHolds, Grows
<1>2. CASE HostLoads
  BY <1>2 DEF HostLoads, SessionHolds, Loads
<1>3. CASE HostSelects
  BY <1>3 DEF HostSelects, SessionHolds, Same, Stamp
<1>4. CASE HostRevokes \/ Composes
  BY <1>4 DEF HostRevokes, Composes, SessionHolds, Same, Stamp
<1>5. QED
  BY <1>1, <1>2, <1>3, <1>4 DEF HostSteps

LEMMA ClipboardMoves ==
  ASSUME SessionHolds, ClipboardSteps
  PROVE  SessionHolds' /\ (Same \/ Grows)
<1>1. CASE Edited
  BY <1>1 DEF Edited, SessionHolds, Grows
<1>2. CASE Unedited
  BY <1>2 DEF Unedited, SessionHolds, Same, Stamp
<1>3. Edited \/ Unedited
  BY DEF ClipboardSteps, Copy, PreparedCut, GenericCut, PasteRejected, PasteNative, PasteText,
         PasteImage, Imported, Import, Insertion, Consumed, Intent, Silent, Rejects, Unedited
<1>4. QED
  BY <1>1, <1>2, <1>3

LEMMA SessionMoves ==
  ASSUME SessionHolds, [Next]_vars
  PROVE  SessionHolds' /\ (Same \/ Grows \/ Loads)
<1>1. CASE UNCHANGED <<session, view>>
  BY <1>1 DEF SessionHolds, Same, Stamp
<1>2. CASE ResizeSteps
  BY <1>1, <1>2 DEF ResizeSteps, Press, Move, Release, Deferred, Wheel, Frame, CommitReturns,
     Asked, AskPermission, AskDocument, Rest, hostVars
<1>3. CASE ResizeChanges \/ AtomChanges \/ ClipboardChanges
  BY <1>1, <1>3, HostMoves DEF ResizeChanges, AtomChanges, ClipboardChanges, HostInstalls,
     HostConfigures, ScreenChanges, FocusMoves, Deactivates, InstallsCapability,
     InstallsRenderers, OtherProgramCopies, hostVars
<1>4. CASE AtomSteps
  BY <1>1, <1>4 DEF AtomSteps, Draw, PressKey, KeyAnswered, PointerDown, Captured, LegacyDown,
     PointerMove, PointerUp, ActivationReturns, hostVars
<1>5. QED
  BY <1>1, <1>2, <1>3, <1>4, ClipboardMoves DEF Next, Steps, Changes, vars, hostVars

LEMMA StampsStay ==
  ASSUME SessionHolds, NEW f, NotLater(f), Same \/ Grows \/ Loads
  PROVE  /\ NotLater(f)'
         /\ f = Stamp' => f = Stamp /\ Same
<1>1. CASE Same
  BY <1>1 DEF Same, NotLater, Stamp
<1>2. CASE (Grows \/ Loads) /\ f = NoFrame
  BY <1>2 DEF NotLater, NoFrame, Stamp
<1>3. CASE (Grows \/ Loads) /\ f # NoFrame
  <2>1. PICK i, r, e :
          /\ i \in Nat /\ r \in Nat
          /\ f = <<i, r, e>>
          /\ i < session.identity \/ (i = session.identity /\ r <= session.rev)
    BY <1>3 DEF NotLater
  <2>2. i < session'.identity \/ (i = session'.identity /\ r < session'.rev)
    BY <1>3, <2>1 DEF SessionHolds, Grows, Loads
  <2>3. NotLater(f)'
    <3>1. i < session'.identity \/ (i = session'.identity /\ r <= session'.rev)
      BY <2>1, <2>2, <1>3 DEF SessionHolds, Grows, Loads
    <3>2. QED
      BY <2>1, <3>1 DEF NotLater
  <2>4. f # Stamp'
    BY <1>3, <2>1, <2>2 DEF Stamp, SessionHolds, Grows, Loads
  <2>5. QED
    BY <2>3, <2>4
<1>4. QED
  BY <1>1, <1>2, <1>3

-----------------------------------------------------------------------------
(* Chips.                                                                  *)

\* What the last frame drew is what the document has, if the stamp is of now.
Drawn == painted = Chips
OwnsLiveChips == \A c \in Owned : c \in DOMAIN Chips /\ keyboard.entries[c] = Chips[c]
KeyboardHolds ==
  /\ NotLater(keyboard.snapshot)
  /\ keyboard.snapshot = Stamp => Drawn /\ OwnsLiveChips
PointerHolds ==
  /\ NotLater(pointerFrame)
  /\ pointerFrame = Stamp => Drawn
\* No frame is drawn while a host answers.
QuestionHolds ==
  call.kind = "focusable" => call.stamp = keyboard.snapshot \/ Owned = {}
AtomInv == SessionHolds /\ KeyboardHolds /\ PointerHolds /\ QuestionHolds

LEMMA AtomInitInv == Init => AtomInv
BY SessionHoldsInit
   DEF Init, HostInit, AtomInit, AtomInv, KeyboardHolds, PointerHolds, QuestionHolds,
       NotLater, Invalidated, NoFrame, Stamp, NoCall, None

LEMMA StampNotLater == SessionHolds => NotLater(Stamp)
BY DEF SessionHolds, NotLater, Stamp

LEMMA KeyboardStep ==
  ASSUME AtomInv, [Next]_vars
  PROVE  KeyboardHolds'
<1>1. SessionHolds' /\ (Same \/ Grows \/ Loads)
  BY SessionMoves DEF AtomInv
<1>2. CASE UNCHANGED <<keyboard, painted>>
  <2>1. NotLater(keyboard.snapshot)' /\ (keyboard.snapshot = Stamp' => keyboard.snapshot = Stamp /\ Same)
    BY <1>1, StampsStay, <1>2 DEF AtomInv, KeyboardHolds, NotLater
  <2>2. QED
    BY <1>2, <2>1 DEF AtomInv, KeyboardHolds, Drawn, OwnsLiveChips, Owned, Chips, Same
<1>3. CASE Draw
  <2>1. NotLater(Stamp)'
    BY <1>1 DEF SessionHolds, NotLater, Stamp
  <2>2. /\ keyboard'.snapshot = Stamp' /\ painted' = Chips'
        /\ \E targets \in SUBSET DOMAIN Chips' : keyboard'.entries = [c \in targets |-> Chips'[c]]
    BY <1>3 DEF Draw, hostVars, Stamp, Chips, VisibleChips
  <2>3. QED
    BY <2>1, <2>2 DEF KeyboardHolds, Drawn, OwnsLiveChips, Owned, NotLater
<1>4. CASE keyboard' = Invalidated
  BY <1>4 DEF Invalidated, KeyboardHolds, NotLater, NoFrame, Stamp
<1>5. QED
  BY <1>2, <1>3, <1>4
     DEF Next, Steps, Changes, vars, atomVars, AtomSteps, AtomChanges, PressKey, KeyAnswered,
         PointerDown, Captured, LegacyDown, PointerMove, PointerUp, ActivationReturns, FocusMoves,
         Deactivates, InstallsCapability, InstallsRenderers

LEMMA PointerStep ==
  ASSUME AtomInv, [Next]_vars
  PROVE  PointerHolds'
<1>1. SessionHolds' /\ (Same \/ Grows \/ Loads)
  BY SessionMoves DEF AtomInv
<1>2. CASE UNCHANGED <<pointerFrame, painted>>
  <2>1. NotLater(pointerFrame)' /\ (pointerFrame = Stamp' => pointerFrame = Stamp /\ Same)
    BY <1>1, StampsStay, <1>2 DEF AtomInv, PointerHolds, NotLater
  <2>2. QED
    BY <1>2, <2>1 DEF AtomInv, PointerHolds, Drawn, Chips, Same
<1>3. CASE Draw
  <2>1. NotLater(Stamp)'
    BY <1>1 DEF SessionHolds, NotLater, Stamp
  <2>2. pointerFrame' = Stamp' /\ painted' = Chips'
    BY <1>3 DEF Draw, hostVars, Stamp, Chips
  <2>3. QED
    BY <2>1, <2>2 DEF PointerHolds, Drawn, NotLater
<1>4. CASE pointerFrame' = NoFrame
  BY <1>4 DEF PointerHolds, NotLater, NoFrame, Stamp
<1>5. QED
  BY <1>2, <1>3, <1>4
     DEF Next, Steps, Changes, vars, atomVars, AtomSteps, AtomChanges, PressKey, KeyAnswered,
         PointerDown, Captured, LegacyDown, PointerMove, PointerUp, ActivationReturns, FocusMoves,
         Deactivates, InstallsCapability, InstallsRenderers

\* What a step asks of the host or gives it, for the chips.
LEMMA ChipCalls ==
  ASSUME [Next]_vars, call' # call, call'.kind \in {"focusable", "activate", "click"}
  PROVE  PressKey \/ KeyAnswered \/ PointerUp
<1>1. ~(ResizeSteps \/ ResizeChanges)
  BY ResizeCalls DEF None
<1>2. CASE AtomSteps \/ AtomChanges
  BY <1>2 DEF AtomSteps, AtomChanges, Draw, PointerDown, Captured, LegacyDown, PointerMove,
     ActivationReturns, FocusMoves, Deactivates, InstallsCapability, InstallsRenderers,
     HostSteps, Composes, hostVars, NoCall, None, Delivery
<1>3. CASE ClipboardSteps \/ ClipboardChanges
  BY <1>3 DEF ClipboardSteps, ClipboardChanges, Copy, PreparedCut, GenericCut, PasteRejected,
     PasteNative, PasteText, PasteImage, Imported, Import, Pastes, OtherProgramCopies,
     HostSteps, Composes, hostVars, NoCall, None
<1>4. QED
  BY <1>1, <1>2, <1>3 DEF Next, Steps, Changes, vars, hostVars

LEMMA QuestionStep ==
  ASSUME AtomInv, [Next]_vars
  PROVE  QuestionHolds'
<1> SUFFICES ASSUME call'.kind = "focusable"
             PROVE  call'.stamp = keyboard'.snapshot \/ Owned' = {}
  BY DEF QuestionHolds
<1>1. CASE call' = call
  <2>1. call.kind = "focusable" /\ call # NoCall
    BY <1>1 DEF NoCall, None
  <2>2. keyboard' = keyboard \/ keyboard' = Invalidated
    BY <2>1 DEF Next, Steps, Changes, vars, atomVars, AtomSteps, AtomChanges, PressKey, KeyAnswered,
         PointerDown, Captured, LegacyDown, PointerMove, PointerUp, ActivationReturns, FocusMoves,
         Deactivates, InstallsCapability, InstallsRenderers, Draw
  <2>3. CASE keyboard' = Invalidated
    BY <2>3 DEF Invalidated, NoChips, Owned
  <2>4. CASE keyboard' = keyboard
    BY <1>1, <2>1, <2>4 DEF AtomInv, QuestionHolds, Owned
  <2>5. QED
    BY <2>2, <2>3, <2>4
<1>2. CASE PressKey
  BY <1>2 DEF PressKey, ChipIsLive, atomVars
<1>3. CASE KeyAnswered \/ PointerUp
  BY <1>3 DEF KeyAnswered, PointerUp, Delivery, NoCall, None
<1>4. QED
  BY <1>1, <1>2, <1>3, ChipCalls

LEMMA AtomAlways == Spec => []AtomInv
<1>1. AtomInv /\ [Next]_vars => AtomInv'
  BY SessionMoves, KeyboardStep, PointerStep, QuestionStep DEF AtomInv
<1>2. QED
  BY AtomInitInv, <1>1, PTL DEF Spec

(* A key or a click activates a chip that the document has so, that the    *)
(* last frame painted so, through the adapter installed now, whatever the  *)
(* host does in its callbacks or between press and release (atom_key,      *)
(* AtomPointerGesture::is_current).                                        *)
THEOREM ShownChipsActivate == Spec => ActivationShowsTheDocument
<1>1. AtomInv /\ [Next]_vars =>
        [call'.kind \in {"activate", "click"} /\ call' # call =>
           LET c == call'.node
           IN /\ c \in DOMAIN Chips /\ Chips[c].attrs = call'.attrs
              /\ c \in DOMAIN painted /\ painted[c] = Chips[c]
              /\ call'.capability = capability]_<<hostVars, atomVars>>
  <2> SUFFICES ASSUME AtomInv, [Next]_vars, call'.kind \in {"activate", "click"}, call' # call
               PROVE  LET c == call'.node
                      IN /\ c \in DOMAIN Chips /\ Chips[c].attrs = call'.attrs
                         /\ c \in DOMAIN painted /\ painted[c] = Chips[c]
                         /\ call'.capability = capability
    OBVIOUS
  <2>1. CASE KeyAnswered
    <3>1. /\ call.kind = "focusable" /\ KeyIsCurrent(call)
          /\ call' = Delivery("activate", call.node, call.entry.attrs, call.capability)
      BY <2>1 DEF KeyAnswered, NoCall, None
    <3>2. keyboard.snapshot = Stamp
      BY <3>1 DEF KeyIsCurrent, AtomInv, QuestionHolds
    <3>3. Drawn /\ call.node \in DOMAIN Chips /\ Chips[call.node] = call.entry
      BY <3>1, <3>2 DEF KeyIsCurrent, AtomInv, KeyboardHolds, OwnsLiveChips
    <3>4. QED
      BY <3>1, <3>3 DEF Delivery, Drawn, KeyIsCurrent
  <2>2. CASE PointerUp
    <3>0. PICK place \in Places, over \in BOOLEAN :
            call' = IF OverItsChip(pointer, place, over)
                      THEN Delivery("click", pointer.node, pointer.attrs, pointer.capability)
                      ELSE NoCall
      BY <2>2 DEF PointerUp
    <3>1. /\ OverItsChip(pointer, place, over)
          /\ call' = Delivery("click", pointer.node, pointer.attrs, pointer.capability)
      BY <3>0 DEF NoCall, None
    <3>2. PressIsCurrent(pointer)
      BY <3>1 DEF OverItsChip
    <3>3. Drawn
      BY <3>2 DEF PressIsCurrent, AtomInv, PointerHolds
    <3>4. PICK hit \in Hits(place) :
            hit = [node |-> pointer.node, attrs |-> pointer.attrs, place |-> pointer.place]
      BY <3>1 DEF OverItsChip
    <3>5. PICK c \in DOMAIN Chips : hit = [node |-> c, attrs |-> Chips[c].attrs, place |-> place]
      BY <3>4 DEF Hits, VisibleChips
    <3>6. pointer.node \in DOMAIN Chips /\ Chips[pointer.node].attrs = pointer.attrs
      BY <3>4, <3>5
    <3>7. QED
      BY <3>1, <3>2, <3>3, <3>6 DEF Delivery, Drawn, PressIsCurrent
  <2>3. ~PressKey
    BY DEF PressKey
  <2>4. QED
    BY <2>1, <2>2, <2>3, ChipCalls
<1>2. QED
  BY <1>1, AtomAlways, PTL DEF Spec, ActivationShowsTheDocument

-----------------------------------------------------------------------------
(* Images.                                                                 *)

\* A service works for a paste that was stamped, or for one that never is.
ImportHolds ==
  call.kind = "import" => \E i, r, x : call.source = [identity |-> i, rev |-> r, sel |-> x]

LEMMA ImportCalls ==
  ASSUME [Next]_vars, call' # call, call'.kind = "import" \/ call.kind = "import"
  PROVE  PasteImage \/ Imported
<1>1. ~(ResizeSteps \/ ResizeChanges)
  BY ResizeCalls DEF None
<1>2. CASE AtomSteps \/ AtomChanges
  BY <1>2 DEF AtomSteps, AtomChanges, Draw, PressKey, KeyAnswered, PointerDown, Captured, LegacyDown,
     PointerMove, PointerUp, ActivationReturns, FocusMoves, Deactivates, InstallsCapability,
     InstallsRenderers, HostSteps, Composes, hostVars, NoCall, None, Delivery
<1>3. CASE ClipboardSteps \/ ClipboardChanges
  BY <1>3 DEF ClipboardSteps, ClipboardChanges, Copy, PreparedCut, GenericCut, PasteRejected,
     PasteNative, PasteText, OtherProgramCopies, HostSteps, Composes, hostVars
<1>4. QED
  BY <1>1, <1>2, <1>3 DEF Next, Steps, Changes, vars, hostVars

LEMMA ImportStep ==
  ASSUME ImportHolds, [Next]_vars
  PROVE  ImportHolds'
<1>1. CASE call' = call
  BY <1>1 DEF ImportHolds
<1>2. CASE PasteImage /\ call' # call
  <2>1. call' \in {[kind |-> "import", source |-> NoStamp], [kind |-> "import", source |-> ImageStamp]}
    BY <1>2 DEF PasteImage, Import
  <2>2. call'.source \in {NoStamp, ImageStamp}
    BY <2>1
  <2>3. QED
    BY <2>2 DEF NoStamp, ImageStamp, ImportHolds
<1>3. CASE Imported
  BY <1>3 DEF Imported, ImportHolds, NoCall, None
<1>4. QED
  BY <1>1, <1>2, <1>3, ImportCalls DEF ImportHolds

(* An image that was pasted for a place in a document is inserted there    *)
(* and then, or not at all (paste, the local stamp).                       *)
THEOREM ImagesLand == Spec => ImportLandsWhereItWasAsked
<1>1. Init => ImportHolds
  BY DEF Init, HostInit, ImportHolds, NoCall, None
<1>2. ImportHolds /\ [Next]_vars => ImportHolds'
  BY ImportStep
<1>3. ImportHolds /\ [Next]_vars =>
        [call.kind = "import" /\ call' = NoCall /\ session'.rev # session.rev
           => call.source.identity = 0 \/ ImageStamp = call.source]_<<hostVars, clipVars>>
  <2> SUFFICES ASSUME ImportHolds, [Next]_vars, call.kind = "import", call' = NoCall,
                      session'.rev # session.rev, call.source.identity # 0
               PROVE  ImageStamp = call.source
    OBVIOUS
  <2>1. Imported
    BY ImportCalls DEF PasteImage, Pastes, NoCall, None
  <2>2. ~Silent /\ ~Rejects("paste")
    BY DEF Silent, Rejects, Unedited
  <2>3. /\ session.identity = call.source.identity
        /\ session.rev = call.source.rev /\ session.sel = call.source.sel
    BY <2>1, <2>2 DEF Imported, Insertion
  <2>4. QED
    BY <2>3 DEF ImportHolds, ImageStamp
<1>4. QED
  BY <1>1, <1>2, <1>3, PTL DEF Spec, ImportLandsWhereItWasAsked
=============================================================================
