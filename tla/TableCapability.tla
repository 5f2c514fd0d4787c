-------------------------- MODULE TableCapability --------------------------
(***************************************************************************)
(* Which tables a view may edit (xiaomu-gpui/src/table_capability.rs and   *)
(* table_capability/cache.rs).  A table is admitted while the key of its   *)
(* current structure equals the key of its last successful measurement.    *)
(* The keys of the current document are cached per document snapshot.      *)
(*                                                                         *)
(* doc.tables maps each table to its layout [row, width, spans, within]:   *)
(* row is the metadata on its rows, width its canonical column, within the *)
(* table around it.                                                        *)
(***************************************************************************)
EXTENDS EditorHost

VARIABLE admission  \* [enabled, metadata, configuration, snapshot, entries, measured]

TablesOf(s) == DOMAIN s.doc.tables
NoEntries == <<>>
NoSnapshot == <<>>

\* build_key: the row metadata must be the allowed one.  Text is no part of it.
InvalidKey == [table |-> None]
BuildKey(a, s, t) ==
  LET layout == s.doc.tables[t]
  IN IF layout.row \in {None, a.metadata}
       THEN [table |-> t, configuration |-> a.configuration, layout |-> layout]
       ELSE InvalidKey

LegacyPermits(s, t) == t \in TablesOf(s) /\ ~s.doc.tables[t].spans

\* prepare: the cache is of one snapshot; another one keeps what was measured
\* of the tables it still has.
SnapshotByRevision(s) == <<s.rev>>  \* mutant: the stores are not compared
Snapshot(s) == <<s.rev, s.doc>>
Put(f, k, v) == [x \in DOMAIN f \union {k} |-> IF x = k THEN v ELSE f[x]]
Kept(f, keys) == [k \in DOMAIN f \cap keys |-> f[k]]
Prepared(a, s) ==
  IF a.snapshot = Snapshot(s) THEN a
  ELSE [a EXCEPT !.snapshot = Snapshot(s), !.entries = NoEntries,
                 !.measured = Kept(@, TablesOf(s))]

Entry(a, key) ==
  [key |-> key,
   admitted |-> key # InvalidKey /\ key.table \in DOMAIN a.measured
                  /\ a.measured[key.table] = key]

\* table: the entry of one table, built on the first query of a snapshot.
LookedUp(a, s, t) ==
  LET p == Prepared(a, s)
  IN IF t \notin TablesOf(s) \/ t \in DOMAIN p.entries THEN p
     ELSE [p EXCEPT !.entries = Put(@, t, Entry(p, BuildKey(p, s, t)))]

AllLookedUp(a, s) ==
  LET p == Prepared(a, s)
  IN [p EXCEPT !.entries = [t \in TablesOf(s) |->
                              IF t \in DOMAIN @ THEN @[t] ELSE Entry(p, BuildKey(p, s, t))]]

Key(a, s, t) == LookedUp(a, s, t).entries[t].key
CanBuild(a, s, t) == IF a.enabled THEN Key(a, s, t) # InvalidKey ELSE LegacyPermits(s, t)
Permits(a, s, t) ==
  IF a.enabled THEN t \in TablesOf(s) /\ LookedUp(a, s, t).entries[t].admitted
  ELSE LegacyPermits(s, t)

\* hidden_ancestor asks a table and then those around it, up to the first one
\* that is not admitted; every question may fill the cache.
Around(s, t) ==
  IF s.doc.tables[t].within = None THEN <<t>> ELSE <<t, s.doc.tables[t].within>>
HiddenAncestor(a, s, t) ==
  {u \in ToSet(Around(s, t)) : ~Permits(a, s, u)} # {}
AskedAncestors(a, s, t) ==
  IF ~a.enabled \/ t \notin TablesOf(s) THEN a
  ELSE LET asked == LookedUp(a, s, t)
           outer == s.doc.tables[t].within
       IN IF outer = None \/ ~Permits(asked, s, t) THEN asked ELSE LookedUp(asked, s, outer)

\* revoke and record.
Without(f, k) == [x \in DOMAIN f \ {k} |-> f[x]]
Revoked(a, t) ==
  [a EXCEPT !.measured = Without(@, t),
            !.entries = [u \in DOMAIN @ |->
                           IF u = t THEN [@[u] EXCEPT !.admitted = FALSE] ELSE @[u]]]
Admitted(a, t, key) ==
  IF t \in DOMAIN a.entries /\ a.entries[t].key = key
    THEN [a EXCEPT !.entries[t].admitted = TRUE, !.measured = Put(@, t, key)]
    ELSE a
Recorded(a, t, key, success) ==
  IF key.configuration # a.configuration THEN a
  ELSE IF success /\ a.enabled /\ key.table = t THEN Admitted(a, t, key)
  ELSE Revoked(a, t)

\* set_enabled and set_row_metadata revoke everything.
Reconfigured(a, enabled, metadata) ==
  [enabled |-> enabled, metadata |-> metadata,
   configuration |-> a.configuration + 1,
   snapshot |-> NoSnapshot, entries |-> NoEntries, measured |-> NoEntries]

\* A native callback or a host's guard asks whether a table may be edited.
AskPermission ==
  /\ \E t \in TablesOf(session) :
       admission' = AskedAncestors(admission, session, t)
  /\ UNCHANGED hostVars

\* permits_document also drops what was measured of removed tables.
AskDocument ==
  /\ admission' = IF admission.enabled THEN Prepared(admission, session) ELSE admission
  /\ UNCHANGED hostVars

AdmissionInit ==
  admission = [enabled |-> TRUE, metadata |-> None, configuration |-> 0,
               snapshot |-> NoSnapshot, entries |-> NoEntries, measured |-> NoEntries]

-----------------------------------------------------------------------------

\* The cached answer about a table is the answer the key of the current
\* document gives: a document replaced in place, a rollback to an old revision
\* or a delayed measurement never leaves a permission behind
\* (CapabilityCache::prepare, table, record, revoke).
CacheIsTransparent ==
  \A t \in TablesOf(session) :
    LET fresh == [admission EXCEPT !.snapshot = NoSnapshot, !.entries = NoEntries]
    IN Permits(admission, session, t) = Permits(fresh, session, t)
=============================================================================
