----------------------------- MODULE ArchiveStore -----------------------------
(***************************************************************************)
(* The write path of store.rs over one SQLite file in WAL mode, used by    *)
(* several connections: the rows of `sessions`, `raw_sources`, `objects`,  *)
(* `events` and `spans`, the transactions of upsert_many, and the backup,  *)
(* import and rebuild operations.                                          *)
(*                                                                         *)
(* Abstractions.  An event stream is one value; every column derived from  *)
(* it is represented by the stream it was computed from, so that a stale   *)
(* projection is a projection of another stream.  An object is its         *)
(* content, the hash being injective.  Session columns no operation reads  *)
(* back (cwd, title, times) are left out.                                  *)
(*                                                                         *)
(* SQLite (external): readers see the snapshot of their first statement;   *)
(* one writer at a time; a deferred transaction that has already read      *)
(* cannot become a writer once another connection holds the write lock or  *)
(* has committed since its snapshot, and fails at once without waiting.    *)
(***************************************************************************)
EXTENDS Naturals, Sequences, FiniteSets

CONSTANTS
  Sessions, Locators, Contents, Streams, Prints, Batches, None,
  Connections  \* open connections, of one process or of several

\* One ParsedSession, see Archive.tla.
ParsedSession ==
  [id : Sessions, parent : Sessions \cup {None}, print : Prints,
   stream : Streams, sources : SUBSET (Locators \X Contents)]

\* One source row per locator: the primary key (session_id, locator).
UniqueLocators(p) ==
  \A x, y \in p.sources : x[1] = y[1] => x = y

ASSUME SessionsFinite == IsFiniteSet(Sessions)
ASSUME NoneDistinct ==
  /\ None \notin Sessions
  /\ None \notin Contents
  /\ None \notin Streams
  /\ None \notin Prints
ASSUME BatchesTyped == Batches \subseteq Seq(ParsedSession)

VARIABLES
  db,      \* the committed archive
  backup,  \* the archive file last published by `backup`
  phase,   \* phase[c]: what transaction connection c is in
  work,    \* work[c]: the archive as c's open transaction sees it
  todo,    \* todo[c]: the parsed sessions the transaction has still to write
  stale    \* stale[c]: another connection committed since c's snapshot

vars == <<db, backup, phase, work, todo, stale>>

(***************************************************************************)
(* The archive as a value                                                  *)
(***************************************************************************)
ArchiveValue ==
  [ids : SUBSET Sessions,
   parent : [Sessions -> Sessions \cup {None}],
   print : [Sessions -> Prints \cup {None}],
   childCount : [Sessions -> Nat],
   aggregates : [Sessions -> Streams \cup {None}],
   tokens : [Sessions -> Streams \cup {None}],
   sources : SUBSET (Sessions \X Locators \X Contents),
   objects : SUBSET Contents,
   events : [Sessions -> Streams \cup {None}],
   spans : [Sessions -> Streams \cup {None}]]

EmptyArchive ==
  LET noValue == [s \in Sessions |-> None]
  IN  [ids |-> {}, parent |-> noValue, print |-> noValue,
       childCount |-> [s \in Sessions |-> 0],
       aggregates |-> noValue, tokens |-> noValue,
       sources |-> {}, objects |-> {}, events |-> noValue, spans |-> noValue]

Children(a, s) == {c \in a.ids : a.parent[c] = s}

\* refresh_child_count for every session of `which` that has a row: an UPDATE
\* that derives the count, and touches nothing for a missing id.
RefreshChildCount(a, which) ==
  [a EXCEPT !.childCount =
     [s \in Sessions |-> IF s \in which \cap a.ids
                           THEN Cardinality(Children(a, s))
                           ELSE a.childCount[s]]]

\* The INSERT ... ON CONFLICT(id) DO UPDATE of write_session.
UpsertRow(a, p) ==
  [a EXCEPT !.ids = @ \cup {p.id},
            !.parent[p.id] = p.parent,
            !.print[p.id] = p.print,
            !.aggregates[p.id] = p.stream,
            !.tokens[p.id] = p.stream]

\* Mutated forms: the replacement of all rows of the session, and a source row
\* whose object was never stored.
CaptureSourcesAfresh(a, p) ==
  [a EXCEPT !.sources = {r \in @ : r[1] # p.id} \cup {<<p.id, x[1], x[2]>> : x \in p.sources},
            !.objects = @ \cup {x[2] : x \in p.sources}]

CaptureSourcesOnly(a, p) ==
  LET named == {x[1] : x \in p.sources}
      kept  == {r \in a.sources : r[1] = p.id => r[2] \notin named}
  IN  [a EXCEPT !.sources = kept \cup {<<p.id, x[1], x[2]>> : x \in p.sources}]

\* The sources of p replace the rows of the same locators; a snapshot whose
\* locator p no longer names is kept.  Capture stores the object first.
CaptureSources(a, p) ==
  LET named == {x[1] : x \in p.sources}
      kept  == {r \in a.sources : r[1] = p.id => r[2] \notin named}
  IN  [a EXCEPT !.sources = kept \cup {<<p.id, x[1], x[2]>> : x \in p.sources},
                !.objects = @ \cup {x[2] : x \in p.sources}]

\* Mutated form: the spans of an earlier stream stay.
ReplaceEventsOnly(a, p) ==
  [a EXCEPT !.events[p.id] = p.stream, !.spans[p.id] = IF @ = None THEN p.stream ELSE @]

\* Events are rewritten unless they already match; spans always are.
ReplaceStream(a, p) ==
  [a EXCEPT !.events[p.id] = p.stream, !.spans[p.id] = p.stream]

\* Mutated form: the parent the row named before keeps its count.
WriteSessionLosesOldParent(a, p) ==
  LET affected == {p.parent, p.id}
      counted  == RefreshChildCount(UpsertRow(a, p), affected)
  IN  ReplaceStream(CaptureSources(counted, p), p)

\* write_session: the parent the row named before the upsert, the parent it
\* names now and the row itself get their child counts derived again.
WriteSession(a, p) ==
  LET affected == {a.parent[p.id], p.parent, p.id}
      counted  == RefreshChildCount(UpsertRow(a, p), affected)
  IN  ReplaceStream(CaptureSources(counted, p), p)

(***************************************************************************)
(* Transactions                                                            *)
(***************************************************************************)
Writers == {c \in Connections : phase[c] = "writing"}

Init ==
  /\ db = EmptyArchive
  /\ backup = EmptyArchive
  /\ phase = [c \in Connections |-> "idle"]
  /\ work = [c \in Connections |-> EmptyArchive]
  /\ todo = [c \in Connections |-> <<>>]
  /\ stale = [c \in Connections |-> FALSE]

\* Every other connection that holds a read snapshot is left behind.
Publish(c, a) ==
  /\ db' = a
  /\ stale' = [d \in Connections |-> d # c /\ (stale[d] \/ phase[d] = "reading")]

\* upsert_many opens a DEFERRED transaction and write_session first SELECTs the
\* captured sources and the parent stored for the session: a read snapshot.
BeginBatch(c, b) ==
  /\ phase[c] = "idle"
  /\ b # <<>>
  /\ phase' = [phase EXCEPT ![c] = "reading"]
  /\ work' = [work EXCEPT ![c] = db]
  /\ todo' = [todo EXCEPT ![c] = b]
  /\ stale' = [stale EXCEPT ![c] = FALSE]
  /\ UNCHANGED <<db, backup>>

\* The INSERT after that SELECT asks for the write lock, and gets it only if
\* nobody else writes and nobody has committed since the snapshot.
MayWrite(c) ==
  \/ phase[c] = "writing"
  \/ phase[c] = "reading" /\ Writers = {} /\ ~stale[c]

WriteNext(c) ==
  /\ todo[c] # <<>>
  /\ MayWrite(c)
  /\ UniqueLocators(Head(todo[c]))
  /\ phase' = [phase EXCEPT ![c] = "writing"]
  /\ work' = [work EXCEPT ![c] = WriteSession(@, Head(todo[c]))]
  /\ todo' = [todo EXCEPT ![c] = Tail(@)]
  /\ UNCHANGED <<db, backup, stale>>

\* Mutated form: what has been written so far is committed.
CommitPartial(c) ==
  /\ phase[c] = "writing"
  /\ Publish(c, work[c])
  /\ phase' = [phase EXCEPT ![c] = "idle"]
  /\ work' = [work EXCEPT ![c] = EmptyArchive]
  /\ todo' = [todo EXCEPT ![c] = <<>>]
  /\ UNCHANGED backup

Commit(c) ==
  /\ phase[c] = "writing"
  /\ todo[c] = <<>>
  /\ Publish(c, work[c])
  /\ phase' = [phase EXCEPT ![c] = "idle"]
  /\ work' = [work EXCEPT ![c] = EmptyArchive]
  /\ UNCHANGED <<backup, todo>>

\* A write that fails for want of the lock, a source that changed since it was
\* parsed, a duplicate locator, an I/O error or the death of the process: the
\* transaction is dropped and the file keeps its last committed state.
Abort(c) ==
  /\ phase[c] # "idle"
  /\ phase' = [phase EXCEPT ![c] = "idle"]
  /\ work' = [work EXCEPT ![c] = EmptyArchive]
  /\ todo' = [todo EXCEPT ![c] = <<>>]
  /\ stale' = [stale EXCEPT ![c] = FALSE]
  /\ UNCHANGED <<db, backup>>

(***************************************************************************)
(* Backup, import and rebuild                                              *)
(***************************************************************************)
\* VACUUM INTO copies one committed state.
Backup ==
  /\ backup' = db
  /\ UNCHANGED <<db, phase, work, todo, stale>>

\* validate_import_compatibility: sessions both archives hold must agree on
\* their columns, their events, and every snapshot both captured.
ImportCompatible(a, src) ==
  /\ \A s \in a.ids \cap src.ids :
       /\ a.parent[s] = src.parent[s]
       /\ a.print[s] = src.print[s]
       /\ a.events[s] = src.events[s]
  /\ \A x \in a.sources, y \in src.sources :
       x[1] = y[1] /\ x[2] = y[2] => x[3] = y[3]

\* Rows the destination lacks are copied, then AGGREGATE_PROJECTION is run over
\* every session: it derives counts and previews, not the token columns.
MergeArchive(a, src) ==
  LET new       == src.ids \ a.ids
      adopt(mine, theirs) == [s \in Sessions |-> IF s \in new THEN theirs[s] ELSE mine[s]]
      held      == {<<x[1], x[2]>> : x \in a.sources}
      inserted  == [a EXCEPT
                      !.ids = @ \cup src.ids,
                      !.parent = adopt(@, src.parent),
                      !.print = adopt(@, src.print),
                      !.events = adopt(@, src.events),
                      !.spans = adopt(@, src.spans),
                      !.objects = @ \cup src.objects,
                      !.sources = @ \cup {y \in src.sources : <<y[1], y[2]>> \notin held}]
      projected == [inserted EXCEPT !.aggregates = inserted.events]
  IN  RefreshChildCount(projected, projected.ids)

\* import_archive: BEGIN IMMEDIATE, so the connection holds the write lock from
\* its first statement and reads the state it will change.
Import(c) ==
  /\ phase[c] = "idle"
  /\ Writers = {}
  /\ ImportCompatible(db, backup)
  /\ Publish(c, MergeArchive(db, backup))
  /\ UNCHANGED <<backup, phase, work, todo>>

\* TraceDb::rebuild deletes the archive's files and opens an empty archive; the
\* model lets it run only when no connection has a transaction open.
Rebuild ==
  /\ \A c \in Connections : phase[c] = "idle"
  /\ db' = EmptyArchive
  /\ UNCHANGED <<backup, phase, work, todo, stale>>

Next ==
  \/ \E c \in Connections, b \in Batches : BeginBatch(c, b)
  \/ \E c \in Connections : WriteNext(c)
  \/ \E c \in Connections : Commit(c)
  \/ \E c \in Connections : Abort(c)
  \/ \E c \in Connections : Import(c)
  \/ Backup
  \/ Rebuild

Spec == Init /\ [][Next]_vars

(***************************************************************************)
(* Properties                                                              *)
(***************************************************************************)
TypeOK ==
  /\ db \in ArchiveValue
  /\ backup \in ArchiveValue
  /\ phase \in [Connections -> {"idle", "reading", "writing"}]
  /\ work \in [Connections -> ArchiveValue]
  /\ todo \in [Connections -> Seq(ParsedSession)]
  /\ stale \in [Connections -> BOOLEAN]

\* `childCount` of a stored session is the number of stored sessions that name
\* it as parent, in whatever order children and parents arrived, were written
\* again or were moved to another parent (architecture.md, "child_count").
CountsExact(a) ==
  \A s \in a.ids : a.childCount[s] = Cardinality(Children(a, s))

ChildCountExact == CountsExact(db)

\* No source row refers to an object the archive does not hold, so that
\* everything a session was captured from can be reconstructed.
ReferencesObjects(a) == \A r \in a.sources : r[1] \in a.ids /\ r[3] \in a.objects

SnapshotsRestorable == ReferencesObjects(db)

\* For one session and locator the archive holds one snapshot.
OneSnapshot(a) ==
  \A x, y \in a.sources : x[1] = y[1] /\ x[2] = y[2] => x[3] = y[3]

SnapshotsUnambiguous == OneSnapshot(db)

\* The aggregates and the spans of every stored session are projections of the
\* very event stream stored beside them.
ProjectionsFresh(a) ==
  \A s \in a.ids : /\ a.events[s] # None
                   /\ a.aggregates[s] = a.events[s]
                   /\ a.spans[s] = a.events[s]

ProjectionsAgree == ProjectionsFresh(db)

\* Token totals, too, are those of the stored event stream (architecture.md,
\* "Materialized session aggregates").
TokensMaterialized == \A s \in db.ids : db.tokens[s] = db.events[s]

\* A committed step other than a rebuild never forgets that a locator of a
\* session was captured: later parses that omit it keep the old snapshot.
Held(a) == {<<r[1], r[2]>> : r \in a.sources}

SnapshotsRetained == [][Held(db) \subseteq Held(db') \/ db' = EmptyArchive]_vars

(***************************************************************************)
(* Refinement of Archive.tla                                               *)
(***************************************************************************)
LatestOf(a) ==
  [s \in Sessions |->
    IF s \in a.ids
      THEN {[parent |-> a.parent[s], print |-> a.print[s], stream |-> a.events[s]]}
      ELSE {}]

CapturedOf(a) ==
  [s \in Sessions |-> [l \in Locators |->
    IF <<s, l>> \in Held(a)
      THEN CHOOSE o \in Contents : <<s, l, o>> \in a.sources
      ELSE None]]

Promise == INSTANCE Archive WITH
             latest <- LatestOf(db),
             captured <- CapturedOf(db),
             published <- <<LatestOf(backup), CapturedOf(backup)>>

\* The transactions implement the promise: a batch becomes visible as a whole,
\* on top of the state it is committed to, and nothing committed is lost.
ImplementsArchive == Promise!ASpec
=============================================================================
