------------------------------- MODULE Retrieval -------------------------------
(***************************************************************************)
(* What leaves the archive: show (store.rs show), verify (store.rs verify) *)
(* and reconstruct (store.rs reconstruct_manifest), each a chain of SQL    *)
(* statements without a transaction, beside another process that commits  *)
(* sessions, a storage medium that may lose or change a row, and other     *)
(* programs that create files where a restore is about to write.           *)
(*                                                                         *)
(* Abstractions.  A commit is the effect of write_session on one session,  *)
(* with the next of the transcripts the agent left (its life cycle, with   *)
(* the failures, is in ArchiveStore).  The rows of events form a function  *)
(* of the index; their rowids are the commit that inserted them, and are   *)
(* never used again.  A hash is the content it belongs to.  Pages of the   *)
(* database that SQLite itself finds damaged (sqlite_integrity) and modes  *)
(* are left out; of the integrity check of FTS5, an INSERT, what it needs  *)
(* to run: the write lock and the tokenizer.                               *)
(***************************************************************************)
EXTENDS Projection, SequencesExt

CONSTANTS
  Sessions,
  Transcript,  \* what the agent left of each session, one value per commit
  Bytes,       \* the length of each content of a native source
  Garbled,     \* what a changed payload may decode to, and a changed hash be
  Paths,       \* the restore paths
  Windows,     \* the event windows clients ask for: [from, to, kinds]
  Foreign,     \* a file no restore wrote
  MaxDamage,   \* damages of the medium
  MaxCalls,    \* how many calls of the reader end with one of this kind
  MaxOthers    \* files other programs create

\* What an agent may leave of a session.  Every source it lists is captured
\* with the session (store.rs capture_source: no capture, no commit).
Task == [id : STRING, status : STRING \cup {None}]

Event ==
  [kind : STRING, call : STRING \cup {None}, delegates : BOOLEAN, tasks : Seq(Task),
   error : BOOLEAN, time : Int \cup {None}, usage : Int \cup {None}, text : STRING]

NativeSource == [locator : Int, path : Paths, hash : DOMAIN Bytes]

Seen ==
  [events : Seq(Event), parent : Sessions \cup {None}, started : Int \cup {None},
   ended : Int \cup {None}, sources : SUBSET NativeSource]

ASSUME RetrievalAssumption ==
  /\ IsFiniteSet(Sessions)
  /\ Transcript \in [Sessions -> Seq(Seen)]
  /\ \A s \in Sessions : \A v \in DOMAIN Transcript[s] : IsFiniteSet(Transcript[s][v].sources)
  /\ Windows \subseteq [from : Int \cup {None}, to : Int \cup {None}, kinds : SUBSET STRING]
  /\ MaxDamage \in Nat

ASSUME NoneDistinct == None \notin Int \cup DOMAIN Bytes \cup {"subagent"}

VARIABLES
  db,       \* the committed archive
  next,     \* how many transcripts of each session were committed
  damage,   \* how often the medium changed a row
  disk,     \* the files of the restore directory
  call,     \* the reader's call
  calls,    \* the calls so far
  others,   \* the files other programs created so far
  vouched,  \* the last verify passed and nothing was damaged since it began:
            \* "alone" or "beside" commits; "no" otherwise
  altered   \* the source rows that the medium made

vars == <<db, next, damage, disk, call, calls, others, vouched, altered>>

Excluded == {"tool_result", "usage"}
Versions == {"current", "other"}
Tokenizers == {"supported", "unknown"}

\* A file of an object: what zstd decodes it to, and the recorded length.
Whole(content) == [zstd |-> TRUE, decoded |-> content, bytes |-> Bytes[content]]

\* The columns of a session that verify compares.
Counters == {"event_count", "child_count", "turn_count", "tool_call_count", "sort_time"}

\* The clock of the commits; no property reads it.
IngestedAt == 9

(***************************************************************************)
(* The writer                                                              *)
(***************************************************************************)
EmptyArchive ==
  [sessions |-> [s \in {} |-> None],
   events |-> [s \in Sessions |-> [i \in {} |-> None]],
   batch |-> [s \in Sessions |-> 0],
   spans |-> [s \in Sessions |-> [id \in {} |-> None]],
   sources |-> [s \in Sessions |-> {}],
   objects |-> [h \in {} |-> None],
   index |-> {},
   version |-> "current", tokenizer |-> "supported"]

Rows(events) == [i \in 0 .. Len(events) - 1 |-> events[i + 1]]

Searchable(rows) == {i \in DOMAIN rows : rows[i].kind \notin Excluded}

Children(sessions, s) == {c \in DOMAIN sessions : sessions[c].parent = s}

\* refresh_child_count of the sessions in the set
RefreshChildCounts(sessions, parents) ==
  [s \in DOMAIN sessions |->
    IF s \in parents
    THEN [sessions[s] EXCEPT !.child_count = Cardinality(Children(sessions, s))]
    ELSE sessions[s]]

\* Mutated form: a session does not adopt the children stored before it.
CountedParents(s, old, t) == {old.parent, t.parent}

\* The sessions whose count a write of s may change.
CountedAnew(s, old, t) == {old.parent, t.parent, s}

UpsertRow(sessions, s, t) ==
  LET old == At(sessions, s, [parent |-> None, child_count |-> 0])
      a == Aggregates(t.events, t, IngestedAt)
      row == [parent |-> t.parent, relation |-> IF t.parent = None THEN None ELSE "subagent",
              started |-> t.started, ended |-> t.ended, ingested |-> IngestedAt,
              event_count |-> a.event_count, turn_count |-> a.turn_count,
              tool_call_count |-> a.tool_call_count, error_count |-> a.error_count,
              sort_time |-> a.sort_time, child_count |-> old.child_count]
  IN RefreshChildCounts(Put(sessions, s, row), CountedAnew(s, old, t))

\* The current sources replace the rows of their locators, and the captured
\* rows of other locators stay.
Retained(stored, sources) ==
  sources \cup {r \in stored : r.hash # None /\ \A src \in sources : src.locator # r.locator}

\* store_object: an object that exists is left as it is.
StoreObjects(objects, sources) ==
  [h \in DOMAIN objects \cup {src.hash : src \in sources} |-> At(objects, h, Whole(h))]

\* write_session, in the transaction of upsert_many
Written(archive, s, t, batch) ==
  LET kept == archive.events[s] = Rows(t.events)
      indexed == {<<s, batch, i>> : i \in Searchable(Rows(t.events))}
      dropped == {<<s, archive.batch[s], i>> : i \in Searchable(archive.events[s])}
  IN [archive EXCEPT
        !.sessions = UpsertRow(@, s, t),
        !.sources[s] = Retained(@, t.sources),
        !.objects = StoreObjects(@, t.sources),
        !.events[s] = Rows(t.events),
        !.batch[s] = IF kept THEN @ ELSE batch,
        !.index = IF kept THEN @ ELSE (@ \ dropped) \cup indexed,
        !.spans[s] = DeriveSpans(t.events)]

Commit(s) ==
  /\ next[s] < Len(Transcript[s])
  /\ next' = [next EXCEPT ![s] = @ + 1]
  /\ db' = Written(db, s, Transcript[s][next[s] + 1], next[s] + 1)
  /\ call' = [call EXCEPT !.quiet = FALSE, !.alone = FALSE]
  /\ UNCHANGED <<damage, disk, calls, others, vouched, altered>>

(***************************************************************************)
(* The medium loses a row of any table or changes one: the counters, end,  *)
(* parent or relation of a session, the first event of a span, the path or *)
(* hash of a source, the length or payload of an object, a contract; or    *)
(* the index gains a row.  The columns of events, and those that no        *)
(* statement below reads, are not changed.                                 *)
(***************************************************************************)
Without(f, x) == Restrict(f, DOMAIN f \ {x})

DamagedSessions ==
  {[db EXCEPT !.sessions = Without(@, s)] : s \in DOMAIN db.sessions}
  \cup {[db EXCEPT !.sessions[s][column] = @ + 1] :
          s \in DOMAIN db.sessions, column \in Counters \cup {"error_count"}}
  \cup {[db EXCEPT !.sessions[s].ended = IngestedAt] : s \in DOMAIN db.sessions}
  \cup {[db EXCEPT !.sessions[s].parent = p] : s \in DOMAIN db.sessions, p \in Sessions \cup {None}}
  \cup {[db EXCEPT !.sessions[s].relation = r] : s \in DOMAIN db.sessions, r \in {None, "unknown"}}

DamagedStreams ==
  (UNION {{[db EXCEPT !.events[s] = Without(@, i)] : i \in DOMAIN db.events[s]}
          \cup {[db EXCEPT !.spans[s] = Without(@, id)] : id \in DOMAIN db.spans[s]}
          \cup {[db EXCEPT !.spans[s][id].first = @ + 1] : id \in DOMAIN db.spans[s]}
          : s \in Sessions})
  \cup {[db EXCEPT !.index = @ \ {row}] : row \in db.index}
  \cup (UNION {{[db EXCEPT !.index = @ \cup {<<s, db.batch[s], i>>}] : i \in DOMAIN db.events[s]}
               : s \in Sessions})

DamagedObjects ==
  {[db EXCEPT !.objects = Without(@, h)] : h \in DOMAIN db.objects}
  \cup {[db EXCEPT !.objects[h].zstd = FALSE] : h \in DOMAIN db.objects}
  \cup {[db EXCEPT !.objects[h].bytes = @ + 1] : h \in DOMAIN db.objects}
  \cup {[db EXCEPT !.objects[h].decoded = c] : h \in DOMAIN db.objects, c \in Garbled \cup {None}}
  \cup {[db EXCEPT !.version = v] : v \in Versions}
  \cup {[db EXCEPT !.tokenizer = t] : t \in Tokenizers}

DamageRow ==
  /\ db' \in (DamagedSessions \cup DamagedStreams \cup DamagedObjects) \ {db}
  /\ altered' = altered

\* What a source row may become; its locator is part of the key.
Alterations(src) ==
  {[src EXCEPT !.path = p] : p \in Paths}
  \cup {[src EXCEPT !.hash = h] : h \in Garbled \cup {None}}

DamageSource ==
  \E s \in Sessions : \E src \in db.sources[s] :
    \/ /\ db' = [db EXCEPT !.sources[s] = @ \ {src}]
       /\ altered' = altered
    \/ \E row \in Alterations(src) \ {src} :
         /\ db' = [db EXCEPT !.sources[s] = (@ \ {src}) \cup {row}]
         /\ altered' = altered \cup {row}

Damage ==
  /\ damage < MaxDamage
  /\ damage' = damage + 1
  /\ DamageRow \/ DamageSource
  /\ vouched' = "no"
  /\ call' = [call EXCEPT !.clean = FALSE]
  /\ UNCHANGED <<next, disk, calls, others>>

(***************************************************************************)
(* One call of the reader at a time.  quiet: no commit since it began;     *)
(* alone: no transaction of another process was open since it began;       *)
(* clean: no damage since it began.                                        *)
(***************************************************************************)
Idle == [op |-> "none", quiet |-> TRUE, alone |-> TRUE, clean |-> TRUE]

Start(request) ==
  /\ call.op \in {"none", "shown", "verified", "restored", "failed"}
  /\ calls < MaxCalls[request.op]
  /\ calls' = calls + 1
  /\ call' = request
  /\ UNCHANGED <<db, next, damage, disk, others, vouched, altered>>

(***************************************************************************)
(* show: the row of the session, its sources, its events, its spans        *)
(***************************************************************************)
ShowRow ==
  \E s \in Sessions, w \in Windows :
    /\ s \in DOMAIN db.sessions  \* None is returned otherwise
    /\ Start([op |-> "show_sources", session |-> s, window |-> w, events |-> None,
              spans |-> None, quiet |-> TRUE, alone |-> TRUE, clean |-> TRUE])

ShowSources ==
  /\ call.op = "show_sources"
  /\ call' = [call EXCEPT !.op = "show_events"]
  /\ UNCHANGED <<db, next, damage, disk, calls, others, vouched, altered>>

InWindow(w, i) == (w.from # None => i >= w.from) /\ (w.to # None => i <= w.to)

LoadEvents(s, w) ==
  Restrict(db.events[s],
           {i \in DOMAIN db.events[s] :
              InWindow(w, i) /\ (w.kinds # {} => db.events[s][i].kind \in w.kinds)})

ShowEvents ==
  /\ call.op = "show_events"
  /\ call' = [call EXCEPT !.op = "show_spans", !.events = LoadEvents(call.session, call.window)]
  /\ UNCHANGED <<db, next, damage, disk, calls, others, vouched, altered>>

\* Mutated form: a span without a last event is kept only when the window
\* has no lower bound.
SpansThatEnded(s, w) ==
  {id \in DOMAIN db.spans[s] :
     LET span == db.spans[s][id]
     IN (w.to # None => span.first <= w.to)
        /\ (w.from # None => span.last # None /\ span.last >= w.from)}

SpansOf(s, w) ==
  {id \in DOMAIN db.spans[s] :
     LET span == db.spans[s][id]
     IN (w.to # None => span.first <= w.to)
        /\ (w.from # None => OrElse(span.last, span.first) >= w.from)}

ShowSpans ==
  /\ call.op = "show_spans"
  /\ call' = [call EXCEPT !.op = "shown", !.spans = SpansOf(call.session, call.window)]
  /\ UNCHANGED <<db, next, damage, disk, calls, others, vouched, altered>>

(***************************************************************************)
(* verify: one statement after the other                                   *)
(***************************************************************************)
\* Mutated form: that a referenced object exists is all that is checked of it.
StatementsOfRows ==
  <<"foreign_keys", "event_spans", "parent_spans", "schema_version", "tokenizer",
    "unsnapshotted", "session_aggregates", "fts_integrity", "searchable_events",
    "indexed_events", "excluded_events", "object_references", "session_lineage", "spans",
    "span_ranges">>

Statements ==
  <<"foreign_keys", "event_spans", "parent_spans", "schema_version", "tokenizer",
    "unsnapshotted", "session_aggregates", "fts_integrity", "searchable_events",
    "indexed_events", "excluded_events", "object_references", "session_lineage", "spans",
    "span_ranges", "objects">>

ForeignKeysHold ==
  \A s \in Sessions \ DOMAIN db.sessions :
    DOMAIN db.events[s] = {} /\ DOMAIN db.spans[s] = {} /\ db.sources[s] = {}

SpanReferencesHold == \A s \in Sessions : EventsReferenceSpans(db.events[s], db.spans[s])

ParentReferencesHold == \A s \in Sessions : ParentsExist(db.spans[s])

Snapshotted ==
  \A s \in DOMAIN db.sessions :
    db.sources[s] # {} => \E src \in db.sources[s] : src.hash # None

OfKind(s, kinds) == Cardinality({i \in DOMAIN db.events[s] : db.events[s][i].kind \in kinds})

\* What aggregate_drift compares of the row of s.
Recounted(s) ==
  LET row == db.sessions[s]
  IN [event_count |-> Cardinality(DOMAIN db.events[s]),
      child_count |-> Cardinality(Children(db.sessions, s)),
      turn_count |-> OfKind(s, TurnKinds),
      tool_call_count |-> OfKind(s, {"tool_call"}),
      sort_time |-> OrElse(row.ended, OrElse(row.started, row.ingested))]

AggregatesAgree ==
  \A s \in DOMAIN db.sessions, column \in Counters :
    db.sessions[s][column] = Recounted(s)[column]

SearchableEvents ==
  UNION {{<<s, db.batch[s], i>> : i \in Searchable(db.events[s])} : s \in Sessions}

ExcludedIndexed ==
  (UNION {{<<s, db.batch[s], i>> : i \in DOMAIN db.events[s] \ Searchable(db.events[s])}
          : s \in Sessions}) \cap db.index

ObjectsReferenced ==
  \A s \in Sessions : \A src \in db.sources[s] : src.hash \in DOMAIN db.objects \cup {None}

LineageTyped ==
  \A s \in DOMAIN db.sessions :
    LET row == db.sessions[s]
    IN (row.parent = None) = (row.relation = None) /\ row.relation \in {None, "subagent", "fork"}

\* Of the spans of the sessions that have a row.
SpanRangesHold ==
  \A s \in DOMAIN db.sessions : \A id \in DOMAIN db.spans[s] :
    LET span == db.spans[s][id]
        indexes == 0 .. db.sessions[s].event_count - 1
    IN /\ span.first \in indexes
       /\ span.last # None => span.last \in indexes /\ span.last >= span.first

\* The checks on an object, made by verify and again by reconstruct.
Sound(h) ==
  LET object == db.objects[h]
  IN /\ object.zstd
     /\ object.decoded # None
     /\ object.bytes = Bytes[object.decoded]
     /\ object.decoded = h

Holds(statement) ==
  CASE statement = "foreign_keys" -> ForeignKeysHold
    [] statement \in {"event_spans", "spans"} -> SpanReferencesHold
    [] statement = "parent_spans" -> ParentReferencesHold
    [] statement = "schema_version" -> db.version = "current"
    [] statement = "tokenizer" -> db.tokenizer = "supported"
    [] statement = "unsnapshotted" -> Snapshotted
    [] statement = "session_aggregates" -> AggregatesAgree
    [] statement \in {"fts_integrity", "searchable_events"} -> TRUE
    [] statement = "indexed_events" -> Cardinality(db.index) = call.searchable
    [] statement = "excluded_events" -> ExcludedIndexed = {}
    [] statement = "object_references" -> ObjectsReferenced
    [] statement = "session_lineage" -> LineageTyped
    [] statement = "span_ranges" -> SpanRangesHold
    [] statement = "objects" -> \A h \in DOMAIN db.objects : Sound(h)

\* loaded: the connection has the tokenizer of the index.  That of TraceDb::verify
\* has, that of verify_archive only if the tokenizer is the portable one.
BeginVerify ==
  \E loaded \in BOOLEAN :
    Start([op |-> "verify", at |-> 1, failed |-> {}, searchable |-> 0, loaded |-> loaded,
           quiet |-> TRUE, alone |-> TRUE, clean |-> TRUE])

\* Another process has a transaction open when verify needs the write lock,
\* whether it ends with a commit or not.
Transaction ==
  /\ call.op = "verify" /\ call.alone
  /\ call.at <= Len(Statements) /\ Statements[call.at] = "fts_integrity"
  /\ call' = [call EXCEPT !.alone = FALSE]
  /\ UNCHANGED <<db, next, damage, disk, calls, others, vouched, altered>>

\* The integrity check of FTS5 waits five seconds for the write lock, which a
\* transaction may hold for longer, and needs the tokenizer of the index; an index
\* that was damaged it may find or not.
Refusable == ~call.alone \/ ~call.loaded \/ db.index # SearchableEvents

\* What may become of a statement.
Passes(statement) ==
  IF statement = "fts_integrity" /\ Refusable THEN BOOLEAN ELSE {Holds(statement)}

Verify ==
  /\ call.op = "verify" /\ call.at <= Len(Statements)
  /\ LET statement == Statements[call.at]
     IN \E passed \in Passes(statement) :
          call' = [call EXCEPT
                     !.at = @ + 1,
                     !.searchable = IF statement = "searchable_events"
                                    THEN Cardinality(SearchableEvents) ELSE @,
                     !.failed = IF passed THEN @ ELSE @ \cup {statement}]
  /\ UNCHANGED <<db, next, damage, disk, calls, others, vouched, altered>>

\* Any other error of a statement ends the call without a report.
VerifyFails ==
  /\ call.op = "verify"
  /\ call' = [Idle EXCEPT !.op = "failed"]
  /\ UNCHANGED <<db, next, damage, disk, calls, others, vouched, altered>>

Report ==
  /\ call.op = "verify" /\ call.at > Len(Statements)
  /\ call' = [call EXCEPT !.op = "verified"]
  /\ vouched' = IF call.failed # {} \/ ~call.clean THEN "no"
                ELSE IF call.quiet THEN "alone" ELSE "beside"
  /\ UNCHANGED <<db, next, damage, disk, calls, others, altered>>

(***************************************************************************)
(* reconstruct: everything is read and checked first; then each file is    *)
(* written beside its target and moved into place.                         *)
(***************************************************************************)
Captured(s) == {src \in db.sources[s] : src.hash # None}

\* The captured sources in the order of their locators.
Planned(s) ==
  {plan \in [1 .. Cardinality(Captured(s)) -> Captured(s)] :
     \A i, j \in DOMAIN plan : i < j => plan[i].locator < plan[j].locator}

\* Mutated form: the hash of the decoded bytes is not compared.
PlanUnhashed(plan, overwrite) ==
  /\ \A i, j \in DOMAIN plan : i # j => plan[i].path # plan[j].path
  /\ overwrite \/ \A i \in DOMAIN plan : disk[plan[i].path] = None
  /\ \A i \in DOMAIN plan :
       plan[i].hash \in DOMAIN db.objects /\ db.objects[plan[i].hash].decoded # None

PlanHolds(plan, overwrite) ==
  /\ \A i, j \in DOMAIN plan : i # j => plan[i].path # plan[j].path
  /\ overwrite \/ \A i \in DOMAIN plan : disk[plan[i].path] = None
  /\ \A i \in DOMAIN plan : plan[i].hash \in DOMAIN db.objects /\ Sound(plan[i].hash)

Plan ==
  \E s \in Sessions, overwrite \in BOOLEAN : \E plan \in Planned(s) :
    /\ PlanHolds(plan, overwrite)
    /\ Start([op |-> "restore", overwrite |-> overwrite, plan |-> plan, at |-> 1,
              temporary |-> "none", quiet |-> TRUE, alone |-> TRUE, clean |-> TRUE,
              bytes |-> [i \in DOMAIN plan |-> db.objects[plan[i].hash].decoded]])

PlanFails ==
  /\ \E s \in Sessions, overwrite \in BOOLEAN : \E plan \in Planned(s) :
       ~PlanHolds(plan, overwrite)
  /\ Start([Idle EXCEPT !.op = "failed"])

Target == call.plan[call.at].path

Restoring == call.op = "restore" /\ call.at <= Len(call.plan)

WriteTemporary ==
  /\ Restoring /\ call.temporary = "none"
  /\ call' = [call EXCEPT !.temporary = "written"]
  /\ UNCHANGED <<db, next, damage, disk, calls, others, vouched, altered>>

\* Mutated form: persist in either case.
PersistOver ==
  /\ Restoring /\ call.temporary = "written"
  /\ disk' = [disk EXCEPT ![Target] = call.bytes[call.at]]
  /\ call' = [call EXCEPT !.temporary = "persisted"]
  /\ UNCHANGED <<db, next, damage, calls, others, vouched, altered>>

\* persist, or persist_noclobber
Persist ==
  /\ Restoring /\ call.temporary = "written"
  /\ call.overwrite \/ disk[Target] = None
  /\ disk' = [disk EXCEPT ![Target] = call.bytes[call.at]]
  /\ call' = [call EXCEPT !.temporary = "persisted"]
  /\ UNCHANGED <<db, next, damage, calls, others, vouched, altered>>

SetMtime ==
  /\ Restoring /\ call.temporary = "persisted"
  /\ call' = [call EXCEPT !.temporary = "none", !.at = @ + 1]
  /\ UNCHANGED <<db, next, damage, disk, calls, others, vouched, altered>>

Manifest ==
  /\ call.op = "restore" /\ call.at > Len(call.plan)
  /\ call' = [call EXCEPT !.op = "restored"]
  /\ UNCHANGED <<db, next, damage, disk, calls, others, vouched, altered>>

\* A file operation fails or the process dies: what was moved into place stays.
RestoreFails ==
  /\ call.op = "restore"
  /\ call' = [Idle EXCEPT !.op = "failed"]
  /\ UNCHANGED <<db, next, damage, disk, calls, others, vouched, altered>>

\* Another program creates a file.  It matters while a restore runs; that files
\* may be there before is what an earlier restore leaves.
Create ==
  \E p \in Paths :
    /\ call.op = "restore"
    /\ others < MaxOthers /\ disk[p] = None
    /\ disk' = [disk EXCEPT ![p] = Foreign]
    /\ others' = others + 1
    /\ UNCHANGED <<db, next, damage, call, calls, vouched, altered>>

Init ==
  /\ db = EmptyArchive
  /\ next = [s \in Sessions |-> 0]
  /\ damage = 0
  /\ disk = [p \in Paths |-> None]
  /\ call = Idle
  /\ calls = 0
  /\ others = 0
  /\ vouched = "no"
  /\ altered = {}

Next ==
  \/ \E s \in Sessions : Commit(s)
  \/ Transaction \/ Damage \/ Create
  \/ ShowRow \/ ShowSources \/ ShowEvents \/ ShowSpans
  \/ BeginVerify \/ Verify \/ VerifyFails \/ Report
  \/ Plan \/ PlanFails \/ WriteTemporary \/ Persist \/ SetMtime \/ Manifest \/ RestoreFails

Spec == Init /\ [][Next]_vars

(***************************************************************************)
(* Properties                                                              *)
(***************************************************************************)

\* A show that was read beside commits is still whole: the span of every event
\* it returns is among the spans it returns, although the events and the spans
\* are read by two statements and a window filters both; and with no commit in
\* between, the spans of the events that only the kinds left out are returned
\* too (store.rs show: "kinds deliberately does not constrain spans").  It takes
\* agents that append to their transcripts and use a call id once.
ShowResolves ==
  call.op = "shown" /\ damage = 0 =>
    /\ \A i \in DOMAIN call.events :
         InSpan(call.events[i]) => CallId(call.events[i]) \in call.spans
    /\ call.quiet =>
         \A i \in DOMAIN db.events[call.session] :
           InWindow(call.window, i) /\ InSpan(db.events[call.session][i]) =>
             CallId(db.events[call.session][i]) \in call.spans

\* verify reports no failure in an archive only the program wrote, whatever is
\* committed between its statements, but for two that are about the index and not
\* about its rows: the two counts, read by two statements, may differ, and only
\* beside a commit; and the integrity check of FTS5 may be refused, and only when
\* another process had a transaction open or the tokenizer is not loaded.
AlarmIsReal ==
  call.op = "verified" /\ damage = 0 =>
    /\ call.failed \subseteq {"indexed_events", "fts_integrity"}
    /\ "indexed_events" \in call.failed => ~call.quiet
    /\ "fts_integrity" \in call.failed => ~call.alone \/ ~call.loaded

\* After a verify that passed, and until something is damaged again, the archive
\* serves whatever is committed meanwhile: every reference of an event, a span
\* or a source resolves, every captured object is what its hash says (so that a
\* restore fails on files alone), the compared aggregates are those of the rows;
\* and after a verify with no commit between its statements the index holds
\* exactly the searchable events, unless several rows were damaged (one lost
\* from the events and another from the index, and the counts agree again).
VerifiedServes ==
  /\ vouched # "no" =>
       /\ ForeignKeysHold /\ SpanReferencesHold /\ ParentReferencesHold /\ SpanRangesHold
       /\ AggregatesAgree /\ LineageTyped
       /\ \A s \in Sessions : \A src \in Captured(s) :
            src.hash \in DOMAIN db.objects /\ Sound(src.hash)
  /\ vouched = "alone" /\ damage <= 1 => db.index = SearchableEvents

\* The sources a commit brought.
Native ==
  UNION {UNION {Transcript[s][v].sources : v \in 1 .. next[s]} : s \in Sessions}

\* Whatever fails and whatever is damaged, a restore leaves under a name nothing,
\* the file of another program, or the whole content of a native source, never a
\* part of it and never bytes that no agent left; it is a source of that name
\* unless the medium changed a source row, and then it is what the changed row
\* says (its path and hash are trusted, there is nothing to compare them with);
\* and a manifest names files that hold their objects.
TargetsWhole ==
  /\ \A p \in Paths :
       disk[p] \notin {None, Foreign} =>
         /\ \E src \in Native : src.hash = disk[p]
         /\ \E src \in Native \cup altered : src.path = p /\ src.hash = disk[p]
  /\ call.op = "restored" =>
       \A i \in DOMAIN call.plan : disk[call.plan[i].path] = call.plan[i].hash

\* Without --overwrite a restore never replaces a file, also not one that
\* appeared after its preflight (store.rs reconstruct_manifest: persist_noclobber).
NoClobber ==
  [][\A p \in Paths : disk[p] # None /\ disk'[p] # disk[p] => call.overwrite]_disk

\* After one damage of an aggregate, verify reports a failure: not so for the
\* counts and texts verify does not compare (README.md:371-374).
DriftReported ==
  call.op = "verified" /\ call.clean /\ call.quiet /\ call.failed = {} =>
    \A s \in DOMAIN db.sessions :
      db.sessions[s].error_count =
        Cardinality({i \in DOMAIN db.events[s] : db.events[s][i].error})

\* A verify that passed beside commits has seen the index too: not so, the count
\* of a commit between the two statements can hide a lost row.
IndexVouched == vouched # "no" => db.index = SearchableEvents

\* The parents of the spans of a window are among them: not so for a task whose
\* host call ended before the window.
ParentsShown ==
  call.op = "shown" /\ damage = 0 /\ call.quiet =>
    \A id \in call.spans : db.spans[call.session][id].parent \in call.spans \cup {None}

\* A session the archive verified can be restored into an empty directory: not so
\* once one of its sources has moved and both rows have one restore path.
Reconstructable ==
  vouched # "no" =>
    \A s \in Sessions : \A a, b \in Captured(s) : a # b => a.path # b.path
=============================================================================
