---------------------------- MODULE RetrievalProofs ----------------------------
(***************************************************************************)
(* Theorems about Retrieval for every set of sessions, every transcripts,  *)
(* and any number of commits, damages and calls.                           *)
(***************************************************************************)
EXTENDS Retrieval, NormalizeProofs

\* The events of a transcript are what the derivations of Projection are about.
LEMMA TranscriptListed == \A events \in Seq(Event) : Listed(events)
<1> SUFFICES ASSUME NEW events \in Seq(Event) PROVE Listed(events)
  OBVIOUS
<1>1. IsSequence(events)
  BY TypedSequence
<1>2. ASSUME NEW i \in DOMAIN events PROVE IsSequence(events[i].tasks)
  <2>1. events[i] \in Event
    OBVIOUS
  <2>2. events[i].tasks \in Seq(Task)
    BY <2>1 DEF Event
  <2> QED
    BY <2>2, TypedSequence
<1> QED
  BY <1>1, <1>2 DEF Listed

(***************************************************************************)
(* The invariant                                                           *)
(***************************************************************************)
Tables ==
  {"sessions", "events", "batch", "spans", "sources", "objects", "index", "version", "tokenizer"}

Columns ==
  {"parent", "relation", "started", "ended", "ingested", "event_count", "turn_count",
   "tool_call_count", "error_count", "sort_time", "child_count"}

\* The tables are there, whatever is damaged in them.
ArchiveShape ==
  /\ DOMAIN db = Tables
  /\ DOMAIN db.sessions \subseteq Sessions
  /\ \A s \in DOMAIN db.sessions : DOMAIN db.sessions[s] = Columns
  /\ DOMAIN db.events = Sessions /\ DOMAIN db.batch = Sessions
  /\ DOMAIN db.spans = Sessions /\ DOMAIN db.sources = Sessions
  /\ \A s \in Sessions : IsFiniteSet(DOMAIN db.events[s]) /\ IsFiniteSet(db.sources[s])
  /\ IsFiniteSet(db.index)

CallShape ==
  /\ call.op \in {"none", "failed"} => DOMAIN call = {"op", "quiet", "alone", "clean"}
  /\ call.op \in {"show_sources", "show_events", "show_spans", "shown"} =>
       DOMAIN call = {"op", "session", "window", "events", "spans", "quiet", "alone", "clean"}
  /\ call.op \in {"verify", "verified"} =>
       DOMAIN call = {"op", "at", "failed", "searchable", "loaded", "quiet", "alone", "clean"}
  /\ call.op \in {"restore", "restored"} =>
       DOMAIN call = {"op", "overwrite", "plan", "at", "temporary", "bytes", "quiet", "alone", "clean"}
  /\ call.op \in {"none", "failed", "show_sources", "show_events", "show_spans", "shown",
                  "verify", "verified", "restore", "restored"}
  /\ damage = 0 => call.clean

Shape ==
  /\ ArchiveShape /\ CallShape
  /\ next \in [Sessions -> Nat] /\ \A s \in Sessions : next[s] <= Len(Transcript[s])
  /\ damage \in Nat
  /\ DOMAIN disk = Paths

\* What a row of a source may be, and what it is: a source that a commit brought,
\* or what the medium made of one.
SourceRow == [locator : Int, path : Paths, hash : DOMAIN Bytes \cup Garbled \cup {None}]

SourcesNamed ==
  \A s \in Sessions : \A src \in db.sources[s] : src \in SourceRow /\ src \in Native \cup altered

\* An object is the content of a source that a commit brought.
Archived(h) == \E src \in Native : src.hash = h

ObjectsNative == \A h \in DOMAIN db.objects : Archived(h)

\* A restore reads what its plan names, and has moved it into place up to its
\* position.
RestoreInv ==
  call.op \in {"restore", "restored"} =>
    /\ call.plan \in Seq(SourceRow)
    /\ call.at \in 1 .. Len(call.plan) + 1
    /\ \A i \in DOMAIN call.plan :
         /\ call.plan[i] \in Native \cup altered
         /\ Archived(call.plan[i].hash)
         /\ call.bytes[i] = call.plan[i].hash
    /\ \A i, j \in DOMAIN call.plan : i # j => call.plan[i].path # call.plan[j].path
    /\ \A i \in DOMAIN call.plan :
         i < call.at \/ (i = call.at /\ call.temporary = "persisted") =>
           disk[call.plan[i].path] = call.plan[i].hash
    /\ call.op = "restored" => call.at = Len(call.plan) + 1

FileNamed(p, h) == Archived(h) /\ \E src \in Native \cup altered : src.path = p /\ src.hash = h

FilesNamed == \A p \in Paths : disk[p] \notin {None, Foreign} => FileNamed(p, disk[p])

RestoreSafe == Shape /\ SourcesNamed /\ ObjectsNative /\ RestoreInv /\ FilesNamed

\* What verify checks and a commit keeps.
Lasting ==
  {"foreign_keys", "event_spans", "parent_spans", "session_aggregates", "object_references",
   "session_lineage", "spans", "span_ranges", "objects"}

\* Passed statements hold until something is damaged.
PassedHold ==
  /\ call.op = "verify" =>
       /\ call.at \in 1 .. Len(Statements) + 1
       /\ call.clean =>
            \A i \in 1 .. call.at - 1 :
              Statements[i] \in Lasting /\ Statements[i] \notin call.failed => Holds(Statements[i])
  /\ vouched # "no" => \A statement \in Lasting : Holds(statement)

\* Before the second damage the index lacks rows or has too many, but not both;
\* so equal counts vouch for it.
IndexVouchedInv ==
  /\ damage = 0 => db.index = SearchableEvents
  /\ damage <= 1 => db.index \subseteq SearchableEvents \/ SearchableEvents \subseteq db.index
  /\ call.op = "verify" /\ call.clean /\ call.quiet =>
       /\ call.at > 9 => call.searchable = Cardinality(SearchableEvents)
       /\ call.at > 10 /\ "indexed_events" \notin call.failed =>
            Cardinality(db.index) = Cardinality(SearchableEvents)
  /\ vouched = "alone" /\ damage <= 1 => db.index = SearchableEvents

\* What a verify of an undamaged archive may report.
Reportable ==
  /\ call.failed \subseteq {"indexed_events", "fts_integrity"}
  /\ "indexed_events" \in call.failed => ~call.quiet
  /\ "fts_integrity" \in call.failed => ~call.alone \/ ~call.loaded

\* What only the program wrote passes.
Undamaged ==
  damage = 0 =>
    /\ \A statement \in Lasting : Holds(statement)
    /\ db.version = "current" /\ db.tokenizer = "supported"
    /\ Snapshotted
    /\ call.op \in {"verify", "verified"} => Reportable

VerifyInv == Shape /\ PassedHold /\ IndexVouchedInv /\ Undamaged

\* The sessions of every transcript only grow.
TranscriptsGrow ==
  \A s \in Sessions : \A v \in 1 .. Len(Transcript[s]) - 1 :
    /\ Len(Transcript[s][v].events) <= Len(Transcript[s][v+1].events)
    /\ \A i \in 1 .. Len(Transcript[s][v].events) :
         Transcript[s][v+1].events[i] = Transcript[s][v].events[i]

CallsRecordedOnce ==
  \A s \in Sessions : \A v \in DOMAIN Transcript[s] : CallsOnce(Transcript[s][v].events)

\* The rows are those of the last transcript.
RowsOfTranscript ==
  \A s \in Sessions :
    IF next[s] = 0 THEN DOMAIN db.events[s] = {} /\ s \notin DOMAIN db.sessions
    ELSE /\ db.events[s] = Rows(Transcript[s][next[s]].events)
         /\ db.spans[s] = DeriveSpans(Transcript[s][next[s]].events)

\* The events a show has read are still there when it reads the spans.
ShowInv ==
  damage = 0 =>
    /\ RowsOfTranscript
    /\ call.op \in {"show_sources", "show_events", "show_spans", "shown"} =>
         call.session \in Sessions /\ call.window \in Windows
    /\ call.op = "show_spans" =>
         \A i \in DOMAIN call.events :
           /\ i \in DOMAIN db.events[call.session]
           /\ db.events[call.session][i] = call.events[i]
           /\ InWindow(call.window, i)
    /\ call.op = "shown" =>
         /\ \A i \in DOMAIN call.events :
              InSpan(call.events[i]) => CallId(call.events[i]) \in call.spans
         /\ call.quiet =>
              \A i \in DOMAIN db.events[call.session] :
                InWindow(call.window, i) /\ InSpan(db.events[call.session][i]) =>
                  CallId(db.events[call.session][i]) \in call.spans

(***************************************************************************)
(* The medium                                                              *)
(***************************************************************************)
LEMMA RowDamageFields ==
  ASSUME Shape, DamageRow
  PROVE  /\ db'.sources = db.sources
         /\ DOMAIN db'.objects \subseteq DOMAIN db.objects
         /\ ArchiveShape'
         /\ \/ db'.index = db.index /\ SearchableEvents' = SearchableEvents
            \/ SearchableEvents' = SearchableEvents /\ db'.index \subseteq db.index
            \/ SearchableEvents' = SearchableEvents /\ db.index \subseteq db'.index
            \/ db'.index = db.index /\ SearchableEvents' \subseteq SearchableEvents
<1> DEFINE OnIndex == \/ db'.index = db.index /\ SearchableEvents' = SearchableEvents
                      \/ SearchableEvents' = SearchableEvents /\ db'.index \subseteq db.index
                      \/ SearchableEvents' = SearchableEvents /\ db.index \subseteq db'.index
                      \/ db'.index = db.index /\ SearchableEvents' \subseteq SearchableEvents
           Goal == /\ db'.sources = db.sources /\ ArchiveShape' /\ OnIndex
                   /\ DOMAIN db'.objects \subseteq DOMAIN db.objects
<1>1. ArchiveShape
  BY DEF Shape
<1>2. db' \in DamagedSessions \cup DamagedStreams \cup DamagedObjects
  BY DEF DamageRow
<1>3. ASSUME DOMAIN db' = Tables,
             DOMAIN db'.objects \subseteq DOMAIN db.objects,
             \A table \in Tables \ {"sessions", "objects", "version", "tokenizer", "spans"} :
               db'[table] = db[table],
             DOMAIN db'.sessions \subseteq DOMAIN db.sessions,
             \A s \in DOMAIN db'.sessions : DOMAIN db'.sessions[s] = Columns,
             DOMAIN db'.spans = Sessions
      PROVE  Goal
  <2>1. /\ db'.sources = db.sources /\ db'.index = db.index
        /\ db'.events = db.events /\ db'.batch = db.batch
    BY <1>3 DEF Tables
  <2>2. SearchableEvents' = SearchableEvents
    BY <2>1 DEF SearchableEvents, Searchable
  <2>3. ArchiveShape'
    BY <1>1, <1>3, <2>1 DEF ArchiveShape
  <2> QED
    BY <1>3, <2>1, <2>2, <2>3
<1>4. ASSUME db' \in DamagedSessions PROVE Goal
  <2>1. CASE \E s \in DOMAIN db.sessions : db' = [db EXCEPT !.sessions = Without(@, s)]
    <3>1. PICK s \in DOMAIN db.sessions : db' = [db EXCEPT !.sessions = Without(@, s)]
      BY <2>1
    <3>2. DOMAIN db' = Tables /\ db'.sessions = Without(db.sessions, s)
      BY <1>1, <3>1 DEF ArchiveShape, Tables
    <3>3. \A table \in Tables \ {"sessions"} : db'[table] = db[table]
      BY <1>1, <3>1 DEF ArchiveShape, Tables
    <3>4. /\ DOMAIN db'.sessions \subseteq DOMAIN db.sessions
          /\ \A c \in DOMAIN db'.sessions : db'.sessions[c] = db.sessions[c]
      BY <3>2 DEF Without, Restrict
    <3> QED
      BY <1>1, <1>3, <3>2, <3>3, <3>4 DEF ArchiveShape, Tables
  <2>2. CASE \E s \in DOMAIN db.sessions, column \in Counters \cup {"error_count"} :
               db' = [db EXCEPT !.sessions[s][column] = db.sessions[s][column] + 1]
    <3>1. PICK s \in DOMAIN db.sessions, column \in Counters \cup {"error_count"} :
            db' = [db EXCEPT !.sessions[s][column] = db.sessions[s][column] + 1]
      BY <2>2
    <3>2. DOMAIN db' = Tables
      BY <1>1, <3>1 DEF ArchiveShape, Tables
    <3>3. \A table \in Tables \ {"sessions"} : db'[table] = db[table]
      BY <1>1, <3>1 DEF ArchiveShape, Tables
    <3>4. /\ DOMAIN db'.sessions = DOMAIN db.sessions
          /\ \A c \in DOMAIN db'.sessions : DOMAIN db'.sessions[c] = DOMAIN db.sessions[c]
      BY <1>1, <3>1 DEF ArchiveShape, Tables
    <3> QED
      BY <1>1, <1>3, <3>2, <3>3, <3>4 DEF ArchiveShape, Tables
  <2>3. CASE \E s \in DOMAIN db.sessions, r \in {None, "unknown"} :
               db' = [db EXCEPT !.sessions[s].relation = r]
    <3>1. PICK s \in DOMAIN db.sessions, r \in {None, "unknown"} :
            db' = [db EXCEPT !.sessions[s].relation = r]
      BY <2>3
    <3>2. DOMAIN db' = Tables
      BY <1>1, <3>1 DEF ArchiveShape, Tables
    <3>3. \A table \in Tables \ {"sessions"} : db'[table] = db[table]
      BY <1>1, <3>1 DEF ArchiveShape, Tables
    <3>4. /\ DOMAIN db'.sessions = DOMAIN db.sessions
          /\ \A c \in DOMAIN db'.sessions : DOMAIN db'.sessions[c] = DOMAIN db.sessions[c]
      BY <1>1, <3>1 DEF ArchiveShape, Tables
    <3> QED
      BY <1>1, <1>3, <3>2, <3>3, <3>4 DEF ArchiveShape, Tables
  <2>4. CASE \E s \in DOMAIN db.sessions :
               db' = [db EXCEPT !.sessions[s].ended = IngestedAt]
    <3>1. PICK s \in DOMAIN db.sessions :
            db' = [db EXCEPT !.sessions[s].ended = IngestedAt]
      BY <2>4
    <3>2. DOMAIN db' = Tables
      BY <1>1, <3>1 DEF ArchiveShape, Tables
    <3>3. \A table \in Tables \ {"sessions"} : db'[table] = db[table]
      BY <1>1, <3>1 DEF ArchiveShape, Tables
    <3>4. /\ DOMAIN db'.sessions = DOMAIN db.sessions
          /\ \A c \in DOMAIN db'.sessions : DOMAIN db'.sessions[c] = DOMAIN db.sessions[c]
      BY <1>1, <3>1 DEF ArchiveShape, Tables
    <3> QED
      BY <1>1, <1>3, <3>2, <3>3, <3>4 DEF ArchiveShape, Tables
  <2>5. CASE \E s \in DOMAIN db.sessions, p \in Sessions \cup {None} :
               db' = [db EXCEPT !.sessions[s].parent = p]
    <3>1. PICK s \in DOMAIN db.sessions, p \in Sessions \cup {None} :
            db' = [db EXCEPT !.sessions[s].parent = p]
      BY <2>5
    <3>2. DOMAIN db' = Tables
      BY <1>1, <3>1 DEF ArchiveShape, Tables
    <3>3. \A table \in Tables \ {"sessions"} : db'[table] = db[table]
      BY <1>1, <3>1 DEF ArchiveShape, Tables
    <3>4. /\ DOMAIN db'.sessions = DOMAIN db.sessions
          /\ \A c \in DOMAIN db'.sessions : DOMAIN db'.sessions[c] = DOMAIN db.sessions[c]
      BY <1>1, <3>1 DEF ArchiveShape, Tables
    <3> QED
      BY <1>1, <1>3, <3>2, <3>3, <3>4 DEF ArchiveShape, Tables
  <2> HIDE DEF Goal
  <2> QED
    BY <1>4, <2>1, <2>2, <2>3, <2>4, <2>5 DEF DamagedSessions
<1>5. ASSUME NEW s \in Sessions, NEW i \in DOMAIN db.events[s],
             db' = [db EXCEPT !.events[s] = Without(db.events[s], i)]
      PROVE  Goal
  <2>1. DOMAIN db' = Tables /\ db'.events = [db.events EXCEPT ![s] = Without(db.events[s], i)]
    BY <1>1, <1>5 DEF ArchiveShape, Tables
  <2>2. \A table \in Tables \ {"events"} : db'[table] = db[table]
    BY <1>1, <1>5 DEF ArchiveShape, Tables
  <2>3. \A c \in Sessions :
          /\ DOMAIN db'.events[c] \subseteq DOMAIN db.events[c]
          /\ \A j \in DOMAIN db'.events[c] : db'.events[c][j] = db.events[c][j]
    BY <1>1, <2>1 DEF ArchiveShape, Without, Restrict
  <2>4. DOMAIN db'.events = Sessions
    BY <1>1, <2>1 DEF ArchiveShape
  <2>5. \A c \in Sessions : IsFiniteSet(DOMAIN db'.events[c])
    BY <1>1, <2>3, FS_Subset DEF ArchiveShape
  <2>6. SearchableEvents' \subseteq SearchableEvents
    <3>1. \A c \in Sessions : Searchable(db'.events[c]) \subseteq Searchable(db.events[c])
      BY <2>3 DEF Searchable
    <3>2. db'.batch = db.batch
      BY <2>2 DEF Tables
    <3>3. SearchableEvents' =
            UNION {{<<c, db.batch[c], j>> : j \in Searchable(db'.events[c])} : c \in Sessions}
      BY <3>2 DEF SearchableEvents
    <3> QED
      BY <3>1, <3>3 DEF SearchableEvents
  <2>7. ArchiveShape'
    BY <1>1, <2>1, <2>2, <2>4, <2>5 DEF ArchiveShape, Tables
  <2> QED
    BY <2>2, <2>6, <2>7 DEF Tables
<1>6. ASSUME NEW s \in Sessions, NEW x,
             db' = [db EXCEPT !.spans[s] = x]
      PROVE  Goal
  <2>1. DOMAIN db' = Tables /\ DOMAIN db'.spans = Sessions
    BY <1>1, <1>6 DEF ArchiveShape, Tables
  <2>2. \A table \in Tables \ {"spans"} : db'[table] = db[table]
    BY <1>1, <1>6 DEF ArchiveShape, Tables
  <2> QED
    BY <1>1, <1>3, <2>1, <2>2 DEF ArchiveShape, Tables
<1>7. ASSUME NEW x, IsFiniteSet(x), x \subseteq db.index \/ db.index \subseteq x,
             db' = [db EXCEPT !.index = x]
      PROVE  Goal
  <2>1. DOMAIN db' = Tables /\ db'.index = x
    BY <1>1, <1>7 DEF ArchiveShape, Tables
  <2>2. \A table \in Tables \ {"index"} : db'[table] = db[table]
    BY <1>1, <1>7 DEF ArchiveShape, Tables
  <2>3. db'.batch = db.batch /\ db'.events = db.events
    BY <2>2 DEF Tables
  <2>4. SearchableEvents' = SearchableEvents
    BY <2>3 DEF SearchableEvents, Searchable
  <2>5. ArchiveShape'
    BY <1>1, <1>7, <2>1, <2>2 DEF ArchiveShape, Tables
  <2> QED
    BY <1>7, <2>1, <2>2, <2>4, <2>5 DEF Tables
<1>8. ASSUME db' \in DamagedStreams PROVE Goal
  <2>1. CASE \E s \in Sessions : \E i \in DOMAIN db.events[s] :
               db' = [db EXCEPT !.events[s] = Without(db.events[s], i)]
    <3> HIDE DEF Goal
    <3> QED
      BY <1>5, <2>1
  <2>2. CASE \E s \in Sessions : \E id \in DOMAIN db.spans[s] :
               db' = [db EXCEPT !.spans[s] = Without(db.spans[s], id)]
    <3> HIDE DEF Goal
    <3> QED
      BY <1>6, <2>2
  <2>3. CASE \E s \in Sessions : \E id \in DOMAIN db.spans[s] :
               db' = [db EXCEPT !.spans[s][id].first = db.spans[s][id].first + 1]
    <3>1. PICK s \in Sessions : \E id \in DOMAIN db.spans[s] :
            db' = [db EXCEPT !.spans[s][id].first = db.spans[s][id].first + 1]
      BY <2>3
    <3>2. PICK id \in DOMAIN db.spans[s] :
            db' = [db EXCEPT !.spans[s][id].first = db.spans[s][id].first + 1]
      BY <3>1
    <3>3. db' = [db EXCEPT !.spans[s] =
                   [db.spans[s] EXCEPT ![id].first = db.spans[s][id].first + 1]]
      BY <1>1, <3>2 DEF ArchiveShape
    <3> HIDE DEF Goal
    <3> QED
      BY <1>6, <3>3
  <2>4. CASE \E row \in db.index : db' = [db EXCEPT !.index = @ \ {row}]
    <3>1. PICK row \in db.index : db' = [db EXCEPT !.index = @ \ {row}]
      BY <2>4
    <3>2. db' = [db EXCEPT !.index = db.index \ {row}]
      BY <1>1, <3>1 DEF ArchiveShape
    <3>3. IsFiniteSet(db.index \ {row})
      BY <1>1, FS_Subset DEF ArchiveShape
    <3> HIDE DEF Goal
    <3> QED
      BY <1>7, <3>2, <3>3
  <2>5. CASE \E s \in Sessions : \E i \in DOMAIN db.events[s] :
               db' = [db EXCEPT !.index = db.index \cup {<<s, db.batch[s], i>>}]
    <3>1. PICK s \in Sessions : \E i \in DOMAIN db.events[s] :
            db' = [db EXCEPT !.index = db.index \cup {<<s, db.batch[s], i>>}]
      BY <2>5
    <3>2. PICK i \in DOMAIN db.events[s] :
            db' = [db EXCEPT !.index = db.index \cup {<<s, db.batch[s], i>>}]
      BY <3>1
    <3>3. IsFiniteSet(db.index \cup {<<s, db.batch[s], i>>})
      BY <1>1, FS_AddElement DEF ArchiveShape
    <3> HIDE DEF Goal
    <3> QED
      BY <1>7, <3>2, <3>3
  <2> DEFINE Rows1(s) == {[db EXCEPT !.events[s] = Without(db.events[s], i)] : i \in DOMAIN db.events[s]}
             Rows2(s) == {[db EXCEPT !.spans[s] = Without(db.spans[s], id)] : id \in DOMAIN db.spans[s]}
             Rows3(s) == {[db EXCEPT !.spans[s][id].first = db.spans[s][id].first + 1] :
                            id \in DOMAIN db.spans[s]}
             Rows4(s) == {[db EXCEPT !.index = db.index \cup {<<s, db.batch[s], i>>}] :
                            i \in DOMAIN db.events[s]}
             Rows5 == {[db EXCEPT !.index = db.index \ {row}] : row \in db.index}
  <2>6. DamagedStreams = (UNION {Rows1(s) \cup Rows2(s) \cup Rows3(s) : s \in Sessions})
                         \cup Rows5 \cup (UNION {Rows4(s) : s \in Sessions})
    BY DEF DamagedStreams
  <2>7. \A s \in Sessions : db' \in Rows1(s) \cup Rows2(s) \cup Rows3(s) => Goal
    <3> HIDE DEF Goal
    <3> QED
      BY <2>1, <2>2, <2>3
  <2>8. \A s \in Sessions : db' \in Rows4(s) => Goal
    <3> HIDE DEF Goal
    <3> QED
      BY <2>5
  <2>9. db' \in Rows5 => Goal
    <3> HIDE DEF Goal
    <3> QED
      BY <2>4
  <2> HIDE DEF Goal, Rows1, Rows2, Rows3, Rows4, Rows5
  <2> QED
    BY <1>8, <2>6, <2>7, <2>8, <2>9
<1>9. ASSUME NEW table \in {"objects", "version", "tokenizer"}, NEW x,
             table = "objects" => DOMAIN x \subseteq DOMAIN db.objects,
             db' = [db EXCEPT ![table] = x]
      PROVE  Goal
  <2>1. DOMAIN db' = Tables /\ DOMAIN db'.objects \subseteq DOMAIN db.objects
    BY <1>1, <1>9 DEF ArchiveShape, Tables
  <2>2. \A other \in Tables \ {"objects", "version", "tokenizer"} : db'[other] = db[other]
    BY <1>1, <1>9 DEF ArchiveShape, Tables
  <2> QED
    BY <1>1, <1>3, <2>1, <2>2 DEF ArchiveShape, Tables
<1>10. ASSUME db' \in DamagedObjects PROVE Goal
  <2> DEFINE Lesser(x) == DOMAIN x \subseteq DOMAIN db.objects
             Small == \E table \in {"objects", "version", "tokenizer"} : \E x :
                        (table = "objects" => Lesser(x)) /\ db' = [db EXCEPT ![table] = x]
  <2>1. ASSUME NEW x, DOMAIN x \subseteq DOMAIN db.objects, db' = [db EXCEPT !.objects = x]
        PROVE  Small
    BY <2>1
  <2>2. ASSUME NEW x, \/ db' = [db EXCEPT !.version = x]
                      \/ db' = [db EXCEPT !.tokenizer = x]
        PROVE  Small
    BY <2>2
  <2>3. Small
    <3>1. CASE \E h \in DOMAIN db.objects : db' = [db EXCEPT !.objects = Without(@, h)]
      <4>1. PICK h \in DOMAIN db.objects : db' = [db EXCEPT !.objects = Without(@, h)]
        BY <3>1
      <4>2. db' = [db EXCEPT !.objects = Without(db.objects, h)]
        BY <1>1, <4>1 DEF ArchiveShape, Tables
      <4>3. DOMAIN Without(db.objects, h) \subseteq DOMAIN db.objects
        BY DEF Without, Restrict
      <4> HIDE DEF Small
      <4> QED
        BY <2>1, <4>2, <4>3
    <3>2. CASE \E h \in DOMAIN db.objects :
                 \/ db' = [db EXCEPT !.objects[h].zstd = FALSE]
                 \/ db' = [db EXCEPT !.objects[h].bytes = db.objects[h].bytes + 1]
                 \/ \E c \in Garbled \cup {None} : db' = [db EXCEPT !.objects[h].decoded = c]
      <4>1. PICK h \in DOMAIN db.objects :
              \/ db' = [db EXCEPT !.objects[h].zstd = FALSE]
              \/ db' = [db EXCEPT !.objects[h].bytes = db.objects[h].bytes + 1]
              \/ \E c \in Garbled \cup {None} : db' = [db EXCEPT !.objects[h].decoded = c]
        BY <3>2
      <4>2. \E object : db' = [db EXCEPT !.objects = [db.objects EXCEPT ![h] = object]]
        BY <1>1, <4>1 DEF ArchiveShape, Tables
      <4>3. PICK object : db' = [db EXCEPT !.objects = [db.objects EXCEPT ![h] = object]]
        BY <4>2
      <4> HIDE DEF Small
      <4> QED
        BY <2>1, <4>3
    <3>3. CASE \E v : db' = [db EXCEPT !.version = v] \/ db' = [db EXCEPT !.tokenizer = v]
      <4> HIDE DEF Small
      <4> QED
        BY <2>2, <3>3
    <3> HIDE DEF Small
    <3> QED
      BY <1>10, <3>1, <3>2, <3>3 DEF DamagedObjects
  <2> HIDE DEF Goal
  <2> QED
    BY <1>9, <2>3
<1> HIDE DEF Goal
<1>11. Goal
  BY <1>2, <1>4, <1>8, <1>10
<1> QED
  BY <1>11 DEF Goal

LEMMA SourceDamageFields ==
  ASSUME ArchiveShape, DamageSource
  PROVE  /\ ArchiveShape'
         /\ db'.objects = db.objects /\ db'.index = db.index
         /\ SearchableEvents' = SearchableEvents
         /\ \A s \in Sessions : \A row \in db'.sources[s] :
              \/ row \in db.sources[s]
              \/ row \in altered' /\ \E src \in db.sources[s] : row \in Alterations(src)
         /\ altered \subseteq altered'
<1> DEFINE Damages(s, src) ==
             \/ db' = [db EXCEPT !.sources[s] = @ \ {src}] /\ altered' = altered
             \/ \E row \in Alterations(src) \ {src} :
                  /\ db' = [db EXCEPT !.sources[s] = (@ \ {src}) \cup {row}]
                  /\ altered' = altered \cup {row}
<1>0. PICK s \in Sessions : \E src \in db.sources[s] : Damages(s, src)
  BY DEF DamageSource
<1>1. PICK src \in db.sources[s] : Damages(s, src)
  BY <1>0
<1>2. \E rows : /\ db' = [db EXCEPT !.sources = [db.sources EXCEPT ![s] = rows]]
                /\ IsFiniteSet(rows) /\ altered \subseteq altered'
                /\ \A row \in rows :
                     row \in db.sources[s] \/ (row \in altered' /\ row \in Alterations(src))
  <2>1. IsFiniteSet(db.sources[s] \ {src})
    BY FS_Subset DEF ArchiveShape
  <2>2. CASE db' = [db EXCEPT !.sources[s] = @ \ {src}] /\ altered' = altered
    <3> DEFINE rows == db.sources[s] \ {src}
    <3>1. db' = [db EXCEPT !.sources = [db.sources EXCEPT ![s] = rows]]
      BY <2>2 DEF ArchiveShape, Tables
    <3>2. IsFiniteSet(rows) /\ altered \subseteq altered' /\ \A row \in rows : row \in db.sources[s]
      BY <2>1, <2>2
    <3> HIDE DEF rows
    <3> QED
      BY <3>1, <3>2
  <2>3. CASE \E row \in Alterations(src) \ {src} :
               /\ db' = [db EXCEPT !.sources[s] = (@ \ {src}) \cup {row}]
               /\ altered' = altered \cup {row}
    <3>1. PICK row \in Alterations(src) \ {src} :
            /\ db' = [db EXCEPT !.sources[s] = (@ \ {src}) \cup {row}]
            /\ altered' = altered \cup {row}
      BY <2>3
    <3> DEFINE rows == (db.sources[s] \ {src}) \cup {row}
    <3>2. db' = [db EXCEPT !.sources = [db.sources EXCEPT ![s] = rows]]
      BY <3>1 DEF ArchiveShape, Tables
    <3>3. IsFiniteSet(rows)
      BY <2>1, FS_AddElement
    <3>4. \A other \in rows :
            other \in db.sources[s] \/ (other \in altered' /\ other \in Alterations(src))
      BY <3>1
    <3> HIDE DEF rows
    <3> QED
      BY <3>1, <3>2, <3>3, <3>4
  <2> QED
    BY <1>1, <2>2, <2>3
<1>3. PICK rows : /\ db' = [db EXCEPT !.sources = [db.sources EXCEPT ![s] = rows]]
                  /\ IsFiniteSet(rows) /\ altered \subseteq altered'
                  /\ \A row \in rows :
                       row \in db.sources[s] \/ (row \in altered' /\ row \in Alterations(src))
  BY <1>2
<1>4. /\ DOMAIN db' = Tables
      /\ db'.sources = [db.sources EXCEPT ![s] = rows]
      /\ \A table \in Tables \ {"sources"} : db'[table] = db[table]
  BY <1>3 DEF ArchiveShape, Tables
<1>5. DOMAIN db'.sources = Sessions /\ \A c \in Sessions : IsFiniteSet(db'.sources[c])
  BY <1>3, <1>4 DEF ArchiveShape
<1>6. ArchiveShape'
  BY <1>4, <1>5 DEF ArchiveShape, Tables
<1>7. /\ db'.objects = db.objects /\ db'.index = db.index
      /\ db'.events = db.events /\ db'.batch = db.batch
  BY <1>4 DEF Tables
<1>8. SearchableEvents' = SearchableEvents
  BY <1>7 DEF SearchableEvents, Searchable
<1>9. \A c \in Sessions : \A row \in db'.sources[c] :
        \/ row \in db.sources[c]
        \/ row \in altered' /\ \E other \in db.sources[c] : row \in Alterations(other)
  BY <1>3, <1>4 DEF ArchiveShape
<1> QED
  BY <1>3, <1>6, <1>7, <1>8, <1>9

LEMMA DamageFields ==
  ASSUME Shape, Damage
  PROVE  /\ ArchiveShape'
         /\ DOMAIN db'.objects \subseteq DOMAIN db.objects
         /\ \/ db'.index = db.index /\ SearchableEvents' = SearchableEvents
            \/ SearchableEvents' = SearchableEvents /\ db'.index \subseteq db.index
            \/ SearchableEvents' = SearchableEvents /\ db.index \subseteq db'.index
            \/ db'.index = db.index /\ SearchableEvents' \subseteq SearchableEvents
         /\ \A s \in Sessions : \A row \in db'.sources[s] :
              \/ row \in db.sources[s]
              \/ row \in altered' /\ \E src \in db.sources[s] : row \in Alterations(src)
         /\ altered \subseteq altered'
<1>1. CASE DamageRow
  <2>1. altered' = altered
    BY <1>1 DEF DamageRow
  <2> QED
    BY <1>1, <2>1, RowDamageFields
<1>2. CASE DamageSource
  BY <1>2, SourceDamageFields DEF Shape
<1> QED
  BY <1>1, <1>2 DEF Damage

(***************************************************************************)
(* The writer                                                              *)
(***************************************************************************)
\* What a commit makes of each table.
CommitWrites(s, t) ==
  /\ DOMAIN db' = Tables
  /\ db'.sessions = UpsertRow(db.sessions, s, t)
  /\ db'.sources = [db.sources EXCEPT ![s] = Retained(db.sources[s], t.sources)]
  /\ db'.objects = StoreObjects(db.objects, t.sources)
  /\ db'.events = [db.events EXCEPT ![s] = Rows(t.events)]
  /\ db'.spans = [db.spans EXCEPT ![s] = DeriveSpans(t.events)]
  /\ db'.version = db.version /\ db'.tokenizer = db.tokenizer
  /\ DOMAIN db'.batch = Sessions
  /\ \A c \in Sessions \ {s} : db'.batch[c] = db.batch[c]
  /\ \/ db'.batch[s] = db.batch[s] /\ db'.index = db.index /\ db.events[s] = Rows(t.events)
     \/ db'.index = (db.index \ {<<s, db.batch[s], i>> : i \in Searchable(db.events[s])})
                    \cup {<<s, db'.batch[s], i>> : i \in Searchable(Rows(t.events))}

LEMMA CommitFields ==
  ASSUME Shape, NEW s \in Sessions, Commit(s), NEW t, t = Transcript[s][next[s] + 1]
  PROVE  t \in Seen /\ IsFiniteSet(t.sources) /\ CommitWrites(s, t)
<1>1. next[s] + 1 \in DOMAIN Transcript[s] /\ Transcript[s] \in Seq(Seen)
  <2>1. Transcript[s] \in Seq(Seen)
    BY RetrievalAssumption
  <2>2. next[s] \in Nat /\ next[s] < Len(Transcript[s])
    BY DEF Shape, Commit
  <2> QED
    BY <2>1, <2>2
<1>2. t \in Seen /\ IsFiniteSet(t.sources)
  BY <1>1, RetrievalAssumption
<1>3. DOMAIN db = Tables /\ DOMAIN db.batch = Sessions
  BY DEF Shape, ArchiveShape
<1>4. db' = Written(db, s, t, next[s] + 1)
  BY DEF Commit
<1> DEFINE batch == next[s] + 1
           kept == db.events[s] = Rows(t.events)
           indexed == {<<s, batch, i>> : i \in Searchable(Rows(t.events))}
           dropped == {<<s, db.batch[s], i>> : i \in Searchable(db.events[s])}
           sessions == UpsertRow(db.sessions, s, t)
           sources == Retained(db.sources[s], t.sources)
           objects == StoreObjects(db.objects, t.sources)
           rows == Rows(t.events)
           spans == DeriveSpans(t.events)
<1>5. db' = [db EXCEPT
               !.sessions = sessions,
               !.sources[s] = sources,
               !.objects = objects,
               !.events[s] = rows,
               !.batch[s] = IF kept THEN db.batch[s] ELSE batch,
               !.index = IF kept THEN db.index ELSE (db.index \ dropped) \cup indexed,
               !.spans[s] = spans]
  BY <1>4, Zenon DEF Written
<1> HIDE DEF sessions, sources, objects, rows, spans, indexed, dropped, kept, batch
<1>6. /\ DOMAIN db' = Tables
      /\ db'.sessions = sessions
      /\ db'.sources = [db.sources EXCEPT ![s] = sources]
      /\ db'.objects = objects
      /\ db'.events = [db.events EXCEPT ![s] = rows]
      /\ db'.spans = [db.spans EXCEPT ![s] = spans]
      /\ db'.version = db.version /\ db'.tokenizer = db.tokenizer
  BY <1>3, <1>5 DEF Tables
<1>7. /\ db'.batch = [db.batch EXCEPT ![s] = IF kept THEN db.batch[s] ELSE batch]
      /\ db'.index = IF kept THEN db.index ELSE (db.index \ dropped) \cup indexed
  BY <1>3, <1>5 DEF Tables
<1> HIDE <1>5
<1>8. CASE kept
  BY <1>2, <1>3, <1>6, <1>7, <1>8
     DEF CommitWrites, kept, sessions, sources, objects, rows, spans
<1>9. CASE ~kept
  <2>1. /\ db'.batch[s] = batch /\ DOMAIN db'.batch = Sessions
        /\ \A c \in Sessions \ {s} : db'.batch[c] = db.batch[c]
    BY <1>3, <1>7, <1>9
  <2>2. indexed = {<<s, db'.batch[s], i>> : i \in Searchable(Rows(t.events))}
    BY <2>1 DEF indexed
  <2>3. db'.index = (db.index \ dropped) \cup indexed
    BY <1>7, <1>9
  <2> QED
    BY <1>2, <1>6, <2>1, <2>2, <2>3
       DEF CommitWrites, sessions, sources, objects, rows, spans, dropped
<1> QED
  BY <1>8, <1>9

\* The row a commit writes, and the rows it leaves alone but for their child
\* counts.
Upserted(s, t, new) ==
  /\ DOMAIN new = DOMAIN db.sessions \cup {s}
  /\ \A c \in DOMAIN new : DOMAIN new[c] = Columns
  /\ \A c \in DOMAIN db.sessions \ {s} :
       \A column \in Columns \ {"child_count"} :
         new[c][column] = db.sessions[c][column]
  /\ new[s].parent = t.parent
  /\ new[s].relation = IF t.parent = None THEN None ELSE "subagent"
  /\ new[s].event_count = Len(t.events)
  /\ new[s].turn_count =
       Cardinality({i \in DOMAIN t.events : t.events[i].kind \in TurnKinds})
  /\ new[s].tool_call_count =
       Cardinality({i \in DOMAIN t.events : t.events[i].kind = "tool_call"})
  /\ new[s].sort_time =
       OrElse(new[s].ended, OrElse(new[s].started, new[s].ingested))
  /\ \A c \in DOMAIN new :
       \/ new[c].child_count = Cardinality(Children(new, c))
       \/ /\ c \in DOMAIN db.sessions \ {s}
          /\ new[c].child_count = db.sessions[c].child_count
          /\ Children(new, c) = Children(db.sessions, c)

LEMMA RowsUpserted ==
  ASSUME ArchiveShape, NEW s \in Sessions, NEW t \in Seen,
         NEW new, new = UpsertRow(db.sessions, s, t)
  PROVE  Upserted(s, t, new)
<1> DEFINE old == At(db.sessions, s, [parent |-> None, child_count |-> 0])
           a == Aggregates(t.events, t, IngestedAt)
           row == [parent |-> t.parent, relation |-> IF t.parent = None THEN None ELSE "subagent",
                   started |-> t.started, ended |-> t.ended, ingested |-> IngestedAt,
                   event_count |-> a.event_count, turn_count |-> a.turn_count,
                   tool_call_count |-> a.tool_call_count, error_count |-> a.error_count,
                   sort_time |-> a.sort_time, child_count |-> old.child_count]
           put == Put(db.sessions, s, row)
           anew == CountedAnew(s, old, t)
<1>1. new = RefreshChildCounts(put, anew)
  BY Zenon DEF UpsertRow
<1>2. /\ DOMAIN row = Columns
      /\ row.parent = t.parent
      /\ row.relation = IF t.parent = None THEN None ELSE "subagent"
      /\ row.started = t.started /\ row.ended = t.ended /\ row.ingested = IngestedAt
      /\ row.event_count = Len(t.events)
      /\ row.turn_count = Cardinality({i \in DOMAIN t.events : t.events[i].kind \in TurnKinds})
      /\ row.tool_call_count =
           Cardinality({i \in DOMAIN t.events : t.events[i].kind = "tool_call"})
      /\ row.sort_time = OrElse(t.ended, OrElse(t.started, IngestedAt))
  <2>1. t.events \in Seq(Event)
    BY DEF Seen
  <2>2. /\ a.event_count = Len(t.events)
        /\ a.turn_count = Cardinality({i \in DOMAIN t.events : t.events[i].kind \in TurnKinds})
        /\ a.tool_call_count =
             Cardinality({i \in DOMAIN t.events : t.events[i].kind = "tool_call"})
        /\ a.sort_time = OrElse(t.ended, OrElse(t.started, IngestedAt))
    <3>1. CountsOf(t.events, t, IngestedAt, a)
      BY <2>1, TranscriptListed, AggregatesCount
    <3> HIDE DEF a
    <3> QED
      BY <3>1 DEF CountsOf
  <2> HIDE DEF a, old
  <2> QED
    BY <2>2 DEF Columns
<1>3. s \in DOMAIN db.sessions => old.parent = db.sessions[s].parent
  BY DEF At
<1> HIDE DEF row, old
<1>4. /\ DOMAIN put = DOMAIN db.sessions \cup {s}
      /\ put[s] = row
      /\ \A c \in DOMAIN db.sessions \ {s} : put[c] = db.sessions[c]
  BY DEF Put
<1> HIDE DEF put
<1>5. \A c \in DOMAIN put : DOMAIN put[c] = Columns
  BY <1>2, <1>4 DEF ArchiveShape
<1>6. /\ DOMAIN new = DOMAIN put
      /\ \A c \in DOMAIN put :
           new[c] = IF c \in anew
                    THEN [put[c] EXCEPT !.child_count = Cardinality(Children(put, c))]
                    ELSE put[c]
  BY <1>1 DEF RefreshChildCounts
<1>7. \A c \in DOMAIN put :
        /\ DOMAIN new[c] = Columns
        /\ \A column \in Columns \ {"child_count"} : new[c][column] = put[c][column]
        /\ new[c].child_count =
             IF c \in anew THEN Cardinality(Children(put, c)) ELSE put[c].child_count
  BY <1>5, <1>6 DEF Columns
<1>8. \A c : Children(new, c) = Children(put, c)
  BY <1>6, <1>7 DEF Children, Columns
<1>9. s \in anew /\ old.parent \in anew /\ t.parent \in anew
  BY DEF CountedAnew
<1> HIDE DEF anew
<1>10. ASSUME NEW c \in DOMAIN put, c \notin anew
       PROVE  Children(put, c) = Children(db.sessions, c) /\ c \in DOMAIN db.sessions \ {s}
  BY <1>2, <1>3, <1>4, <1>9, <1>10 DEF Children
<1>11. \A c \in DOMAIN db.sessions \ {s} :
         \A column \in Columns \ {"child_count"} : new[c][column] = db.sessions[c][column]
  BY <1>4, <1>7
<1>12. \A column \in Columns \ {"child_count"} : new[s][column] = row[column]
  BY <1>4, <1>7
<1>13. ASSUME NEW c \in DOMAIN new
       PROVE  \/ new[c].child_count = Cardinality(Children(new, c))
              \/ /\ c \in DOMAIN db.sessions \ {s}
                 /\ new[c].child_count = db.sessions[c].child_count
                 /\ Children(new, c) = Children(db.sessions, c)
  <2>1. CASE c \in anew
    BY <1>6, <1>7, <1>8, <2>1
  <2>2. CASE c \notin anew
    BY <1>4, <1>6, <1>7, <1>8, <1>10, <2>2
  <2> QED
    BY <2>1, <2>2
<1>14. /\ new[s].parent = row.parent /\ new[s].relation = row.relation
       /\ new[s].started = row.started /\ new[s].ended = row.ended
       /\ new[s].ingested = row.ingested /\ new[s].event_count = row.event_count
       /\ new[s].turn_count = row.turn_count /\ new[s].tool_call_count = row.tool_call_count
       /\ new[s].sort_time = row.sort_time
  BY <1>12 DEF Columns
<1> QED
  BY <1>2, <1>4, <1>6, <1>7, <1>11, <1>13, <1>14 DEF Upserted

\* The rows of a transcript: its events, counted from 0.
LEMMA RowsOf ==
  ASSUME NEW events \in Seq(Event)
  PROVE  /\ DOMAIN Rows(events) = 0 .. Len(events) - 1
         /\ \A i \in DOMAIN Rows(events) :
              i + 1 \in DOMAIN events /\ Rows(events)[i] = events[i + 1]
         /\ IsFiniteSet(DOMAIN Rows(events))
         /\ Cardinality(DOMAIN Rows(events)) = Len(events)
<1>1. Len(events) \in Nat /\ DOMAIN events = 1 .. Len(events)
  OBVIOUS
<1>2. DOMAIN Rows(events) = 0 .. Len(events) - 1
  BY DEF Rows
<1>3. IsFiniteSet(0 .. Len(events) - 1) /\ Cardinality(0 .. Len(events) - 1) = Len(events)
  BY <1>1, FS_Interval
<1> QED
  BY <1>1, <1>2, <1>3 DEF Rows

\* As many rows as events have a kind.
LEMMA RowsOfKind ==
  ASSUME NEW events \in Seq(Event), NEW kinds
  PROVE  Cardinality({i \in DOMAIN Rows(events) : Rows(events)[i].kind \in kinds})
           = Cardinality({i \in DOMAIN events : events[i].kind \in kinds})
<1> DEFINE A == {i \in DOMAIN Rows(events) : Rows(events)[i].kind \in kinds}
           B == {i \in DOMAIN events : events[i].kind \in kinds}
           f == [i \in A |-> i + 1]
<1>1. Len(events) \in Nat /\ DOMAIN events = 1 .. Len(events)
  OBVIOUS
<1>2. \A i \in A : i \in 0 .. Len(events) - 1 /\ events[i + 1].kind \in kinds
  BY RowsOf
<1>3. \A j \in B : j - 1 \in A
  <2> SUFFICES ASSUME NEW j \in B PROVE j - 1 \in A
    OBVIOUS
  <2>1. j - 1 \in 0 .. Len(events) - 1 /\ (j - 1) + 1 = j
    BY <1>1
  <2> QED
    BY <2>1, RowsOf
<1>4. f \in Bijection(A, B)
  <2>1. f \in [A -> B]
    BY <1>1, <1>2
  <2>2. \A x, y \in A : f[x] = f[y] => x = y
    BY <1>1, <1>2
  <2>3. \A j \in B : \E i \in A : f[i] = j
    BY <1>1, <1>3
  <2> HIDE DEF f, A, B
  <2> QED
    BY <2>1, <2>2, <2>3 DEF Bijection, Injection, Surjection, IsInjective
<1>5. IsFiniteSet(A)
  <2>1. A \in SUBSET DOMAIN Rows(events)
    OBVIOUS
  <2> QED
    BY <2>1, RowsOf, FS_Subset
<1> HIDE DEF A, B, f
<1>6. Cardinality(A) = Cardinality(B)
  BY <1>4, <1>5, FS_Bijection DEF ExistsBijection
<1> QED
  BY <1>6 DEF A, B

RowIds(s, batch, S) == {<<s, batch, i>> : i \in S}

LEMMA RowIdsFinite ==
  ASSUME NEW S, IsFiniteSet(S), NEW s, NEW batch
  PROVE  IsFiniteSet(RowIds(s, batch, S))
<1> DEFINE T == RowIds(s, batch, S)
           f == [i \in S |-> <<s, batch, i>>]
<1>1. f \in [S -> T] /\ \A row \in T : \E i \in S : f[i] = row
  BY DEF RowIds
<1> HIDE DEF T, f
<1>2. f \in Surjection(S, T)
  BY <1>1 DEF Surjection
<1>3. IsFiniteSet(T)
  BY <1>2, FS_Surjection
<1> QED
  BY <1>3 DEF T

\* A commit as the proofs see it.
Committed(s, t) ==
  /\ t \in Seen /\ IsFiniteSet(t.sources)
  /\ CommitWrites(s, t)
  /\ t = Transcript[s][next[s] + 1]

LEMMA CommitKeepsShape ==
  ASSUME ArchiveShape, NEW s \in Sessions, NEW t, Committed(s, t)
  PROVE  ArchiveShape'
<1>1. t \in Seen /\ t.events \in Seq(Event)
  BY DEF Committed, Seen
<1>2. /\ DOMAIN db'.sessions = DOMAIN db.sessions \cup {s}
      /\ \A c \in DOMAIN db'.sessions : DOMAIN db'.sessions[c] = Columns
  <2>1. Upserted(s, t, db'.sessions)
    BY <1>1, RowsUpserted DEF Committed, CommitWrites
  <2> QED
    BY <2>1 DEF Upserted
<1>3. \A c \in Sessions : IsFiniteSet(DOMAIN db'.events[c])
  <2>1. \A c \in Sessions : db'.events[c] = IF c = s THEN Rows(t.events) ELSE db.events[c]
    BY DEF Committed, CommitWrites, ArchiveShape
  <2> QED
    BY <1>1, <2>1, RowsOf DEF ArchiveShape
<1>4. \A c \in Sessions : IsFiniteSet(db'.sources[c])
  <2>1. \A c \in Sessions :
          db'.sources[c] = IF c = s THEN Retained(db.sources[s], t.sources) ELSE db.sources[c]
    BY DEF Committed, CommitWrites, ArchiveShape
  <2>2. IsFiniteSet(Retained(db.sources[s], t.sources))
    <3> DEFINE kept == {r \in db.sources[s] :
                          r.hash # None /\ \A src \in t.sources : src.locator # r.locator}
    <3>1. kept \in SUBSET db.sources[s] /\ IsFiniteSet(db.sources[s])
      BY DEF ArchiveShape
    <3>2. IsFiniteSet(kept)
      BY <3>1, FS_Subset
    <3>3. IsFiniteSet(t.sources)
      BY DEF Committed
    <3>4. Retained(db.sources[s], t.sources) = t.sources \cup kept
      BY DEF Retained
    <3> HIDE DEF kept
    <3> QED
      BY <3>2, <3>3, <3>4, FS_Union
  <2> QED
    BY <2>1, <2>2 DEF ArchiveShape
<1>5. IsFiniteSet(db'.index)
  <2>1. IsFiniteSet(Searchable(Rows(t.events)))
    <3>1. Searchable(Rows(t.events)) \in SUBSET DOMAIN Rows(t.events)
      BY DEF Searchable
    <3> QED
      BY <1>1, <3>1, RowsOf, FS_Subset
  <2> DEFINE indexed == RowIds(s, db'.batch[s], Searchable(Rows(t.events)))
             left == db.index \ {<<s, db.batch[s], i>> : i \in Searchable(db.events[s])}
  <2>2. IsFiniteSet(indexed)
    BY <2>1, RowIdsFinite
  <2>3. IsFiniteSet(left) /\ IsFiniteSet(db.index)
    BY FS_Subset DEF ArchiveShape
  <2>4. db'.index = db.index \/ db'.index = left \cup indexed
    BY DEF Committed, CommitWrites, RowIds
  <2> HIDE DEF indexed, left
  <2> QED
    BY <2>2, <2>3, <2>4, FS_Union
<1> QED
  BY <1>2, <1>3, <1>4, <1>5 DEF ArchiveShape, Committed, CommitWrites

\* The references of the events and the spans.
LEMMA CommitKeepsSpans ==
  ASSUME ArchiveShape, NEW s \in Sessions, NEW t, Committed(s, t)
  PROVE  /\ ForeignKeysHold => ForeignKeysHold'
         /\ SpanReferencesHold => SpanReferencesHold'
         /\ ParentReferencesHold => ParentReferencesHold'
         /\ SpanRangesHold => SpanRangesHold'
<1>1. t \in Seen /\ t.events \in Seq(Event)
  BY DEF Committed, Seen
<1>2. /\ DOMAIN db'.sessions = DOMAIN db.sessions \cup {s}
      /\ \A c \in DOMAIN db.sessions \ {s} :
           \A column \in Columns \ {"child_count"} :
             db'.sessions[c][column] = db.sessions[c][column]
      /\ db'.sessions[s].event_count = Len(t.events)
  <2>1. Upserted(s, t, db'.sessions)
    BY <1>1, RowsUpserted DEF Committed, CommitWrites
  <2> QED
    BY <2>1 DEF Upserted
<1>3. /\ db'.events[s] = Rows(t.events) /\ db'.spans[s] = DeriveSpans(t.events)
      /\ \A c \in Sessions \ {s} : /\ db'.events[c] = db.events[c]
                                   /\ db'.spans[c] = db.spans[c]
                                   /\ db'.sources[c] = db.sources[c]
  BY DEF Committed, CommitWrites, ArchiveShape
<1>4. SpansBelow(db'.spans[s], Len(t.events)) /\ CallsSpanned(db'.spans[s], t.events, Len(t.events))
  BY <1>1, <1>3, TranscriptListed, SpansDerived DEF Seen
<1>5. ASSUME ForeignKeysHold PROVE ForeignKeysHold'
  BY <1>2, <1>3, <1>5 DEF ForeignKeysHold
<1>6. ASSUME SpanReferencesHold PROVE SpanReferencesHold'
  <2>1. EventsReferenceSpans(db'.events[s], db'.spans[s])
    <3> SUFFICES ASSUME NEW i \in DOMAIN Rows(t.events), InSpan(Rows(t.events)[i])
                 PROVE  CallId(Rows(t.events)[i]) \in DOMAIN db'.spans[s]
      BY <1>3 DEF EventsReferenceSpans
    <3>1. i + 1 \in 1 .. Len(t.events) /\ Rows(t.events)[i] = t.events[i + 1]
      BY <1>1, RowsOf
    <3> QED
      BY <1>4, <3>1 DEF CallsSpanned
  <2> QED
    BY <1>3, <1>6, <2>1 DEF SpanReferencesHold
<1>7. ASSUME ParentReferencesHold PROVE ParentReferencesHold'
  <2>1. ParentsExist(db'.spans[s])
    BY <1>4 DEF SpansBelow, ParentsExist
  <2> QED
    BY <1>3, <1>7, <2>1 DEF ParentReferencesHold
<1>8. ASSUME SpanRangesHold PROVE SpanRangesHold'
  <2> SUFFICES ASSUME NEW c \in DOMAIN db'.sessions, NEW id \in DOMAIN db'.spans[c]
               PROVE  LET span == db'.spans[c][id]
                          indexes == 0 .. db'.sessions[c].event_count - 1
                      IN /\ span.first \in indexes
                         /\ span.last # None => span.last \in indexes /\ span.last >= span.first
    BY DEF SpanRangesHold
  <2>1. CASE c = s
    <3>1. Len(t.events) \in Nat
      BY <1>1
    <3> QED
      BY <1>2, <1>4, <2>1, <3>1 DEF SpansBelow
  <2>2. CASE c # s
    <3>1. c \in DOMAIN db.sessions \ {s} /\ c \in Sessions
      BY <1>2, <2>2 DEF ArchiveShape
    <3>2. db'.spans[c] = db.spans[c] /\ db'.sessions[c].event_count = db.sessions[c].event_count
      BY <1>2, <1>3, <3>1 DEF Columns
    <3> QED
      BY <1>8, <3>1, <3>2 DEF SpanRangesHold
  <2> QED
    BY <2>1, <2>2
<1> QED
  BY <1>5, <1>6, <1>7, <1>8

\* What the aggregates, the lineage and the objects say.
LEMMA CommitKeepsColumns ==
  ASSUME ArchiveShape, NEW s \in Sessions, NEW t, Committed(s, t)
  PROVE  /\ AggregatesAgree => AggregatesAgree'
         /\ LineageTyped => LineageTyped'
         /\ ObjectsReferenced => ObjectsReferenced'
         /\ (\A h \in DOMAIN db.objects : Sound(h)) => (\A h \in DOMAIN db.objects : Sound(h))'
<1>1. t \in Seen /\ t.events \in Seq(Event) /\ t.sources \subseteq NativeSource
  BY DEF Committed, Seen
<1>2. Upserted(s, t, db'.sessions)
  BY <1>1, RowsUpserted DEF Committed, CommitWrites
<1>3. /\ DOMAIN db'.sessions = DOMAIN db.sessions \cup {s}
      /\ \A c \in DOMAIN db.sessions \ {s} :
           \A column \in Columns \ {"child_count"} :
             db'.sessions[c][column] = db.sessions[c][column]
  BY <1>2 DEF Upserted
<1>4. /\ db'.events[s] = Rows(t.events)
      /\ \A c \in Sessions \ {s} : db'.events[c] = db.events[c]
  BY DEF Committed, CommitWrites, ArchiveShape
<1>5. ASSUME AggregatesAgree PROVE AggregatesAgree'
  <2> SUFFICES ASSUME NEW c \in DOMAIN db'.sessions, NEW column \in Counters
               PROVE  db'.sessions[c][column] = Recounted(c)'[column]
    BY DEF AggregatesAgree
  <2>1. /\ Recounted(c)'["event_count"] = Cardinality(DOMAIN db'.events[c])
        /\ Recounted(c)'["child_count"] = Cardinality(Children(db'.sessions, c))
        /\ Recounted(c)'["turn_count"] = OfKind(c, TurnKinds)'
        /\ Recounted(c)'["tool_call_count"] = OfKind(c, {"tool_call"})'
        /\ Recounted(c)'["sort_time"] =
             OrElse(db'.sessions[c].ended, OrElse(db'.sessions[c].started, db'.sessions[c].ingested))
    BY DEF Recounted
  <2>2. CASE c = s
    <3>1. db'.sessions[s].event_count = Cardinality(DOMAIN db'.events[s])
      BY <1>1, <1>2, <1>4, RowsOf DEF Upserted
    <3>2. db'.sessions[s].turn_count = OfKind(s, TurnKinds)'
      <4>1. Cardinality({i \in DOMAIN Rows(t.events) : Rows(t.events)[i].kind \in TurnKinds})
              = Cardinality({i \in DOMAIN t.events : t.events[i].kind \in TurnKinds})
        BY <1>1, RowsOfKind
      <4> QED
        BY <1>2, <1>4, <4>1 DEF Upserted, OfKind
    <3>3. db'.sessions[s].tool_call_count = OfKind(s, {"tool_call"})'
      <4>1. Cardinality({i \in DOMAIN Rows(t.events) : Rows(t.events)[i].kind \in {"tool_call"}})
              = Cardinality({i \in DOMAIN t.events : t.events[i].kind \in {"tool_call"}})
        BY <1>1, RowsOfKind
      <4>2. {i \in DOMAIN t.events : t.events[i].kind \in {"tool_call"}}
              = {i \in DOMAIN t.events : t.events[i].kind = "tool_call"}
        OBVIOUS
      <4> QED
        BY <1>2, <1>4, <4>1, <4>2 DEF Upserted, OfKind
    <3>4. db'.sessions[s].child_count = Cardinality(Children(db'.sessions, s))
      BY <1>2, <1>3 DEF Upserted
    <3> QED
      BY <1>2, <2>1, <2>2, <3>1, <3>2, <3>3, <3>4 DEF Upserted, Counters
  <2>3. CASE c # s
    <3>1. c \in DOMAIN db.sessions \ {s} /\ c \in Sessions
      BY <1>3, <2>3 DEF ArchiveShape
    <3>2. /\ Recounted(c)["event_count"] = Cardinality(DOMAIN db.events[c])
          /\ Recounted(c)["child_count"] = Cardinality(Children(db.sessions, c))
          /\ Recounted(c)["turn_count"] = OfKind(c, TurnKinds)
          /\ Recounted(c)["tool_call_count"] = OfKind(c, {"tool_call"})
          /\ Recounted(c)["sort_time"] =
               OrElse(db.sessions[c].ended, OrElse(db.sessions[c].started, db.sessions[c].ingested))
      BY DEF Recounted
    <3>3. \A other \in Counters : db.sessions[c][other] = Recounted(c)[other]
      BY <1>5, <3>1 DEF AggregatesAgree
    <3>4. db'.events[c] = db.events[c]
      BY <1>4, <3>1
    <3>5. OfKind(c, TurnKinds)' = OfKind(c, TurnKinds)
          /\ OfKind(c, {"tool_call"})' = OfKind(c, {"tool_call"})
      BY <3>4 DEF OfKind
    <3>6. CASE column = "child_count"
      <4>1. \/ db'.sessions[c].child_count = Cardinality(Children(db'.sessions, c))
            \/ /\ db'.sessions[c].child_count = db.sessions[c].child_count
               /\ Children(db'.sessions, c) = Children(db.sessions, c)
        BY <1>2, <1>3, <3>1 DEF Upserted
      <4>2. db.sessions[c].child_count = Cardinality(Children(db.sessions, c))
        BY <3>2, <3>3 DEF Counters
      <4> QED
        BY <2>1, <3>6, <4>1, <4>2
    <3>7. CASE column # "child_count"
      <4>1. \A other \in Columns \ {"child_count"} :
              db'.sessions[c][other] = db.sessions[c][other]
        BY <1>3, <3>1
      <4>2. /\ db'.sessions[c].ended = db.sessions[c].ended
            /\ db'.sessions[c].started = db.sessions[c].started
            /\ db'.sessions[c].ingested = db.sessions[c].ingested
            /\ db'.sessions[c][column] = db.sessions[c][column]
        BY <3>7, <4>1 DEF Columns, Counters
      <4>3. Recounted(c)'[column] = Recounted(c)[column]
        BY <2>1, <3>2, <3>4, <3>5, <3>7, <4>2 DEF Counters
      <4> QED
        BY <3>3, <4>2, <4>3
    <3> QED
      BY <3>6, <3>7
  <2> QED
    BY <2>2, <2>3
<1>6. ASSUME LineageTyped PROVE LineageTyped'
  <2> SUFFICES ASSUME NEW c \in DOMAIN db'.sessions
               PROVE  /\ (db'.sessions[c].parent = None) = (db'.sessions[c].relation = None)
                      /\ db'.sessions[c].relation \in {None, "subagent", "fork"}
    BY DEF LineageTyped
  <2>1. CASE c = s
    BY <1>2, <2>1, NoneDistinct DEF Upserted
  <2>2. CASE c # s
    <3>1. /\ c \in DOMAIN db.sessions
          /\ db'.sessions[c].parent = db.sessions[c].parent
          /\ db'.sessions[c].relation = db.sessions[c].relation
      BY <1>3, <2>2 DEF Columns
    <3> QED
      BY <1>6, <3>1 DEF LineageTyped
  <2> QED
    BY <2>1, <2>2
<1>7. /\ DOMAIN db'.objects = DOMAIN db.objects \cup {src.hash : src \in t.sources}
      /\ \A h \in DOMAIN db.objects : db'.objects[h] = db.objects[h]
      /\ \A h \in DOMAIN db'.objects \ DOMAIN db.objects : db'.objects[h] = Whole(h)
  BY DEF Committed, CommitWrites, StoreObjects, At
<1>8. ASSUME ObjectsReferenced PROVE ObjectsReferenced'
  <2>1. \A src \in db'.sources[s] : src \in t.sources \/ src \in db.sources[s]
    BY DEF Committed, CommitWrites, ArchiveShape, Retained
  <2>2. \A c \in Sessions \ {s} : db'.sources[c] = db.sources[c]
    BY DEF Committed, CommitWrites, ArchiveShape
  <2> QED
    BY <1>7, <1>8, <2>1, <2>2 DEF ObjectsReferenced
<1>9. ASSUME \A h \in DOMAIN db.objects : Sound(h)
      PROVE  (\A h \in DOMAIN db.objects : Sound(h))'
  <2> SUFFICES ASSUME NEW h \in DOMAIN db'.objects PROVE Sound(h)'
    OBVIOUS
  <2>1. CASE h \in DOMAIN db.objects
    <3>1. db'.objects[h] = db.objects[h] /\ Sound(h)
      BY <1>7, <1>9, <2>1
    <3> QED
      BY <3>1 DEF Sound
  <2>2. CASE h \notin DOMAIN db.objects
    <3>1. db'.objects[h] = Whole(h) /\ h \in DOMAIN Bytes
      BY <1>1, <1>7, <2>2 DEF NativeSource
    <3>2. h # None
      BY <3>1, NoneDistinct
    <3> QED
      BY <3>1, <3>2 DEF Sound, Whole
  <2> QED
    BY <2>1, <2>2
<1> QED
  BY <1>5, <1>6, <1>8, <1>9

\* What each of the lasting statements says.
LEMMA LastingRead ==
  /\ Holds("foreign_keys") <=> ForeignKeysHold
  /\ Holds("event_spans") <=> SpanReferencesHold
  /\ Holds("spans") <=> SpanReferencesHold
  /\ Holds("parent_spans") <=> ParentReferencesHold
  /\ Holds("session_aggregates") <=> AggregatesAgree
  /\ Holds("object_references") <=> ObjectsReferenced
  /\ Holds("session_lineage") <=> LineageTyped
  /\ Holds("span_ranges") <=> SpanRangesHold
  /\ Holds("objects") <=> \A h \in DOMAIN db.objects : Sound(h)
BY DEF Holds

LEMMA LastingReadNext ==
  /\ Holds("foreign_keys")' <=> ForeignKeysHold'
  /\ Holds("event_spans")' <=> SpanReferencesHold'
  /\ Holds("spans")' <=> SpanReferencesHold'
  /\ Holds("parent_spans")' <=> ParentReferencesHold'
  /\ Holds("session_aggregates")' <=> AggregatesAgree'
  /\ Holds("object_references")' <=> ObjectsReferenced'
  /\ Holds("session_lineage")' <=> LineageTyped'
  /\ Holds("span_ranges")' <=> SpanRangesHold'
  /\ Holds("objects")' <=> (\A h \in DOMAIN db.objects : Sound(h))'
BY DEF Holds

\* A commit keeps what verify has seen of the other rows, and what it writes
\* itself passes.
LEMMA LastingKept ==
  ASSUME ArchiveShape, NEW s \in Sessions, NEW t, Committed(s, t)
  PROVE  \A statement \in Lasting : Holds(statement) => Holds(statement)'
<1>1. /\ Holds("foreign_keys") => Holds("foreign_keys")'
      /\ Holds("event_spans") => Holds("event_spans")'
      /\ Holds("spans") => Holds("spans")'
      /\ Holds("parent_spans") => Holds("parent_spans")'
      /\ Holds("span_ranges") => Holds("span_ranges")'
  BY CommitKeepsSpans, LastingRead, LastingReadNext
<1>2. /\ Holds("session_aggregates") => Holds("session_aggregates")'
      /\ Holds("object_references") => Holds("object_references")'
      /\ Holds("session_lineage") => Holds("session_lineage")'
      /\ Holds("objects") => Holds("objects")'
  BY CommitKeepsColumns, LastingRead, LastingReadNext
<1> QED
  BY <1>1, <1>2 DEF Lasting

\* They are read from the archive alone.
LEMMA LastingUnread ==
  ASSUME db' = db
  PROVE  \A statement \in Lasting : Holds(statement)' <=> Holds(statement)
<1>1. /\ ForeignKeysHold' <=> ForeignKeysHold
      /\ SpanReferencesHold' <=> SpanReferencesHold
      /\ ParentReferencesHold' <=> ParentReferencesHold
      /\ ObjectsReferenced' <=> ObjectsReferenced
      /\ LineageTyped' <=> LineageTyped
      /\ SpanRangesHold' <=> SpanRangesHold
  BY DEF ForeignKeysHold, SpanReferencesHold, ParentReferencesHold, ObjectsReferenced,
         LineageTyped, SpanRangesHold
<1>2. AggregatesAgree' <=> AggregatesAgree
  <2>1. \A c : Recounted(c)' = Recounted(c)
    BY DEF Recounted, OfKind
  <2> QED
    BY <2>1 DEF AggregatesAgree
<1>3. (\A h \in DOMAIN db.objects : Sound(h))' <=> (\A h \in DOMAIN db.objects : Sound(h))
  BY DEF Sound
<1> QED
  BY <1>1, <1>2, <1>3, LastingRead, LastingReadNext DEF Lasting

\* The index and the searchable events after a commit: the rows of its session
\* leave both, and the rows of the new events enter both.
LEMMA CommitIndexes ==
  ASSUME ArchiveShape, NEW s \in Sessions, NEW t, Committed(s, t)
  PROVE  /\ db.index = SearchableEvents => db'.index = SearchableEvents'
         /\ db.index \subseteq SearchableEvents => db'.index \subseteq SearchableEvents'
         /\ SearchableEvents \subseteq db.index => SearchableEvents' \subseteq db'.index
<1> DEFINE Mine == {<<s, db.batch[s], i>> : i \in Searchable(db.events[s])}
           New == {<<s, db'.batch[s], i>> : i \in Searchable(Rows(t.events))}
           Others == UNION {{<<c, db.batch[c], i>> : i \in Searchable(db.events[c])} :
                              c \in Sessions \ {s}}
<1>1. SearchableEvents = Mine \cup Others
  BY DEF SearchableEvents
<1>2. db'.events[s] = Rows(t.events)
      /\ \A c \in Sessions \ {s} : db'.events[c] = db.events[c] /\ db'.batch[c] = db.batch[c]
  BY DEF Committed, CommitWrites, ArchiveShape
<1>3. SearchableEvents' = New \cup Others
  <2>1. SearchableEvents' =
          {<<s, db'.batch[s], i>> : i \in Searchable(db'.events[s])}
          \cup (UNION {{<<c, db'.batch[c], i>> : i \in Searchable(db'.events[c])} :
                         c \in Sessions \ {s}})
    BY DEF SearchableEvents
  <2>2. UNION {{<<c, db'.batch[c], i>> : i \in Searchable(db'.events[c])} : c \in Sessions \ {s}}
          = Others
    BY <1>2
  <2> QED
    BY <1>2, <2>1, <2>2
<1>4. Mine \cap Others = {}
  OBVIOUS
<1>5. \/ db'.index = (db.index \ Mine) \cup New
      \/ db'.index = db.index /\ New = Mine
  BY DEF Committed, CommitWrites
<1> HIDE DEF Mine, New, Others
<1> QED
  BY <1>1, <1>3, <1>4, <1>5

(***************************************************************************)
(* The shape of the state                                                  *)
(***************************************************************************)
\* A commit, as a step of the specification.
LEMMA CommitCommitted ==
  ASSUME Shape, NEW s \in Sessions, Commit(s)
  PROVE  Committed(s, Transcript[s][next[s] + 1])
BY CommitFields DEF Committed

\* A statement leaves verify where it is.
LEMMA VerifyGoesOn ==
  ASSUME Shape, Verify
  PROVE  /\ call.op = "verify" /\ DOMAIN call' = DOMAIN call
         /\ call'.op = call.op /\ call'.clean = call.clean
<1>1. call.op = "verify"
  BY Zenon DEF Verify
<1>2. DOMAIN call = {"op", "at", "failed", "searchable", "loaded", "quiet", "alone", "clean"}
  BY <1>1 DEF Shape, CallShape
<1> DEFINE statement == Statements[call.at]
<1>3. PICK passed \in Passes(statement) :
        call' = [call EXCEPT
                   !.at = call.at + 1,
                   !.searchable = IF statement = "searchable_events"
                                  THEN Cardinality(SearchableEvents) ELSE call.searchable,
                   !.failed = IF passed THEN call.failed ELSE call.failed \cup {statement}]
  BY Zenon DEF Verify
<1> HIDE DEF statement
<1> QED
  BY <1>1, <1>2, <1>3

LEMMA ShapeKept ==
  ASSUME Shape, [Next]_vars
  PROVE  Shape'
<1> USE DEF Shape
<1>1. ASSUME NEW s \in Sessions, Commit(s) PROVE Shape'
  <2>1. ArchiveShape'
    BY <1>1, CommitCommitted, CommitKeepsShape
  <2>2. CallShape'
    BY <1>1 DEF Commit, CallShape
  <2> QED
    BY <1>1, <2>1, <2>2 DEF Commit
<1>2. CASE Damage
  <2>1. ArchiveShape'
    BY <1>2, DamageFields
  <2>2. CallShape'
    BY <1>2 DEF Damage, CallShape
  <2> QED
    BY <1>2, <2>1, <2>2 DEF Damage
<1>3. ASSUME UNCHANGED <<db, next, damage>>, DOMAIN disk' = DOMAIN disk, CallShape'
      PROVE  Shape'
  BY <1>3 DEF ArchiveShape
<1>4. CASE Create
  BY <1>3, <1>4 DEF Create, CallShape
<1>5. CASE ShowRow
  BY <1>3, <1>5 DEF ShowRow, Start, CallShape
<1>6. CASE ShowSources \/ ShowEvents \/ ShowSpans
  BY <1>3, <1>6 DEF ShowSources, ShowEvents, ShowSpans, CallShape
<1>7. CASE BeginVerify
  BY <1>3, <1>7 DEF BeginVerify, Start, CallShape
<1>8. CASE Verify
  <2>1. /\ call.op = "verify" /\ DOMAIN call' = DOMAIN call
        /\ call'.op = call.op /\ call'.clean = call.clean
    BY <1>8, VerifyGoesOn
  <2>2. UNCHANGED <<db, next, damage, disk>>
    BY <1>8, Zenon DEF Verify
  <2> QED
    BY <1>3, <2>1, <2>2 DEF CallShape
<1>9. CASE Report \/ Transaction \/ VerifyFails
  BY <1>3, <1>9 DEF Report, Transaction, VerifyFails, Idle, CallShape
<1>10. CASE Plan
  BY <1>3, <1>10 DEF Plan, Start, CallShape
<1>11. CASE PlanFails
  BY <1>3, <1>11 DEF PlanFails, Start, Idle, CallShape
<1>12. CASE WriteTemporary \/ SetMtime \/ Manifest \/ RestoreFails
  BY <1>3, <1>12 DEF WriteTemporary, SetMtime, Manifest, RestoreFails, Restoring, Idle, CallShape
<1>13. CASE Persist
  BY <1>3, <1>13 DEF Persist, Restoring, CallShape
<1>14. CASE UNCHANGED vars
  BY <1>3, <1>14 DEF vars, CallShape
<1> QED
  BY <1>1, <1>2, <1>4, <1>5, <1>6, <1>7, <1>8, <1>9, <1>10, <1>11, <1>12, <1>13, <1>14 DEF Next

LEMMA ShapeInit ==
  ASSUME Init
  PROVE  Shape
<1>1. ArchiveShape
  BY FS_EmptySet DEF Init, EmptyArchive, ArchiveShape, Tables
<1>2. CallShape
  BY DEF Init, Idle, CallShape
<1> QED
  BY <1>1, <1>2, RetrievalAssumption DEF Init, Shape

(***************************************************************************)
(* Restores                                                                *)
(***************************************************************************)
\* A source that a commit brought.
LEMMA NativeRead ==
  ASSUME NEW src
  PROVE  src \in Native <=>
           \E s \in Sessions : \E v \in 1 .. next[s] : src \in Transcript[s][v].sources
BY DEF Native

\* What a commit brought stays what an agent left, and what the medium made of it.
LEMMA NamesStay ==
  ASSUME Shape, \A s \in Sessions : next'[s] \in Nat /\ next[s] <= next'[s],
         altered \subseteq altered'
  PROVE  /\ Native \subseteq Native'
         /\ \A h : Archived(h) => Archived(h)'
         /\ \A p, h : FileNamed(p, h) => FileNamed(p, h)'
<1>1. \A s \in Sessions : \A v \in 1 .. next[s] : v \in 1 .. next'[s]
  BY DEF Shape
<1>2. Native \subseteq Native'
  BY <1>1 DEF Native
<1> QED
  BY <1>2 DEF Archived, FileNamed

LEMMA NativeTyped ==
  ASSUME Shape, NEW src \in Native
  PROVE  src \in NativeSource /\ src \in SourceRow /\ src.hash \in DOMAIN Bytes /\ src.hash # None
<1>1. PICK s \in Sessions : \E v \in 1 .. next[s] : src \in Transcript[s][v].sources
  BY NativeRead
<1>2. PICK v \in 1 .. next[s] : src \in Transcript[s][v].sources
  BY <1>1
<1>3. Transcript[s] \in Seq(Seen) /\ next[s] \in Nat /\ next[s] <= Len(Transcript[s])
  BY RetrievalAssumption DEF Shape
<1>4. Transcript[s][v] \in Seen
  BY <1>3
<1>5. src \in NativeSource
  BY <1>2, <1>4 DEF Seen
<1> QED
  BY <1>5, NoneDistinct DEF NativeSource, SourceRow

\* What the medium may make of a row is still one.
LEMMA AlterationTyped ==
  ASSUME NEW src \in SourceRow, NEW row \in Alterations(src)
  PROVE  row \in SourceRow
BY DEF Alterations, SourceRow

LEMMA RestoreSafeInit ==
  ASSUME Init
  PROVE  RestoreSafe
<1>1. SourcesNamed /\ ObjectsNative /\ RestoreInv /\ FilesNamed
  BY DEF Init, EmptyArchive, Idle, SourcesNamed, ObjectsNative, RestoreInv, FilesNamed
<1> QED
  BY <1>1, ShapeInit DEF RestoreSafe

\* A restore that goes on as the others do: the plan is its own.
LEMMA RestoreInvStays ==
  ASSUME Shape, RestoreInv, disk' = disk,
         \A s \in Sessions : next'[s] \in Nat /\ next[s] <= next'[s],
         altered \subseteq altered', DOMAIN call' = DOMAIN call,
         \A field \in DOMAIN call \ {"quiet", "alone", "clean"} : call'[field] = call[field]
  PROVE  RestoreInv'
<1>1. Native \subseteq Native' /\ \A h : Archived(h) => Archived(h)'
  BY NamesStay
<1>2. "op" \in DOMAIN call
  BY DEF Shape, CallShape
<1>3. call'.op = call.op
  BY <1>2
<1>4. CASE call.op \notin {"restore", "restored"}
  BY <1>3, <1>4 DEF RestoreInv
<1>5. CASE call.op \in {"restore", "restored"}
  <2>1. DOMAIN call = {"op", "overwrite", "plan", "at", "temporary", "bytes", "quiet", "alone", "clean"}
    BY <1>5 DEF Shape, CallShape
  <2>2. /\ call'.plan = call.plan /\ call'.at = call.at /\ call'.temporary = call.temporary
        /\ call'.bytes = call.bytes
    BY <2>1
  <2>3. ASSUME NEW i \in DOMAIN call.plan
        PROVE  /\ call.plan[i] \in Native' \cup altered'
               /\ \E src \in Native' : src.hash = call.plan[i].hash
    <3>1. call.plan[i] \in Native \cup altered /\ Archived(call.plan[i].hash)
      BY <1>5 DEF RestoreInv
    <3>2. call.plan[i] \in Native' \cup altered'
      BY <1>1, <3>1
    <3>3. \E src \in Native' : src.hash = call.plan[i].hash
      BY <1>1, <3>1 DEF Archived
    <3> QED
      BY <3>2, <3>3
  <2> QED
    BY <1>3, <1>5, <2>2, <2>3 DEF RestoreInv, Archived
<1> QED
  BY <1>4, <1>5

\* The steps of a restore.
LEMMA RestoreStep ==
  ASSUME RestoreSafe,
         \/ Plan \/ WriteTemporary \/ Persist \/ SetMtime \/ Manifest \/ RestoreFails \/ Create
  PROVE  RestoreInv' /\ FilesNamed'
<1> USE DEF RestoreSafe
<1>1. next' = next /\ db' = db /\ altered' = altered
  BY DEF Plan, Start, WriteTemporary, Persist, SetMtime, Manifest, RestoreFails, Create
<1>2. /\ Native' = Native
      /\ \A h : Archived(h)' <=> Archived(h)
      /\ \A p, h : FileNamed(p, h)' <=> FileNamed(p, h)
  <2>1. Native' = Native
    BY <1>1 DEF Native
  <2> QED
    BY <1>1, <2>1 DEF Archived, FileNamed
<1>3. ASSUME disk' = disk PROVE FilesNamed'
  BY <1>2, <1>3 DEF FilesNamed
<1>4. CASE Plan
  <2>1. PICK s \in Sessions, overwrite \in BOOLEAN : \E plan \in Planned(s) :
          /\ PlanHolds(plan, overwrite)
          /\ Start([op |-> "restore", overwrite |-> overwrite, plan |-> plan, at |-> 1,
                    temporary |-> "none", quiet |-> TRUE, alone |-> TRUE, clean |-> TRUE,
                    bytes |-> [i \in DOMAIN plan |-> db.objects[plan[i].hash].decoded]])
    BY <1>4 DEF Plan
  <2>2. PICK plan \in Planned(s) :
          /\ PlanHolds(plan, overwrite)
          /\ Start([op |-> "restore", overwrite |-> overwrite, plan |-> plan, at |-> 1,
                    temporary |-> "none", quiet |-> TRUE, alone |-> TRUE, clean |-> TRUE,
                    bytes |-> [i \in DOMAIN plan |-> db.objects[plan[i].hash].decoded]])
    BY <2>1
  <2>3. /\ disk' = disk /\ call'.op = "restore" /\ call'.plan = plan /\ call'.at = 1
        /\ call'.temporary = "none"
        /\ call'.bytes = [i \in DOMAIN plan |-> db.objects[plan[i].hash].decoded]
    BY <2>2 DEF Start
  <2>4. Cardinality(Captured(s)) \in Nat
    <3>1. Captured(s) \in SUBSET db.sources[s] /\ IsFiniteSet(db.sources[s])
      BY DEF Captured, Shape, ArchiveShape
    <3> QED
      BY <3>1, FS_Subset, FS_CardinalityType
  <2>5. plan \in [1 .. Cardinality(Captured(s)) -> Captured(s)]
    BY <2>2 DEF Planned
  <2>6. \A i \in DOMAIN plan : plan[i] \in SourceRow /\ plan[i] \in Native \cup altered
    <3>1. \A i \in DOMAIN plan : plan[i] \in db.sources[s]
      BY <2>5 DEF Captured
    <3> QED
      BY <3>1 DEF SourcesNamed
  <2>7. plan \in Seq(SourceRow) /\ DOMAIN plan = 1 .. Len(plan) /\ Len(plan) \in Nat
    <3>1. plan \in [1 .. Cardinality(Captured(s)) -> SourceRow]
      BY <2>5, <2>6
    <3> QED
      BY <2>4, <3>1
  <2>8. /\ \A i, j \in DOMAIN plan : i # j => plan[i].path # plan[j].path
        /\ \A i \in DOMAIN plan :
             plan[i].hash \in DOMAIN db.objects /\ db.objects[plan[i].hash].decoded = plan[i].hash
    BY <2>2 DEF PlanHolds, Sound
  <2>9. \A i \in DOMAIN plan : Archived(plan[i].hash)
    BY <2>8 DEF ObjectsNative
  <2>10. RestoreInv'
    BY <1>1, <1>2, <2>3, <2>6, <2>7, <2>8, <2>9 DEF RestoreInv
  <2> QED
    BY <1>3, <2>3, <2>10
<1>5. CASE WriteTemporary \/ SetMtime \/ Manifest \/ RestoreFails
  <2>1. disk' = disk /\ call.op = "restore"
    BY <1>5 DEF WriteTemporary, SetMtime, Manifest, RestoreFails, Restoring
  <2>2. DOMAIN call = {"op", "overwrite", "plan", "at", "temporary", "bytes", "quiet", "alone", "clean"}
    BY <2>1 DEF Shape, CallShape
  <2>3. CASE WriteTemporary
    <3>1. /\ call'.op = call.op /\ call'.plan = call.plan /\ call'.at = call.at
          /\ call'.temporary = "written" /\ call'.bytes = call.bytes
          /\ call.temporary = "none"
      BY <2>2, <2>3 DEF WriteTemporary, Restoring
    <3>2. RestoreInv'
      BY <1>1, <1>2, <2>1, <3>1 DEF RestoreInv
    <3> QED
      BY <1>3, <2>1, <3>2
  <2>4. CASE SetMtime
    <3>1. /\ call'.op = call.op /\ call'.plan = call.plan /\ call'.at = call.at + 1
          /\ call'.temporary = "none" /\ call'.bytes = call.bytes
          /\ call.temporary = "persisted" /\ call.at <= Len(call.plan)
      BY <2>2, <2>4 DEF SetMtime, Restoring
    <3>2. RestoreInv'
      BY <1>1, <1>2, <2>1, <3>1 DEF RestoreInv
    <3> QED
      BY <1>3, <2>1, <3>2
  <2>5. CASE Manifest
    <3>1. /\ call'.op = "restored" /\ call'.plan = call.plan /\ call'.at = call.at
          /\ call'.temporary = call.temporary /\ call'.bytes = call.bytes
          /\ call.at > Len(call.plan)
      BY <2>2, <2>5 DEF Manifest
    <3>2. RestoreInv'
      BY <1>1, <1>2, <2>1, <3>1 DEF RestoreInv
    <3> QED
      BY <1>3, <2>1, <3>2
  <2>6. CASE RestoreFails
    <3>1. call'.op = "failed"
      BY <2>6 DEF RestoreFails, Idle
    <3>2. RestoreInv'
      BY <3>1 DEF RestoreInv
    <3> QED
      BY <1>3, <2>1, <3>2
  <2> QED
    BY <1>5, <2>3, <2>4, <2>5, <2>6
<1>6. CASE Persist
  <2>1. call.op = "restore" /\ call.at <= Len(call.plan) /\ call.temporary = "written"
    BY <1>6 DEF Persist, Restoring
  <2>2. DOMAIN call = {"op", "overwrite", "plan", "at", "temporary", "bytes", "quiet", "alone", "clean"}
    BY <2>1 DEF Shape, CallShape
  <2>3. /\ call'.op = call.op /\ call'.plan = call.plan /\ call'.at = call.at
        /\ call'.temporary = "persisted" /\ call'.bytes = call.bytes
    BY <1>6, <2>2 DEF Persist
  <2>4. call.at \in DOMAIN call.plan /\ DOMAIN call.plan = 1 .. Len(call.plan)
    BY <2>1 DEF RestoreInv
  <2> DEFINE source == call.plan[call.at]
  <2>5. /\ source \in Native \cup altered /\ Archived(source.hash)
        /\ source.path = Target /\ call.bytes[call.at] = source.hash
    BY <2>1, <2>4 DEF RestoreInv, Target
  <2>6. disk' = [disk EXCEPT ![source.path] = source.hash]
    BY <1>6, <2>5 DEF Persist
  <2>7. source.path \in Paths /\ FileNamed(source.path, source.hash)
    <3>1. source \in SourceRow
      BY <2>1, <2>4 DEF RestoreInv
    <3> QED
      BY <2>5, <3>1 DEF SourceRow, FileNamed
  <2>8. disk'[source.path] = source.hash /\ \A p \in Paths \ {source.path} : disk'[p] = disk[p]
    BY <2>6, <2>7 DEF Shape
  <2>9. FilesNamed'
    BY <1>2, <2>7, <2>8 DEF FilesNamed
  <2>10. \A i \in DOMAIN call.plan : call.plan[i].path \in Paths
    <3>1. \A i \in DOMAIN call.plan : call.plan[i] \in SourceRow
      BY <2>1, <2>4 DEF RestoreInv
    <3> QED
      BY <3>1 DEF SourceRow
  <2>11. \A i \in DOMAIN call.plan : i # call.at => call.plan[i].path # source.path
    BY <2>1, <2>4 DEF RestoreInv
  <2>12. \A i \in DOMAIN call.plan : i <= call.at => disk'[call.plan[i].path] = call.plan[i].hash
    <3> SUFFICES ASSUME NEW i \in DOMAIN call.plan, i <= call.at
                 PROVE  disk'[call.plan[i].path] = call.plan[i].hash
      OBVIOUS
    <3>1. CASE i = call.at
      BY <2>8, <3>1
    <3>2. CASE i # call.at
      <4>1. i < call.at
        BY <2>4, <3>2
      <4>2. disk[call.plan[i].path] = call.plan[i].hash
        BY <2>1, <4>1 DEF RestoreInv
      <4> QED
        BY <2>8, <2>10, <2>11, <3>2, <4>2
    <3> QED
      BY <3>1, <3>2
  <2> HIDE DEF source
  <2>13. RestoreInv'
    BY <1>1, <1>2, <2>1, <2>3, <2>4, <2>12 DEF RestoreInv
  <2> QED
    BY <2>9, <2>13
<1>7. CASE Create
  <2>1. PICK p \in Paths : call.op = "restore" /\ disk[p] = None
                           /\ disk' = [disk EXCEPT ![p] = Foreign] /\ call' = call
    BY <1>7 DEF Create
  <2>2. disk'[p] = Foreign /\ \A q \in Paths \ {p} : disk'[q] = disk[q]
    BY <2>1 DEF Shape
  <2>3. FilesNamed'
    BY <1>2, <2>2 DEF FilesNamed
  <2>4. \A i \in DOMAIN call.plan : call.plan[i].path \in Paths /\ call.plan[i].hash # None
    <3>1. /\ \A i \in DOMAIN call.plan : Archived(call.plan[i].hash)
          /\ \A i \in DOMAIN call.plan : call.plan[i] \in SourceRow
      BY <2>1 DEF RestoreInv
    <3> QED
      BY <3>1, NativeTyped DEF SourceRow, Archived
  <2>5. RestoreInv'
    BY <1>1, <1>2, <2>1, <2>2, <2>4 DEF RestoreInv
  <2> QED
    BY <2>3, <2>5
<1> QED
  BY <1>4, <1>5, <1>6, <1>7

LEMMA RestoreSafeKept ==
  ASSUME RestoreSafe, [Next]_vars
  PROVE  RestoreSafe'
<1> USE DEF RestoreSafe
<1>1. Shape'
  BY ShapeKept
<1>2. ASSUME NEW s \in Sessions, Commit(s) PROVE RestoreSafe'
  <2> DEFINE t == Transcript[s][next[s] + 1]
  <2>1. Committed(s, t)
    BY <1>2, CommitCommitted
  <2>2. next' = [next EXCEPT ![s] = next[s] + 1] /\ disk' = disk
        /\ call' = [call EXCEPT !.quiet = FALSE, !.alone = FALSE] /\ altered' = altered
    BY <1>2 DEF Commit
  <2>3. \A c \in Sessions : next'[c] \in Nat /\ next[c] <= next'[c]
    BY <2>2 DEF Shape
  <2>4. /\ Native \subseteq Native' /\ \A h : Archived(h) => Archived(h)'
        /\ \A p, h : FileNamed(p, h) => FileNamed(p, h)'
    BY <2>2, <2>3, NamesStay
  <2>5. \A src \in t.sources : src \in Native' /\ src \in SourceRow
    <3>1. next'[s] = next[s] + 1 /\ next'[s] \in 1 .. next'[s]
      BY <2>2 DEF Shape
    <3>2. t.sources \subseteq Native'
      BY <3>1 DEF Native
    <3>3. t.sources \subseteq NativeSource
      BY <2>1 DEF Committed, Seen
    <3> HIDE DEF t
    <3> QED
      BY <3>2, <3>3 DEF NativeSource, SourceRow
  <2>6. SourcesNamed'
    <3>1. \A src \in db'.sources[s] : src \in t.sources \/ src \in db.sources[s]
      BY <2>1 DEF Committed, CommitWrites, Shape, ArchiveShape, Retained
    <3>2. \A c \in Sessions \ {s} : db'.sources[c] = db.sources[c]
      BY <2>1 DEF Committed, CommitWrites, Shape, ArchiveShape
    <3> HIDE DEF t
    <3> QED
      BY <2>2, <2>4, <2>5, <3>1, <3>2 DEF SourcesNamed
  <2>7. ObjectsNative'
    <3>1. DOMAIN db'.objects = DOMAIN db.objects \cup {src.hash : src \in t.sources}
      BY <2>1 DEF Committed, CommitWrites, StoreObjects
    <3> HIDE DEF t
    <3>2. \A src \in t.sources : Archived(src.hash)'
      BY <2>5 DEF Archived
    <3> QED
      BY <2>4, <3>1, <3>2 DEF ObjectsNative
  <2>8. RestoreInv'
    BY <2>2, <2>3, RestoreInvStays DEF Shape
  <2>9. FilesNamed'
    BY <2>2, <2>4 DEF FilesNamed
  <2> QED
    BY <1>1, <2>6, <2>7, <2>8, <2>9
<1>3. CASE Damage
  <2>1. next' = next /\ disk' = disk /\ call' = [call EXCEPT !.clean = FALSE]
    BY <1>3 DEF Damage
  <2>2. /\ DOMAIN db'.objects \subseteq DOMAIN db.objects
        /\ \A s \in Sessions : \A row \in db'.sources[s] :
             \/ row \in db.sources[s]
             \/ row \in altered' /\ \E src \in db.sources[s] : row \in Alterations(src)
        /\ altered \subseteq altered'
    BY <1>3, DamageFields
  <2>3. /\ Native \subseteq Native' /\ \A h : Archived(h) => Archived(h)'
        /\ \A p, h : FileNamed(p, h) => FileNamed(p, h)'
    BY <2>1, <2>2, NamesStay DEF Shape
  <2>4. SourcesNamed'
    <3> SUFFICES ASSUME NEW s \in Sessions, NEW row \in db'.sources[s]
                 PROVE  row \in SourceRow /\ row \in Native' \cup altered'
      BY DEF SourcesNamed
    <3>1. CASE row \in db.sources[s]
      BY <2>2, <2>3, <3>1 DEF SourcesNamed
    <3>2. CASE row \in altered' /\ \E src \in db.sources[s] : row \in Alterations(src)
      BY <3>2, AlterationTyped DEF SourcesNamed
    <3> QED
      BY <2>2, <3>1, <3>2
  <2>5. ObjectsNative' /\ FilesNamed'
    BY <2>1, <2>2, <2>3 DEF ObjectsNative, FilesNamed
  <2>6. RestoreInv'
    BY <2>1, <2>2, RestoreInvStays DEF Shape
  <2> QED
    BY <1>1, <2>4, <2>5, <2>6
<1>4. ASSUME db' = db, next' = next, altered' = altered
      PROVE  SourcesNamed' /\ ObjectsNative' /\ (disk' = disk => FilesNamed')
  <2>1. Native' = Native
    BY <1>4 DEF Native
  <2> QED
    BY <1>4, <2>1 DEF SourcesNamed, ObjectsNative, FilesNamed, FileNamed, Archived
<1>5. CASE Plan \/ WriteTemporary \/ Persist \/ SetMtime \/ Manifest \/ RestoreFails \/ Create
  <2>1. db' = db /\ next' = next /\ altered' = altered
    BY <1>5 DEF Plan, Start, WriteTemporary, Persist, SetMtime, Manifest, RestoreFails, Create
  <2> QED
    BY <1>1, <1>4, <1>5, <2>1, RestoreStep
<1>6. ASSUME db' = db, next' = next, altered' = altered, disk' = disk,
             call'.op \notin {"restore", "restored"}
      PROVE  RestoreSafe'
  BY <1>1, <1>4, <1>6 DEF RestoreInv
<1>7. CASE ShowRow \/ BeginVerify \/ PlanFails \/ VerifyFails
  BY <1>6, <1>7 DEF ShowRow, BeginVerify, PlanFails, VerifyFails, Start, Idle
<1>8. CASE ShowSources \/ ShowEvents \/ ShowSpans \/ Verify \/ Transaction \/ Report
  <2>1. db' = db /\ next' = next /\ disk' = disk /\ altered' = altered
    BY <1>8, Zenon DEF ShowSources, ShowEvents, ShowSpans, Verify, Transaction, Report
  <2>2. CASE ShowSources \/ ShowEvents \/ ShowSpans \/ Transaction \/ Report
    <3>1. call'.op \in {"show_events", "show_spans", "shown", "verify", "verified"}
      BY <2>2 DEF ShowSources, ShowEvents, ShowSpans, Transaction, Report, Shape, CallShape
    <3> QED
      BY <1>6, <2>1, <3>1
  <2>3. CASE Verify
    <3>1. call'.op = "verify"
      BY <2>3, VerifyGoesOn
    <3> QED
      BY <1>6, <2>1, <3>1
  <2> QED
    BY <1>8, <2>2, <2>3
<1>9. CASE UNCHANGED vars
  <2>1. db' = db /\ next' = next /\ altered' = altered /\ disk' = disk /\ call' = call
    BY <1>9 DEF vars
  <2>2. RestoreInv'
    BY <2>1, RestoreInvStays DEF Shape
  <2> QED
    BY <1>1, <1>4, <2>1, <2>2
<1> QED
  BY <1>2, <1>3, <1>5, <1>7, <1>8, <1>9 DEF Next

\* Without --overwrite a restore never replaces a file, also not one that
\* another program created after the preflight (store.rs reconstruct_manifest,
\* persist_noclobber).
THEOREM NoClobberAlways == Spec => NoClobber
<1>1. ASSUME RestoreSafe, [Next]_vars
      PROVE  [\A p \in Paths : disk[p] # None /\ disk'[p] # disk[p] => call.overwrite]_disk
  <2>1. DOMAIN disk = Paths
    BY <1>1 DEF RestoreSafe, Shape
  <2>2. \/ disk' = disk
        \/ Persist
        \/ Create
    <3>1. CASE Verify
      BY <3>1, Zenon DEF Verify
    <3>2. CASE ~Verify
      BY <1>1, <3>2 DEF Next, vars, Commit, Damage, ShowRow, Start, ShowSources, ShowEvents,
                        ShowSpans, BeginVerify, Transaction, VerifyFails, Report, Plan, PlanFails, WriteTemporary, SetMtime,
                        Manifest, RestoreFails
    <3> QED
      BY <3>1, <3>2
  <2>3. CASE Persist
    BY <2>1, <2>3 DEF Persist
  <2>4. CASE Create
    BY <2>1, <2>4 DEF Create
  <2> QED
    BY <2>2, <2>3, <2>4
<1> QED
  BY <1>1, RestoreSafeInit, RestoreSafeKept, PTL DEF Spec, NoClobber

\* Whatever fails and whatever is damaged, a restore leaves under a name nothing,
\* the file of another program, or the whole content of a source an agent left, of
\* that name unless a damaged source row says so; and a manifest names files that
\* hold their objects (store.rs reconstruct_manifest).
THEOREM TargetsWholeAlways == Spec => []TargetsWhole
<1>1. ASSUME RestoreSafe PROVE TargetsWhole
  <2>1. FilesNamed
    BY <1>1 DEF RestoreSafe
  <2>2. ASSUME call.op = "restored"
        PROVE  \A i \in DOMAIN call.plan : disk[call.plan[i].path] = call.plan[i].hash
    <3>1. /\ call.plan \in Seq(SourceRow) /\ call.at = Len(call.plan) + 1
          /\ \A i \in DOMAIN call.plan : i < call.at => disk[call.plan[i].path] = call.plan[i].hash
      BY <1>1, <2>2 DEF RestoreSafe, RestoreInv
    <3>2. \A i \in DOMAIN call.plan : i < call.at
      BY <3>1
    <3> QED
      BY <3>1, <3>2
  <2> QED
    BY <2>1, <2>2 DEF TargetsWhole, FilesNamed, FileNamed, Archived
<1> QED
  BY <1>1, RestoreSafeInit, RestoreSafeKept, PTL DEF Spec

(***************************************************************************)
(* Verification                                                            *)
(***************************************************************************)
LEMMA SearchableFinite ==
  ASSUME ArchiveShape
  PROVE  IsFiniteSet(SearchableEvents)
<1> DEFINE Of(s) == RowIds(s, db.batch[s], Searchable(db.events[s]))
           All == {Of(s) : s \in Sessions}
           f == [s \in Sessions |-> Of(s)]
<1>1. \A s \in Sessions : IsFiniteSet(Of(s))
  <2> SUFFICES ASSUME NEW s \in Sessions PROVE IsFiniteSet(Of(s))
    OBVIOUS
  <2>1. Searchable(db.events[s]) \in SUBSET DOMAIN db.events[s]
    BY DEF Searchable
  <2>2. IsFiniteSet(Searchable(db.events[s]))
    BY <2>1, FS_Subset DEF ArchiveShape
  <2> QED
    BY <2>2, RowIdsFinite
<1>2. SearchableEvents = UNION All
  BY DEF SearchableEvents, RowIds
<1> HIDE DEF Of
<1>3. f \in Surjection(Sessions, All)
  BY DEF Surjection
<1> HIDE DEF f
<1>4. IsFiniteSet(All)
  <2> HIDE DEF All
  <2> QED
    BY <1>3, FS_Surjection, RetrievalAssumption
<1>5. \A T \in All : IsFiniteSet(T)
  BY <1>1
<1> HIDE DEF All
<1> QED
  BY <1>2, <1>4, <1>5, FS_UNION

LEMMA VerifyInit ==
  ASSUME Init
  PROVE  VerifyInv
<1> USE DEF Init
<1>1. /\ DOMAIN db.sessions = {} /\ DOMAIN db.objects = {} /\ db.index = {}
      /\ db.version = "current" /\ db.tokenizer = "supported"
      /\ \A s \in Sessions : /\ DOMAIN db.events[s] = {} /\ DOMAIN db.spans[s] = {}
                             /\ db.sources[s] = {}
  BY DEF EmptyArchive
<1>2. \A statement \in Lasting : Holds(statement)
  <2>1. /\ ForeignKeysHold /\ SpanReferencesHold /\ ParentReferencesHold /\ ObjectsReferenced
        /\ SpanRangesHold /\ LineageTyped /\ AggregatesAgree /\ Snapshotted
        /\ \A h \in DOMAIN db.objects : Sound(h)
    BY <1>1 DEF ForeignKeysHold, SpanReferencesHold, EventsReferenceSpans, ParentReferencesHold,
                ParentsExist, ObjectsReferenced, SpanRangesHold, LineageTyped, AggregatesAgree,
                Snapshotted
  <2> QED
    BY <2>1, LastingRead DEF Lasting
<1>3. Snapshotted
  BY <1>1 DEF Snapshotted
<1>4. SearchableEvents = {}
  BY <1>1 DEF SearchableEvents, Searchable
<1>5. PassedHold
  BY DEF PassedHold, Idle
<1>6. IndexVouchedInv
  BY <1>1, <1>4 DEF IndexVouchedInv, Idle
<1>7. Undamaged
  BY <1>1, <1>2, <1>3 DEF Undamaged, Idle
<1> QED
  BY <1>5, <1>6, <1>7, ShapeInit DEF VerifyInv

LEMMA VerifyCommit ==
  ASSUME VerifyInv, NEW s \in Sessions, Commit(s)
  PROVE  PassedHold' /\ IndexVouchedInv' /\ Undamaged'
<1> USE DEF VerifyInv
<1> DEFINE t == Transcript[s][next[s] + 1]
<1>1. Committed(s, t)
  BY CommitCommitted
<1>2. ArchiveShape
  BY DEF Shape
<1>3. \A statement \in Lasting : Holds(statement) => Holds(statement)'
  BY <1>1, <1>2, LastingKept
<1>4. /\ UNCHANGED <<damage, vouched>>
      /\ call' = [call EXCEPT !.quiet = FALSE, !.alone = FALSE]
  BY DEF Commit
<1>5. /\ call'.op = call.op /\ call'.clean = call.clean
      /\ call'.quiet = FALSE /\ call'.alone = FALSE
      /\ call.op \in {"verify", "verified"} => call'.at = call.at /\ call'.failed = call.failed
  BY <1>4 DEF Shape, CallShape
<1>6. PassedHold'
  <2>1. ASSUME call.op = "verify"
        PROVE  /\ call'.at \in 1 .. Len(Statements) + 1
               /\ call'.clean =>
                    \A i \in 1 .. call'.at - 1 :
                      Statements[i] \in Lasting /\ Statements[i] \notin call'.failed
                        => Holds(Statements[i])'
    BY <1>3, <1>5, <2>1 DEF PassedHold
  <2> QED
    BY <1>3, <1>4, <1>5, <2>1 DEF PassedHold
<1>7. IndexVouchedInv'
  BY <1>1, <1>2, <1>4, <1>5, CommitIndexes DEF IndexVouchedInv
<1>8. Undamaged'
  <2>1. Snapshotted => Snapshotted'
    <3> SUFFICES ASSUME Snapshotted, NEW c \in DOMAIN db'.sessions, db'.sources[c] # {}
                 PROVE  \E src \in db'.sources[c] : src.hash # None
      BY DEF Snapshotted
    <3>1. CASE c = s
      <4>1. db'.sources[s] = Retained(db.sources[s], t.sources)
        BY <1>1, <1>2 DEF Committed, CommitWrites, ArchiveShape
      <4>2. \A src \in t.sources : src.hash # None
        BY <1>1, NoneDistinct DEF Committed, Seen, NativeSource
      <4>3. \A src \in db'.sources[s] : src.hash # None
        BY <4>1, <4>2 DEF Retained
      <4> QED
        BY <3>1, <4>3
    <3>2. CASE c # s
      <4>1. Upserted(s, t, db'.sessions)
        BY <1>1, <1>2, RowsUpserted DEF Committed, CommitWrites
      <4>2. c \in DOMAIN db.sessions /\ c \in Sessions
        BY <1>2, <3>2, <4>1 DEF Upserted, ArchiveShape
      <4>3. db'.sources[c] = db.sources[c]
        BY <1>1, <1>2, <3>2, <4>2 DEF Committed, CommitWrites, ArchiveShape
      <4> QED
        BY <4>2, <4>3 DEF Snapshotted
    <3> QED
      BY <3>1, <3>2
  <2>2. db'.version = db.version /\ db'.tokenizer = db.tokenizer
    BY <1>1 DEF Committed, CommitWrites
  <2> QED
    BY <1>3, <1>4, <1>5, <2>1, <2>2 DEF Undamaged, Reportable
<1> QED
  BY <1>6, <1>7, <1>8

LEMMA VerifyDamage ==
  ASSUME VerifyInv, Damage
  PROVE  PassedHold' /\ IndexVouchedInv' /\ Undamaged'
<1> USE DEF VerifyInv
<1>1. /\ damage' = damage + 1 /\ damage \in Nat
      /\ vouched' = "no" /\ call' = [call EXCEPT !.clean = FALSE]
  BY DEF Damage, Shape
<1>2. /\ call'.op = call.op /\ call'.clean = FALSE
      /\ call.op \in {"verify", "verified"} => call'.at = call.at
  BY <1>1 DEF Shape, CallShape
<1>3. PassedHold'
  BY <1>1, <1>2 DEF PassedHold
<1>4. IndexVouchedInv'
  BY <1>1, <1>2, DamageFields DEF IndexVouchedInv
<1>5. Undamaged'
  BY <1>1 DEF Undamaged
<1> QED
  BY <1>3, <1>4, <1>5

\* What verify's next statement finds in an archive only the program wrote.
LEMMA StatementHolds ==
  ASSUME VerifyInv, damage = 0, call.op = "verify", call.at \in 1 .. Len(Statements)
  PROVE  \/ Holds(Statements[call.at])
         \/ Statements[call.at] = "indexed_events" /\ ~call.quiet
<1> USE DEF VerifyInv
<1>1. call.clean
  BY DEF Shape, CallShape
<1>2. \A statement \in Lasting : Holds(statement)
  BY DEF Undamaged
<1>3. Holds("schema_version") /\ Holds("tokenizer") /\ Holds("unsnapshotted")
  BY DEF Undamaged, Holds
<1>4. Holds("fts_integrity") /\ Holds("searchable_events")
  BY DEF Holds
<1>5. Holds("excluded_events")
  <2>1. db.index = SearchableEvents
    BY DEF IndexVouchedInv
  <2>2. ExcludedIndexed = {}
    <3> SUFFICES ASSUME NEW row \in ExcludedIndexed PROVE FALSE
      OBVIOUS
    <3>1. PICK s \in Sessions : \E i \in DOMAIN db.events[s] \ Searchable(db.events[s]) :
            row = <<s, db.batch[s], i>>
      BY DEF ExcludedIndexed
    <3>2. PICK i \in DOMAIN db.events[s] \ Searchable(db.events[s]) : row = <<s, db.batch[s], i>>
      BY <3>1
    <3>3. row \in SearchableEvents
      BY <2>1 DEF ExcludedIndexed
    <3>4. PICK c \in Sessions : \E j \in Searchable(db.events[c]) : row = <<c, db.batch[c], j>>
      BY <3>3 DEF SearchableEvents
    <3> QED
      BY <3>2, <3>4
  <2> QED
    BY <2>2 DEF Holds
<1>6. call.quiet /\ call.at = 10 => Holds("indexed_events")
  BY <1>1 DEF IndexVouchedInv, Holds
<1>7. Statements[call.at] = "indexed_events" => call.at = 10
  BY DEF Statements
<1>8. Statements[call.at] \in Lasting \cup {"schema_version", "tokenizer", "unsnapshotted",
        "fts_integrity", "searchable_events", "excluded_events", "indexed_events"}
  BY DEF Statements, Lasting
<1> QED
  BY <1>2, <1>3, <1>4, <1>5, <1>6, <1>7, <1>8

LEMMA VerifyStatement ==
  ASSUME VerifyInv, Verify
  PROVE  PassedHold' /\ IndexVouchedInv' /\ Undamaged'
<1> USE DEF VerifyInv
<1>1. call.op = "verify" /\ call.at \in 1 .. Len(Statements) /\ Len(Statements) \in Nat
  <2>1. call.op = "verify" /\ call.at <= Len(Statements)
    BY Zenon DEF Verify
  <2>2. Len(Statements) = 16
    BY DEF Statements
  <2> QED
    BY <2>1, <2>2 DEF PassedHold
<1>2. UNCHANGED <<db, damage, vouched>>
  BY Zenon DEF Verify
<1> DEFINE statement == Statements[call.at]
<1>3. /\ call'.op = "verify" /\ call'.at = call.at + 1
      /\ call'.clean = call.clean /\ call'.quiet = call.quiet
      /\ call'.alone = call.alone /\ call'.loaded = call.loaded
      /\ call'.searchable = IF statement = "searchable_events"
                            THEN Cardinality(SearchableEvents) ELSE call.searchable
      /\ \/ Holds(statement) /\ call'.failed = call.failed
         \/ ~Holds(statement) /\ call'.failed = call.failed \cup {statement}
         \/ /\ statement = "fts_integrity" /\ Refusable
            /\ call'.failed \in {call.failed, call.failed \cup {statement}}
  <2>1. DOMAIN call = {"op", "at", "failed", "searchable", "loaded", "quiet", "alone", "clean"}
    BY <1>1 DEF Shape, CallShape
  <2>2. PICK passed \in Passes(statement) :
          call' = [call EXCEPT
                     !.at = call.at + 1,
                     !.searchable = IF statement = "searchable_events"
                                    THEN Cardinality(SearchableEvents) ELSE call.searchable,
                     !.failed = IF passed THEN call.failed ELSE call.failed \cup {statement}]
    BY Zenon DEF Verify
  <2>3. passed = Holds(statement) \/ (statement = "fts_integrity" /\ Refusable /\ passed \in BOOLEAN)
    BY <2>2, Zenon DEF Passes
  <2> HIDE DEF statement
  <2>4. /\ call'.op = call.op /\ call'.at = call.at + 1
        /\ call'.clean = call.clean /\ call'.quiet = call.quiet
        /\ call'.alone = call.alone /\ call'.loaded = call.loaded
        /\ call'.searchable = IF statement = "searchable_events"
                              THEN Cardinality(SearchableEvents) ELSE call.searchable
        /\ call'.failed = IF passed THEN call.failed ELSE call.failed \cup {statement}
    BY <2>1, <2>2
  <2> QED
    BY <1>1, <2>3, <2>4, Zenon
<1>4. SearchableEvents' = SearchableEvents
  BY <1>2 DEF SearchableEvents
<1>5. \A other \in Lasting : Holds(other)' <=> Holds(other)
  BY <1>2, LastingUnread
<1>6. /\ call.at = 9 <=> statement = "searchable_events"
      /\ call.at = 10 <=> statement = "indexed_events"
      /\ statement = "fts_integrity" => statement \notin Lasting \cup {"indexed_events"}
  BY <1>1 DEF Statements, Lasting
<1>7. PassedHold'
  <2>1. ASSUME call.clean, NEW i \in 1 .. call'.at - 1,
               Statements[i] \in Lasting, Statements[i] \notin call'.failed
        PROVE  Holds(Statements[i])
    <3>1. CASE i = call.at
      BY <1>3, <1>6, <2>1, <3>1
    <3>2. CASE i # call.at
      <4>1. i \in 1 .. call.at - 1
        BY <1>1, <1>3, <3>2
      <4>2. Statements[i] \notin call.failed
        BY <1>3, <2>1
      <4> QED
        BY <1>1, <2>1, <4>1, <4>2 DEF PassedHold
    <3> QED
      BY <3>1, <3>2
  <2>2. call'.at \in 1 .. Len(Statements) + 1
    BY <1>1, <1>3
  <2>3. call'.clean =>
          \A i \in 1 .. call'.at - 1 :
            Statements[i] \in Lasting /\ Statements[i] \notin call'.failed => Holds(Statements[i])'
    BY <1>3, <1>5, <2>1
  <2>4. vouched' # "no" => \A other \in Lasting : Holds(other)'
    BY <1>2, <1>5 DEF PassedHold
  <2> QED
    BY <2>2, <2>3, <2>4 DEF PassedHold
<1>8. IndexVouchedInv'
  <2>1. ASSUME call.clean, call.quiet, call'.at > 9
        PROVE  call'.searchable = Cardinality(SearchableEvents)
    <3> HIDE DEF statement
    <3> QED
      BY <1>1, <1>3, <1>6, <2>1 DEF IndexVouchedInv
  <2>2. ASSUME call.clean, call.quiet, call'.at > 10, "indexed_events" \notin call'.failed
        PROVE  Cardinality(db.index) = Cardinality(SearchableEvents)
    <3>1. CASE call.at = 10
      <4>1. Holds("indexed_events")
        BY <1>3, <1>6, <2>2, <3>1
      <4> QED
        BY <1>1, <2>2, <3>1, <4>1 DEF IndexVouchedInv, Holds
    <3>2. CASE call.at # 10
      <4>1. call.at > 10 /\ "indexed_events" \notin call.failed
        BY <1>1, <1>3, <2>2, <3>2
      <4> QED
        BY <1>1, <2>2, <4>1 DEF IndexVouchedInv
    <3> QED
      BY <3>1, <3>2
  <2> HIDE DEF statement
  <2> QED
    BY <1>2, <1>3, <1>4, <2>1, <2>2 DEF IndexVouchedInv
<1>9. Undamaged'
  <2> SUFFICES ASSUME damage = 0 PROVE Undamaged'
    BY <1>2 DEF Undamaged
  <2>1. Snapshotted' <=> Snapshotted
    BY <1>2 DEF Snapshotted
  <2>2. \/ Holds(statement)
        \/ statement = "indexed_events" /\ ~call.quiet
    BY <1>1, StatementHolds
  <2>3. Reportable'
    <3>1. Reportable
      BY <1>1 DEF Undamaged
    <3>2. Refusable => ~call.alone \/ ~call.loaded
      BY DEF IndexVouchedInv, Refusable
    <3> HIDE DEF statement
    <3> QED
      BY <1>3, <2>2, <3>1, <3>2 DEF Reportable
  <2>4. \A other \in Lasting : Holds(other)'
    BY <1>5 DEF Undamaged
  <2> QED
    BY <1>2, <2>1, <2>3, <2>4 DEF Undamaged
<1> QED
  BY <1>7, <1>8, <1>9

\* A report without failures vouches for the archive, and one without a commit
\* beside it for the index.
LEMMA VerifyReport ==
  ASSUME VerifyInv, Report
  PROVE  PassedHold' /\ IndexVouchedInv' /\ Undamaged'
<1> USE DEF VerifyInv
<1>1. /\ call.op = "verify" /\ call.at = 17 /\ Len(Statements) = 16
      /\ call' = [call EXCEPT !.op = "verified"]
      /\ UNCHANGED <<db, damage>>
      /\ vouched' # "no" => call.failed = {} /\ call.clean
      /\ vouched' = "alone" => call.quiet
  <2>1. Len(Statements) = 16
    BY DEF Statements
  <2>2. call.op = "verify" /\ call.at > Len(Statements)
    BY DEF Report
  <2>3. call.at = 17
    BY <2>1, <2>2 DEF PassedHold
  <2> QED
    BY <2>1, <2>2, <2>3 DEF Report
<1>2. /\ call'.op = "verified" /\ call'.failed = call.failed /\ call'.quiet = call.quiet
      /\ call'.clean = call.clean /\ call'.alone = call.alone /\ call'.loaded = call.loaded
  BY <1>1 DEF Shape, CallShape
<1>3. \A statement \in Lasting : Holds(statement)' <=> Holds(statement)
  BY <1>1, LastingUnread
<1>4. SearchableEvents' = SearchableEvents
  BY <1>1 DEF SearchableEvents
<1>5. PassedHold'
  <2>1. ASSUME vouched' # "no", NEW statement \in Lasting PROVE Holds(statement)
    <3>1. \E i \in 1 .. 16 : Statements[i] = statement
      <4>1. /\ Statements[1] = "foreign_keys" /\ Statements[2] = "event_spans"
            /\ Statements[3] = "parent_spans" /\ Statements[7] = "session_aggregates"
            /\ Statements[12] = "object_references" /\ Statements[13] = "session_lineage"
            /\ Statements[14] = "spans" /\ Statements[15] = "span_ranges"
            /\ Statements[16] = "objects"
        BY DEF Statements
      <4> QED
        BY <4>1 DEF Lasting
    <3>2. PICK i \in 1 .. 16 : Statements[i] = statement
      BY <3>1
    <3> QED
      BY <1>1, <2>1, <3>2 DEF PassedHold
  <2> QED
    BY <1>2, <1>3, <2>1 DEF PassedHold
<1>6. IndexVouchedInv'
  <2>1. ASSUME vouched' = "alone", damage <= 1 PROVE db.index = SearchableEvents
    <3>1. Cardinality(db.index) = Cardinality(SearchableEvents)
      BY <1>1, <2>1 DEF IndexVouchedInv
    <3>2. db.index \subseteq SearchableEvents \/ SearchableEvents \subseteq db.index
      BY <2>1 DEF IndexVouchedInv
    <3>3. IsFiniteSet(db.index) /\ IsFiniteSet(SearchableEvents)
      BY SearchableFinite DEF Shape, ArchiveShape
    <3> QED
      BY <3>1, <3>2, <3>3, FS_Subset
  <2> QED
    BY <1>1, <1>2, <1>4, <2>1 DEF IndexVouchedInv
<1>7. Undamaged'
  <2>1. Snapshotted' <=> Snapshotted
    BY <1>1 DEF Snapshotted
  <2> QED
    BY <1>1, <1>2, <1>3, <2>1 DEF Undamaged, Reportable
<1> QED
  BY <1>5, <1>6, <1>7

\* What is neither a commit, a damage nor a statement of verify.
LEMMA VerifyBeside ==
  ASSUME VerifyInv, UNCHANGED <<db, damage, vouched>>,
         \/ call'.op \notin {"verify", "verified"}
         \/ call'.op = "verify" /\ call'.at = 1 /\ call'.failed = {}
         \/ call' = call
  PROVE  PassedHold' /\ IndexVouchedInv' /\ Undamaged'
<1> USE DEF VerifyInv
<1>1. \A statement \in Lasting : Holds(statement)' <=> Holds(statement)
  BY LastingUnread
<1>2. SearchableEvents' = SearchableEvents /\ (Snapshotted' <=> Snapshotted)
  BY DEF SearchableEvents, Snapshotted
<1>3. Len(Statements) = 16
  BY DEF Statements
<1>4. PassedHold'
  BY <1>1, <1>3 DEF PassedHold
<1>5. IndexVouchedInv'
  BY <1>2 DEF IndexVouchedInv
<1>6. Undamaged'
  BY <1>1, <1>2 DEF Undamaged, Reportable
<1> QED
  BY <1>4, <1>5, <1>6

\* A transaction of another process only excuses a failure.
LEMMA VerifyTransaction ==
  ASSUME VerifyInv, Transaction
  PROVE  PassedHold' /\ IndexVouchedInv' /\ Undamaged'
<1> USE DEF VerifyInv
<1>1. /\ UNCHANGED <<db, damage, vouched>>
      /\ call.op = "verify" /\ call' = [call EXCEPT !.alone = FALSE]
  BY DEF Transaction
<1>2. /\ call'.op = "verify" /\ call'.at = call.at /\ call'.failed = call.failed
      /\ call'.searchable = call.searchable /\ call'.loaded = call.loaded
      /\ call'.quiet = call.quiet /\ call'.clean = call.clean /\ call'.alone = FALSE
  BY <1>1 DEF Shape, CallShape
<1>3. \A statement \in Lasting : Holds(statement)' <=> Holds(statement)
  BY <1>1, LastingUnread
<1>4. SearchableEvents' = SearchableEvents /\ (Snapshotted' <=> Snapshotted)
  BY <1>1 DEF SearchableEvents, Snapshotted
<1>5. PassedHold'
  BY <1>1, <1>2, <1>3 DEF PassedHold
<1>6. IndexVouchedInv'
  BY <1>1, <1>2, <1>4 DEF IndexVouchedInv
<1>7. Undamaged'
  BY <1>1, <1>2, <1>3, <1>4 DEF Undamaged, Reportable
<1> QED
  BY <1>5, <1>6, <1>7

LEMMA VerifyKept ==
  ASSUME VerifyInv, [Next]_vars
  PROVE  VerifyInv'
<1>1. Shape'
  BY ShapeKept DEF VerifyInv
<1> SUFFICES PassedHold' /\ IndexVouchedInv' /\ Undamaged'
  BY <1>1 DEF VerifyInv
<1>2. CASE \E s \in Sessions : Commit(s)
  BY <1>2, VerifyCommit
<1>3. CASE Damage
  BY <1>3, VerifyDamage
<1>4. CASE Verify
  BY <1>4, VerifyStatement
<1>5. CASE Report
  BY <1>5, VerifyReport
<1>6. CASE BeginVerify
  <2>1. UNCHANGED <<db, damage, vouched>> /\ call'.op = "verify" /\ call'.at = 1
        /\ call'.failed = {}
    BY <1>6 DEF BeginVerify, Start
  <2> QED
    BY <2>1, VerifyBeside
<1>7. CASE ShowRow \/ PlanFails \/ Plan \/ VerifyFails
  <2>1. UNCHANGED <<db, damage, vouched>> /\ call'.op \notin {"verify", "verified"}
    BY <1>7 DEF ShowRow, PlanFails, Plan, VerifyFails, Start, Idle
  <2> QED
    BY <2>1, VerifyBeside
<1>8. CASE ShowSources \/ ShowEvents \/ ShowSpans
  <2>1. UNCHANGED <<db, damage, vouched>> /\ call'.op \notin {"verify", "verified"}
    BY <1>8 DEF ShowSources, ShowEvents, ShowSpans, VerifyInv, Shape, CallShape
  <2> QED
    BY <2>1, VerifyBeside
<1>9. CASE WriteTemporary \/ Persist \/ SetMtime \/ Manifest \/ RestoreFails
  <2>1. UNCHANGED <<db, damage, vouched>> /\ call'.op \notin {"verify", "verified"}
    BY <1>9 DEF WriteTemporary, Persist, SetMtime, Manifest, RestoreFails, Restoring, Idle,
                VerifyInv, Shape, CallShape
  <2> QED
    BY <2>1, VerifyBeside
<1>10. CASE Create \/ UNCHANGED vars
  <2>1. UNCHANGED <<db, damage, vouched>> /\ call' = call
    BY <1>10 DEF Create, vars
  <2> QED
    BY <2>1, VerifyBeside
<1>11. CASE Transaction
  BY <1>11, VerifyTransaction
<1> QED
  BY <1>2, <1>3, <1>4, <1>5, <1>6, <1>7, <1>8, <1>9, <1>10, <1>11 DEF Next

\* verify reports no failure in an archive only the program wrote, whatever is
\* committed between its statements, but for two of the index: the two counts, only
\* beside a commit; and the integrity check of FTS5, only when another process had a
\* transaction open or the tokenizer is not loaded (store.rs verify).
THEOREM AlarmIsRealAlways == Spec => []AlarmIsReal
<1>1. ASSUME VerifyInv PROVE AlarmIsReal
  BY <1>1 DEF VerifyInv, Undamaged, Reportable, AlarmIsReal
<1> QED
  BY <1>1, VerifyInit, VerifyKept, PTL DEF Spec

\* After a verify that passed, and until the next damage, what it checked holds
\* whatever is committed; and if no commit ran beside it and at most one row was
\* ever damaged, the index holds exactly the searchable events (store.rs verify,
\* write_session).
THEOREM VerifiedServesAlways == Spec => []VerifiedServes
<1>1. ASSUME VerifyInv PROVE VerifiedServes
  <2>1. ASSUME vouched # "no"
        PROVE  /\ ForeignKeysHold /\ SpanReferencesHold /\ ParentReferencesHold /\ SpanRangesHold
               /\ AggregatesAgree /\ LineageTyped /\ ObjectsReferenced
               /\ \A h \in DOMAIN db.objects : Sound(h)
    <3>1. \A statement \in Lasting : Holds(statement)
      BY <1>1, <2>1 DEF VerifyInv, PassedHold
    <3> QED
      BY <3>1, LastingRead DEF Lasting
  <2>2. ASSUME vouched # "no"
        PROVE  \A s \in Sessions : \A src \in Captured(s) :
                 src.hash \in DOMAIN db.objects /\ Sound(src.hash)
    BY <2>1, <2>2 DEF ObjectsReferenced, Captured
  <2>3. vouched = "alone" /\ damage <= 1 => db.index = SearchableEvents
    BY <1>1 DEF VerifyInv, IndexVouchedInv
  <2> QED
    BY <2>1, <2>2, <2>3 DEF VerifiedServes
<1> QED
  BY <1>1, VerifyInit, VerifyKept, PTL DEF Spec

(***************************************************************************)
(* Shows                                                                   *)
(***************************************************************************)
\* The span of an event in a window is in the window.
LEMMA WindowSpanned ==
  ASSUME NEW s \in Sessions, NEW w \in Windows, NEW events \in Seq(Event), CallsOnce(events),
         db.events[s] = Rows(events), db.spans[s] = DeriveSpans(events)
  PROVE  \A i \in DOMAIN db.events[s] :
           InWindow(w, i) /\ InSpan(db.events[s][i]) => CallId(db.events[s][i]) \in SpansOf(s, w)
<1> SUFFICES ASSUME NEW i \in DOMAIN db.events[s], InWindow(w, i), InSpan(db.events[s][i])
             PROVE  CallId(db.events[s][i]) \in SpansOf(s, w)
  OBVIOUS
<1> DEFINE e == db.events[s][i]
           span == db.spans[s][CallId(e)]
<1>1. i + 1 \in 1 .. Len(events) /\ e = events[i + 1] /\ i \in Nat /\ Len(events) \in Nat
  <2>1. DOMAIN events = 1 .. Len(events) /\ Len(events) \in Nat
    OBVIOUS
  <2> QED
    BY <2>1, RowsOf
<1>2. SpansBelow(db.spans[s], Len(events)) /\ CallsSpanned(db.spans[s], events, Len(events))
  BY TranscriptListed, SpansDerived
<1>3. /\ CallId(e) \in DOMAIN db.spans[s]
      /\ span.first <= i /\ OrElse(span.last, span.first) >= i
  <2>1. /\ CallId(events[i + 1]) \in DOMAIN db.spans[s]
        /\ db.spans[s][CallId(events[i + 1])].first <= (i + 1) - 1
        /\ OrElse(db.spans[s][CallId(events[i + 1])].last,
                  db.spans[s][CallId(events[i + 1])].first) >= (i + 1) - 1
    BY <1>1, <1>2 DEF CallsSpanned
  <2> QED
    BY <1>1, <2>1
<1>4. span.first \in Nat /\ OrElse(span.last, span.first) \in Nat
  BY <1>1, <1>2, <1>3 DEF SpansBelow, OrElse
<1>5. w.from \in Int \cup {None} /\ w.to \in Int \cup {None}
  BY RetrievalAssumption
<1>6. /\ w.to # None => span.first <= w.to
      /\ w.from # None => OrElse(span.last, span.first) >= w.from
  <2> HIDE DEF span, e
  <2> QED
    BY <1>1, <1>3, <1>4, <1>5 DEF InWindow
<1> QED
  BY <1>3, <1>6 DEF SpansOf

LEMMA ShowInit ==
  ASSUME Init
  PROVE  ShowInv
<1>1. RowsOfTranscript
  BY DEF Init, EmptyArchive, RowsOfTranscript
<1> QED
  BY <1>1 DEF Init, Idle, ShowInv

\* The transcripts that the rows are of.
LEMMA TranscriptTyped ==
  ASSUME Shape, CallsRecordedOnce, NEW s \in Sessions, NEW v \in 1 .. Len(Transcript[s])
  PROVE  Transcript[s][v].events \in Seq(Event) /\ CallsOnce(Transcript[s][v].events)
<1>1. Transcript[s] \in Seq(Seen)
  BY RetrievalAssumption
<1>2. v \in DOMAIN Transcript[s] /\ Transcript[s][v] \in Seen
  BY <1>1
<1> QED
  BY <1>2 DEF CallsRecordedOnce, Seen

LEMMA ShowCommit ==
  ASSUME Shape, TranscriptsGrow, CallsRecordedOnce, ShowInv, NEW s \in Sessions, Commit(s)
  PROVE  ShowInv'
<1> DEFINE t == Transcript[s][next[s] + 1]
<1>1. Committed(s, t) /\ ArchiveShape
  BY CommitCommitted DEF Shape
<1>2. /\ next' = [next EXCEPT ![s] = next[s] + 1] /\ damage' = damage
      /\ call' = [call EXCEPT !.quiet = FALSE, !.alone = FALSE] /\ next[s] < Len(Transcript[s])
  BY DEF Commit
<1>3. /\ call'.op = call.op /\ call'.quiet = FALSE
      /\ call.op \in {"show_sources", "show_events", "show_spans", "shown"} =>
           /\ call'.session = call.session /\ call'.window = call.window
           /\ call'.events = call.events /\ call'.spans = call.spans
  BY <1>2 DEF Shape, CallShape
<1> SUFFICES ASSUME damage = 0 PROVE ShowInv'
  BY <1>2 DEF ShowInv
<1>4. RowsOfTranscript
  BY DEF ShowInv
<1>5. /\ db'.events[s] = Rows(t.events) /\ db'.spans[s] = DeriveSpans(t.events)
      /\ \A c \in Sessions \ {s} : db'.events[c] = db.events[c] /\ db'.spans[c] = db.spans[c]
      /\ DOMAIN db'.sessions = DOMAIN db.sessions \cup {s}
  <2>1. Upserted(s, t, db'.sessions)
    BY <1>1, RowsUpserted DEF Committed, CommitWrites
  <2>2. DOMAIN db'.sessions = DOMAIN db.sessions \cup {s}
    BY <2>1 DEF Upserted
  <2> HIDE DEF t
  <2> QED
    BY <1>1, <2>2 DEF Committed, CommitWrites, ArchiveShape
<1>6. next'[s] = next[s] + 1 /\ next[s] \in Nat /\ \A c \in Sessions \ {s} : next'[c] = next[c]
  BY <1>2 DEF Shape
<1>7. RowsOfTranscript'
  <2> SUFFICES ASSUME NEW c \in Sessions
               PROVE  IF next'[c] = 0 THEN DOMAIN db'.events[c] = {} /\ c \notin DOMAIN db'.sessions
                      ELSE /\ db'.events[c] = Rows(Transcript[c][next'[c]].events)
                           /\ db'.spans[c] = DeriveSpans(Transcript[c][next'[c]].events)
    BY DEF RowsOfTranscript
  <2>1. CASE c = s
    BY <1>5, <1>6, <2>1
  <2>2. CASE c # s
    BY <1>4, <1>5, <1>6, <2>2 DEF RowsOfTranscript
  <2> QED
    BY <2>1, <2>2
<1>8. ASSUME NEW i \in DOMAIN db.events[s]
      PROVE  i \in DOMAIN db'.events[s] /\ db'.events[s][i] = db.events[s][i]
  <2> DEFINE old == Transcript[s][next[s]]
  <2>1. next[s] # 0 /\ db.events[s] = Rows(old.events)
    BY <1>4, <1>8 DEF RowsOfTranscript
  <2>2. next[s] \in 1 .. Len(Transcript[s]) - 1 /\ Len(Transcript[s]) \in Nat
    <3>1. Transcript[s] \in Seq(Seen)
      BY RetrievalAssumption
    <3>2. Len(Transcript[s]) \in Nat
      BY <3>1
    <3> QED
      BY <1>2, <1>6, <2>1, <3>2
  <2>3. old.events \in Seq(Event) /\ t.events \in Seq(Event)
    BY <2>2, TranscriptTyped
  <2>4. /\ Len(old.events) <= Len(t.events)
        /\ \A j \in 1 .. Len(old.events) : t.events[j] = old.events[j]
    BY <2>2 DEF TranscriptsGrow
  <2>5. i \in 0 .. Len(old.events) - 1
    BY <1>8, <2>1 DEF Rows
  <2> HIDE DEF old, t
  <2> QED
    BY <1>5, <2>1, <2>3, <2>4, <2>5 DEF Rows
<1> HIDE DEF t
<1>9. ASSUME call.op = "show_spans", NEW i \in DOMAIN call.events
      PROVE  /\ i \in DOMAIN db'.events[call.session]
             /\ db'.events[call.session][i] = call.events[i]
             /\ InWindow(call.window, i)
  <2>1. /\ call.session \in Sessions
        /\ i \in DOMAIN db.events[call.session]
        /\ db.events[call.session][i] = call.events[i]
        /\ InWindow(call.window, i)
    BY <1>9 DEF ShowInv
  <2>2. CASE call.session = s
    BY <1>8, <2>1, <2>2
  <2>3. CASE call.session # s
    BY <1>5, <2>1, <2>3
  <2> QED
    BY <2>2, <2>3
<1> QED
  BY <1>2, <1>3, <1>7, <1>9 DEF ShowInv

\* The reader's own statements.
LEMMA ShowStep ==
  ASSUME Shape, CallsRecordedOnce, ShowInv, damage = 0,
         ShowRow \/ ShowSources \/ ShowEvents \/ ShowSpans
  PROVE  ShowInv'
<1>1. UNCHANGED <<db, next, damage>>
  BY DEF ShowRow, Start, ShowSources, ShowEvents, ShowSpans
<1>2. RowsOfTranscript /\ RowsOfTranscript'
  BY <1>1 DEF ShowInv, RowsOfTranscript
<1>3. CASE ShowRow
  BY <1>2, <1>3 DEF ShowRow, Start, ShowInv
<1>4. ASSUME ShowSources \/ ShowEvents \/ ShowSpans
      PROVE  /\ DOMAIN call =
                  {"op", "session", "window", "events", "spans", "quiet", "alone", "clean"}
             /\ call.session \in Sessions /\ call.window \in Windows
  BY <1>4 DEF ShowSources, ShowEvents, ShowSpans, Shape, CallShape, ShowInv
<1>5. CASE ShowSources
  <2>1. call'.op = "show_events" /\ call'.session = call.session /\ call'.window = call.window
    BY <1>4, <1>5 DEF ShowSources
  <2> QED
    BY <1>2, <1>4, <1>5, <2>1 DEF ShowInv
<1>6. CASE ShowEvents
  <2>1. /\ call'.op = "show_spans" /\ call'.session = call.session
        /\ call'.window = call.window /\ call'.events = LoadEvents(call.session, call.window)
    BY <1>4, <1>6 DEF ShowEvents
  <2>2. \A i \in DOMAIN call'.events :
          /\ i \in DOMAIN db.events[call.session]
          /\ db.events[call.session][i] = call'.events[i]
          /\ InWindow(call.window, i)
    BY <2>1 DEF LoadEvents, Restrict
  <2> QED
    BY <1>1, <1>2, <1>4, <1>6, <2>1, <2>2 DEF ShowInv
<1>7. CASE ShowSpans
  <2>1. /\ call.op = "show_spans" /\ call'.op = "shown" /\ call'.session = call.session
        /\ call'.window = call.window /\ call'.events = call.events
        /\ call'.spans = SpansOf(call.session, call.window)
    BY <1>4, <1>7 DEF ShowSpans
  <2> DEFINE s == call.session
             w == call.window
             Shown(i) == InWindow(w, i) /\ InSpan(db.events[s][i]) =>
                           CallId(db.events[s][i]) \in call'.spans
  <2>2. \A i \in DOMAIN db.events[s] : Shown(i)
    <3>1. CASE next[s] = 0
      BY <1>2, <1>4, <1>7, <3>1 DEF RowsOfTranscript
    <3>2. CASE next[s] # 0
      <4> DEFINE events == Transcript[s][next[s]].events
      <4>1. db.events[s] = Rows(events) /\ db.spans[s] = DeriveSpans(events)
        BY <1>2, <1>4, <1>7, <3>2 DEF RowsOfTranscript
      <4>2. next[s] \in 1 .. Len(Transcript[s])
        BY <1>4, <1>7, <3>2 DEF Shape
      <4>3. events \in Seq(Event) /\ CallsOnce(events)
        BY <1>4, <1>7, <4>2, TranscriptTyped
      <4> HIDE DEF events
      <4>4. \A i \in DOMAIN db.events[s] :
              InWindow(w, i) /\ InSpan(db.events[s][i]) => CallId(db.events[s][i]) \in SpansOf(s, w)
        BY <1>4, <1>7, <4>1, <4>3, WindowSpanned
      <4> QED
        BY <2>1, <4>4
    <3> QED
      BY <3>1, <3>2
  <2>3. \A i \in DOMAIN call.events :
          /\ i \in DOMAIN db.events[s] /\ db.events[s][i] = call.events[i] /\ InWindow(w, i)
    BY <2>1 DEF ShowInv
  <2>4. \A i \in DOMAIN call'.events : InSpan(call'.events[i]) => CallId(call'.events[i]) \in call'.spans
    BY <2>1, <2>2, <2>3
  <2> QED
    BY <1>1, <1>2, <1>4, <1>7, <2>1, <2>2, <2>4 DEF ShowInv
<1> QED
  BY <1>3, <1>5, <1>6, <1>7

LEMMA ShowKept ==
  ASSUME Shape, TranscriptsGrow, CallsRecordedOnce, ShowInv, [Next]_vars
  PROVE  ShowInv'
<1>1. CASE \E s \in Sessions : Commit(s)
  BY <1>1, ShowCommit
<1>2. CASE Damage
  BY <1>2 DEF Damage, Shape, ShowInv
<1>3. ASSUME UNCHANGED <<db, next, damage>>,
             \/ call'.op \notin {"show_sources", "show_events", "show_spans", "shown"}
             \/ call' = call
      PROVE  ShowInv'
  <2>1. RowsOfTranscript => RowsOfTranscript'
    BY <1>3 DEF RowsOfTranscript
  <2> QED
    BY <1>3, <2>1 DEF ShowInv
<1>4. CASE ShowRow \/ ShowSources \/ ShowEvents \/ ShowSpans
  <2>1. damage' = damage
    BY <1>4 DEF ShowRow, Start, ShowSources, ShowEvents, ShowSpans
  <2>2. CASE damage = 0
    BY <1>4, <2>2, ShowStep
  <2>3. CASE damage # 0
    BY <2>1, <2>3 DEF ShowInv
  <2> QED
    BY <2>2, <2>3
<1>5. CASE BeginVerify \/ Plan \/ PlanFails
  BY <1>3, <1>5 DEF BeginVerify, Plan, PlanFails, Start, Idle
<1>6. CASE Verify
  <2>1. UNCHANGED <<db, next, damage>>
    BY <1>6, Zenon DEF Verify
  <2>2. call'.op = "verify"
    BY <1>6, VerifyGoesOn
  <2> QED
    BY <1>3, <2>1, <2>2
<1>7. CASE Transaction \/ VerifyFails \/ Report
           \/ WriteTemporary \/ Persist \/ SetMtime \/ Manifest \/ RestoreFails
  <2>1. UNCHANGED <<db, next, damage>>
    BY <1>7 DEF Transaction, VerifyFails, Report, WriteTemporary, Persist, SetMtime, Manifest,
                RestoreFails
  <2>2. call'.op \in {"verify", "verified", "restore", "restored", "failed"}
    BY <1>7 DEF Transaction, VerifyFails, Report, WriteTemporary, Persist, SetMtime, Manifest,
                RestoreFails, Restoring, Idle, Shape, CallShape
  <2> QED
    BY <1>3, <2>1, <2>2
<1>8. CASE Create \/ UNCHANGED vars
  BY <1>3, <1>8 DEF Create, vars
<1> QED
  BY <1>1, <1>2, <1>4, <1>5, <1>6, <1>7, <1>8 DEF Next

\* When the transcripts only grow and no call is recorded twice, a show beside
\* commits is whole: the span of every event it returns is among the spans it
\* returns, and with no commit in between also the spans of the events that only
\* the kinds left out (store.rs show, load_spans).
THEOREM ShowResolvesAlways ==
  ASSUME TranscriptsGrow, CallsRecordedOnce
  PROVE  Spec => []ShowResolves
<1>1. Init => Shape /\ ShowInv
  BY ShapeInit, ShowInit
<1>2. Shape /\ ShowInv /\ [Next]_vars => Shape' /\ ShowInv'
  BY ShapeKept, ShowKept
<1>3. ShowInv => ShowResolves
  BY DEF ShowInv, ShowResolves
<1> QED
  BY <1>1, <1>2, <1>3, PTL DEF Spec
=============================================================================
