----------------------------- MODULE DerivedState -----------------------------
(***************************************************************************)
(* The state store.rs derives from the stored events, kept by processes    *)
(* that open the archive with different tokenizers, write sessions and     *)
(* reindex: the full-text index `events_fts` with its three triggers, the  *)
(* tokenizer contract in `schema_meta`, and the stored previews            *)
(* (migrate_with_tokenizer, write_session, rebuild_fts,                    *)
(* rebuild_aggregates, rebuild_spans).                                     *)
(*                                                                         *)
(* Every statement outside a transaction is a step of its own; a           *)
(* transaction is one step (ArchiveStore.tla).                             *)
(*                                                                         *)
(* Abstractions.  An event row is a session, the stream it belongs to and  *)
(* its kind.  The index is the set of rows it holds: a row indexed twice   *)
(* counts as one, as in the table of document sizes, and differs only in   *)
(* its rank.  Of the aggregates only the previews are kept: they are the   *)
(* ones a repair writes twice.  Spans are rewritten with their events in   *)
(* one transaction, and only the effect of that on the index is modelled.  *)
(*                                                                         *)
(* SQLite (external): no statement that touches an FTS5 table can run on a *)
(* connection that lacks the table's tokenizer, not even DROP TABLE.       *)
(***************************************************************************)
EXTENDS Naturals, FiniteSets

CONSTANTS
  Sessions,    \* session ids
  Streams,     \* event streams
  KindsOf,     \* KindsOf[st]: the kinds of the events in st
  Gated,       \* the kinds that are not indexed: tool_result, usage
  Long,        \* the streams whose preview exceeds PREVIEW_LIMIT
  Tokenizers,  \* what an archive can be opened with
  Bundled,     \* the tokenizers every connection has
  Processes,   \* processes with a connection each
  MaxFaults,   \* bound: calls that die or fail for want of a lock
  None

ASSUME DerivedAssumption ==
  /\ IsFiniteSet(Sessions)
  /\ \A st \in Streams : IsFiniteSet(KindsOf[st])
  /\ Long \subseteq Streams
  /\ Bundled \subseteq Tokenizers
  /\ MaxFaults \in Nat
  /\ None \notin Streams \cup Tokenizers
  /\ None \notin [of : Streams, whole : BOOLEAN]

VARIABLES
  events,    \* events[s]: the stored stream of s, or None
  preview,   \* preview[s]: the stream its previews were taken from, cut or whole
  fts,       \* the table events_fts: its tokenizer (None: no table), its rows
  contract,  \* schema_meta.tokenizer
  call,      \* call[p]: where p is in opening or in reindex, and its locals
  faults,    \* history: calls that died or failed for want of a lock
  torn       \* history: a call was cut short or ran beside another's changes

vars == <<events, preview, fts, contract, call, faults, torn>>

Rows(s, st) == {<<s, st, k>> : k \in IF st = None THEN {} ELSE KindsOf[st]}
Indexed(s, st) == {r \in Rows(s, st) : r[3] \notin Gated}
StoredRows == UNION {Rows(s, events[s]) : s \in Sessions}
Searchable == {r \in StoredRows : r[3] \notin Gated}

\* model::preview, and the untruncated copy AGGREGATE_PROJECTION makes.
Preview(st) == [of |-> st, whole |-> st \notin Long]
CopiedText(st) == [of |-> st, whole |-> TRUE]

NoTable == [tokenizer |-> None, rows |-> {}]

Opening == {"schema", "drop", "create", "fill", "record"}
Reindexing == {"rebuild", "project", "list", "truncate", "spans"}
Places == {"closed", "open"} \cup Opening \cup Reindexing

Closed ==
  [at |-> "closed", tokenizer |-> None, previous |-> None,
   overlong |-> [s \in Sessions |-> None], ids |-> {}, met |-> {}]

Init ==
  /\ events = [s \in Sessions |-> None]
  /\ preview = [s \in Sessions |-> None]
  /\ fts = NoTable
  /\ contract = None
  /\ call = [p \in Processes |-> Closed]
  /\ faults = 0
  /\ torn = FALSE

(***************************************************************************)
(* Calls and what they see of each other                                   *)
(***************************************************************************)
At(p, place) == call[p].at = place
InCall(p) == call[p].at \in Opening \cup Reindexing

\* The tokenizers the connection of p has.
Loaded(p) == Bundled \cup {call[p].tokenizer}
TableUsable(p) == fts.tokenizer \in Loaded(p)

\* p's call goes on as `next`; the calls under way in the other processes have
\* met a change of that kind.
Continue(p, next, kind) ==
  call' = [q \in Processes |->
            CASE q = p               -> next
              [] q # p /\ InCall(q)  -> [call[q] EXCEPT !.met = @ \cup kind]
              [] OTHER               -> call[q]]

GoTo(p, place) == [call[p] EXCEPT !.at = place]

\* The call returns; what it keeps of its locals no longer matters.
Return(p, place) ==
  [Closed EXCEPT !.at = place,
                 !.tokenizer = IF place = "open" THEN call[p].tokenizer ELSE None]

(***************************************************************************)
(* Opening: migrate_with_tokenizer                                         *)
(***************************************************************************)
OpenRead(p, t) ==
  /\ At(p, "closed")
  /\ Continue(p, [Closed EXCEPT !.at = "schema", !.tokenizer = t, !.previous = contract], {})
  /\ UNCHANGED <<events, preview, fts, contract, faults, torn>>

\* Mutated form: the tokenizer of an archive is settled once it is recorded.
SwitchingNever(p) == call[p].previous = None /\ ~At(p, "schema")

\* previous_tokenizer is known and is not the one asked for.
Switching(p) == call[p].previous \notin {None, call[p].tokenizer}

\* CREATE VIRTUAL TABLE IF NOT EXISTS, with the tokenizer asked for.
CreateSchema(p) ==
  /\ At(p, "schema")
  /\ IF fts = NoTable
       THEN fts' = [tokenizer |-> call[p].tokenizer, rows |-> {}]
       ELSE UNCHANGED fts
  /\ Continue(p, GoTo(p, IF Switching(p) THEN "drop" ELSE "record"),
              IF fts = NoTable THEN {"schema"} ELSE {})
  /\ UNCHANGED <<events, preview, contract, faults, torn>>

DropIndex(p) ==
  /\ At(p, "drop")
  /\ fts = NoTable \/ TableUsable(p)
  /\ fts' = NoTable
  /\ Continue(p, GoTo(p, "create"), {"schema"})
  /\ UNCHANGED <<events, preview, contract, faults, torn>>

CreateIndex(p) ==
  /\ At(p, "create")
  /\ fts = NoTable
  /\ fts' = [tokenizer |-> call[p].tokenizer, rows |-> {}]
  /\ Continue(p, GoTo(p, "fill"), {"schema"})
  /\ UNCHANGED <<events, preview, contract, faults, torn>>

\* INSERT INTO events_fts SELECT ... WHERE kind NOT IN ('tool_result','usage').
FillIndex(p) ==
  /\ At(p, "fill")
  /\ TableUsable(p)
  /\ fts' = [fts EXCEPT !.rows = @ \cup Searchable]
  /\ Continue(p, GoTo(p, "record"), {"schema"})
  /\ UNCHANGED <<events, preview, contract, faults, torn>>

\* The contract is replaced whatever has been recorded meanwhile.
Record(p) ==
  /\ At(p, "record")
  /\ contract' = call[p].tokenizer
  /\ Continue(p, Return(p, "open"), IF contract = call[p].tokenizer THEN {} ELSE {"schema"})
  /\ torn' = (torn \/ call[p].met # {})
  /\ UNCHANGED <<events, preview, fts, faults>>

(***************************************************************************)
(* Writing: the transaction of write_session and the triggers it fires     *)
(***************************************************************************)
\* Mutated form: the rows that are replaced stay in the index.
ReindexedForgetsDelete(s, old, new) ==
  IF old = new THEN fts.rows ELSE fts.rows \cup Indexed(s, new)

\* events_ad for the old rows, events_ai for the new ones; neither fires when
\* the stored events match already.
Reindexed(s, old, new) ==
  IF old = new THEN fts.rows ELSE (fts.rows \ Indexed(s, old)) \cup Indexed(s, new)

Write(p, s, st) ==
  /\ At(p, "open")
  /\ TableUsable(p)
  /\ events' = [events EXCEPT ![s] = st]
  /\ preview' = [preview EXCEPT ![s] = Preview(st)]
  /\ fts' = [fts EXCEPT !.rows = Reindexed(s, events[s], st)]
  /\ Continue(p, call[p], {"write"})
  /\ UNCHANGED <<contract, faults, torn>>

(***************************************************************************)
(* reindex                                                                 *)
(***************************************************************************)
\* rebuild_fts reads the contract before its transaction begins.
BeginReindex(p) ==
  /\ At(p, "open")
  /\ Continue(p, [call[p] EXCEPT !.at = "rebuild", !.previous = contract, !.met = {}], {})
  /\ UNCHANGED <<events, preview, fts, contract, faults, torn>>

\* BEGIN IMMEDIATE; DROP; CREATE; INSERT; COMMIT.
RebuildFts(p) ==
  /\ At(p, "rebuild")
  /\ TableUsable(p)
  /\ call[p].previous \in Loaded(p)
  /\ fts' = [tokenizer |-> call[p].previous, rows |-> Searchable]
  /\ Continue(p, GoTo(p, "project"), {"schema"})
  /\ UNCHANGED <<events, preview, contract, faults, torn>>

\* UPDATE sessions SET AGGREGATE_PROJECTION: the previews are whole texts.
ProjectAggregates(p) ==
  /\ At(p, "project")
  /\ preview' = [s \in Sessions |-> IF events[s] = None THEN None ELSE CopiedText(events[s])]
  /\ Continue(p, GoTo(p, "list"), {"write"})
  /\ UNCHANGED <<events, fts, contract, faults, torn>>

\* truncate_stored_previews reads the previews that are too long ...
ListOverlong(p) ==
  /\ At(p, "list")
  /\ Continue(p, [call[p] EXCEPT
       !.at = "truncate",
       !.overlong = [s \in Sessions |->
         IF preview[s] # None /\ preview[s].of \in Long THEN preview[s].of ELSE None]], {})
  /\ UNCHANGED <<events, preview, fts, contract, faults, torn>>

\* Mutated form: what is written back is the copy, not its truncation.
TruncatedToItself(st) == CopiedText(st)

Truncated(st) == Preview(st)

\* ... and writes them back one by one.
Truncate(p, s) ==
  /\ At(p, "truncate")
  /\ call[p].overlong[s] # None
  /\ preview' = [preview EXCEPT ![s] = Truncated(call[p].overlong[s])]
  /\ Continue(p, [call[p] EXCEPT !.overlong[s] = None], {"write"})
  /\ UNCHANGED <<events, fts, contract, faults, torn>>

\* rebuild_spans lists the sessions before its transaction.
ListSessions(p) ==
  /\ At(p, "truncate")
  /\ \A s \in Sessions : call[p].overlong[s] = None
  /\ Continue(p, [call[p] EXCEPT !.at = "spans", !.ids = {s \in Sessions : events[s] # None}], {})
  /\ UNCHANGED <<events, preview, fts, contract, faults, torn>>

Exact ==
  /\ fts.tokenizer = contract
  /\ fts.rows = Searchable
  /\ \A s \in Sessions : events[s] # None => preview[s] = Preview(events[s])

\* Setting span_id on every event fires events_au, which indexes the row anew.
\* An undisturbed reindex has repaired whatever was torn before it.
RebuildSpans(p) ==
  /\ At(p, "spans")
  /\ TableUsable(p)
  /\ fts' = [fts EXCEPT !.rows = @ \cup UNION {Indexed(s, events[s]) : s \in call[p].ids}]
  /\ Continue(p, Return(p, "open"), {"write"})
  /\ torn' = (call[p].met # {} \/ \E q \in Processes \ {p} : InCall(q))
  /\ UNCHANGED <<events, preview, contract, faults>>

(***************************************************************************)
(* Failure                                                                 *)
(***************************************************************************)
\* The table is there though it was dropped, or is not usable, or the stored
\* contract names a tokenizer the connection lacks.
Blocked(p) ==
  \/ At(p, "drop") /\ fts # NoTable /\ ~TableUsable(p)
  \/ At(p, "create") /\ fts # NoTable
  \/ call[p].at \in {"fill", "rebuild", "spans"} /\ ~TableUsable(p)
  \/ At(p, "rebuild") /\ call[p].previous \notin Loaded(p)

\* The call returns an error and leaves what it has committed.
Fail(p) ==
  /\ InCall(p)
  /\ IF Blocked(p) THEN UNCHANGED faults ELSE faults < MaxFaults /\ faults' = faults + 1
  /\ Continue(p, Return(p, IF call[p].at \in Opening THEN "closed" ELSE "open"), {})
  /\ torn' = TRUE
  /\ UNCHANGED <<events, preview, fts, contract>>

\* The process dies in the middle of a call.
Crash(p) ==
  /\ InCall(p)
  /\ faults < MaxFaults
  /\ faults' = faults + 1
  /\ Continue(p, Closed, {})
  /\ torn' = TRUE
  /\ UNCHANGED <<events, preview, fts, contract>>

Close(p) ==
  /\ At(p, "open")
  /\ Continue(p, Closed, {})
  /\ UNCHANGED <<events, preview, fts, contract, faults, torn>>

Step(p) ==
  \/ \E t \in Tokenizers : OpenRead(p, t)
  \/ CreateSchema(p)
  \/ DropIndex(p)
  \/ CreateIndex(p)
  \/ FillIndex(p)
  \/ Record(p)
  \/ \E s \in Sessions, st \in Streams : Write(p, s, st)
  \/ BeginReindex(p)
  \/ RebuildFts(p)
  \/ ProjectAggregates(p)
  \/ ListOverlong(p)
  \/ \E s \in Sessions : Truncate(p, s)
  \/ ListSessions(p)
  \/ RebuildSpans(p)
  \/ Fail(p)
  \/ Crash(p)
  \/ Close(p)

Next == \E p \in Processes : Step(p)

Spec == Init /\ [][Next]_vars

(***************************************************************************)
(* Properties                                                              *)
(***************************************************************************)
PreviewValue == [of : Streams, whole : BOOLEAN]

EventRows == UNION {Rows(s, st) : s \in Sessions, st \in Streams}

CallValue ==
  [at : Places, tokenizer : Tokenizers \cup {None}, previous : Tokenizers \cup {None},
   overlong : [Sessions -> Streams \cup {None}], ids : SUBSET Sessions,
   met : SUBSET {"schema", "write"}]

TypeOK ==
  /\ events \in [Sessions -> Streams \cup {None}]
  /\ preview \in [Sessions -> PreviewValue \cup {None}]
  /\ fts \in [tokenizer : Tokenizers \cup {None}, rows : SUBSET EventRows]
  /\ contract \in Tokenizers \cup {None}
  /\ call \in [Processes -> CallValue]
  /\ faults \in 0 .. MaxFaults
  /\ torn \in BOOLEAN

\* What verify checks of all this: a known contract, as many indexed documents
\* as there are searchable events, and no document of an excluded event.
VerifyPasses ==
  /\ contract # None
  /\ fts # NoTable
  /\ Cardinality(fts.rows) = Cardinality(Searchable)
  /\ {r \in fts.rows : r \in StoredRows /\ r[3] \in Gated} = {}

\* Counting documents is enough: whatever was interrupted, overlapped or
\* half repaired, an index that passes `verify` holds every searchable event
\* and nothing else (README.md, "a mismatch is detected").
IndexVerified == VerifyPasses => fts.rows = Searchable

\* A reindex makes the index exact whatever state it began in and whoever wrote
\* sessions meanwhile, and the previews too if nobody did; only a change of the
\* schema by another process gets in its way.
ReindexRepairs ==
  [][\A p \in Processes : At(p, "spans") /\ RebuildSpans(p) /\ "schema" \notin call[p].met =>
       /\ fts'.tokenizer = contract'
       /\ fts'.rows = Searchable'
       /\ "write" \notin call[p].met =>
            \A s \in Sessions : events'[s] # None => preview'[s] = Preview(events'[s])]_vars

\* Unless a call was cut short or ran beside another's changes, and no reindex
\* has repaired that, everything derived is exact between calls: after switches
\* of the tokenizer, rewritten sessions, failed opens of other processes.
ExactInPeace == ~torn /\ fts # NoTable /\ (\A p \in Processes : ~InCall(p)) => Exact

\* An archive whose derived previews differ from its events does not pass
\* `verify` (README.md: "`verify` reports aggregate drift ... so a mismatch is
\* detected rather than silently served").
DriftDetected ==
  VerifyPasses /\ (\A p \in Processes : ~InCall(p)) =>
    \A s \in Sessions : events[s] # None => preview[s] = Preview(events[s])
=============================================================================
