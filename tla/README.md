# TraceDB in TLA+

TLA+ models of TraceDB (`src/`): a local archive that ingests the session files
of several coding agents into one SQLite database and serves searches, listings
and reconstructions from it. The models cover the parts of the program whose
correctness depends on order, interleaving and failure. Every definition is
translated from the Rust source; `PROJECT.json` ("map") names the lines each
one stands for.

Paths below are relative to `src/`; `store.rs` is `src/src/store.rs`.

## 1. The system

| Component | Source | State it keeps | Operations |
|---|---|---|---|
| Archive store, write path | `store.rs` | tables `sessions`, `raw_sources`, `objects`, `events`, `spans`; one transaction per connection | `upsert_many`, `write_session`, `capture_source`, `backup`, `import_archive`, `rebuild` |
| Ingest pipeline | `facade.rs`, `parsers/mod.rs`, `store.rs` | a run's candidates and counters; in `schema_meta` the quarantine and the acknowledgement sequence | `ingest`, `ingest_dry_run`, `scan_agent`, `parse_pending`, `update_ingest_quarantine`, `record_ingest_status` |
| Watch loop | `facade.rs` | the notification channel, pending paths, the debounce and periodic deadlines, the backed-off interval | `watch`, `emit_watch_run`, `wait_for_stable_paths` |
| Derived state | `store.rs`, `facade.rs` | table `events_fts` and its triggers, the tokenizer contract, stored previews | `migrate_with_tokenizer`, `rebuild_fts`, `rebuild_aggregates`, `rebuild_spans`, `reindex` |
| Verification | `store.rs` | none | `verify` (sixteen checks in as many statements), `verify_contract`, `aggregate_drift` |
| Listing, show, coverage | `store.rs`, `facade.rs` | none; a client holds a cursor | `list`, `show` (four statements), `coverage`, `load_events` |
| Search | `search.rs` | none | `search`, `group_candidates`, `attach_context`, lineage edges |
| gRPC service | `service.rs` | writer mutex, pool of read connections, semaphore | one handler per RPC, over `read` and `write` |
| Codex parser and lineage | `parsers/codex.rs` | rollout cache in `schema_meta` | `discover_with_hints`, `build_lineage_with_cache` |
| Other parsers | `parsers/*.rs` | none; OpenCode reads a live database | `discover`, `parse`, `parse_session`, `build_native_bundle` |
| Span and aggregate derivation | `model.rs` | none | `derive_spans`, `SessionAggregates::derive`, `preview` |
| Reconstruction | `store.rs` | files it writes | `reconstruct_manifest` |
| Configuration | `config.rs` | none | `load`, `apply_tokenizer_layer`, `validate` |
| Daemon installation | `daemon.rs`, `main.rs` | a definition on disk; what the service manager has loaded, enabled and running | `install`, `uninstall`, `start`, `stop`, `status` |
| Doctor, command line, benchmarks, bindings | several | none of their own | probes, rendering, measurements, wrappers |

How they interact. `ingest` reads the archived fingerprints, asks the parsers
for candidates and parsed sessions, and hands these to `upsert_many`, which is
the only writer of sessions besides `import`. Writing a session fires the
triggers of the full-text index and derives aggregates and spans in the same
transaction. `watch` calls `ingest` for the agents whose files changed. The
gRPC service wraps one `TraceDb` for writes and a pool of read-only ones for
reads. The installed service is `watch` with arguments of its own, started by
launchd, systemd or the Task Scheduler, and it resolves its configuration again
at each start. Several processes (a daemon, a command line, a service) may share one
archive: they meet only in SQLite.

What is hard about it: files that change while they are read; two processes
with deferred transactions; batches that fail as a whole and are retried one by
one; quarantine and acknowledgement written outside the sessions' transactions;
debounce, back-off and periodic fallback; a reindex and a tokenizer switch that
are several commits each; cursors that outlive commits; a search of several
statements; lineage that is learned one scan late; pooled connections and
panics; native formats that repeat themselves; a verification and a restore made
of many statements and many files; a service manager each of whose commands may
fail. `PROJECT.json` ("hazards") lists each at its line with the properties
that cover it.

What makes each part correct:

- *Store*: a batch is visible as a whole or not at all and overwrites nothing
  its transaction did not see; child counts follow every change of lineage;
  captured sources are never forgotten; projections are those of the stored
  events.
- *Ingest*: what is archived is one version of the file, never an older one than
  before; the next scan does not take a changed file for unchanged; only what
  failed often enough is put in quarantine, and nothing for good; an
  acknowledgement covers its run; in the end every acceptable file is archived.
- *Watch*: no notification is lost, no change stays unseen, also when a run failed
  as a whole, the loop is never silent for longer than four intervals, a stop ends
  it.
- *Derived state*: an index that passes `verify` is exact; a reindex repairs
  whatever was left; between undisturbed calls everything is exact.
- *Listing*: a walk over all pages delivers each untouched session exactly once,
  and ends.
- *Codex lineage*: every spawn that can be read ends up as the parent of its
  session and stays there; the persisted cache hides no spawn and does not grow
  without bound.
- *Search*: each match is in exactly one result, each lineage in at most one, and
  a result is shown with its own lineage's request and its own text.
- *Parsers and derivation*: however an agent repeats itself, each thing it said is
  one event; what was archived of a session stays true when the session grows;
  whatever a parser produces passes `verify`; OpenCode's copies hold what is
  indexed, and what it writes meanwhile is found by the next discovery.
- *Retrieval*: a `show` is whole although it is read by four statements; `verify`
  raises no alarm about a row the program wrote, and what it vouched for can be
  served; a restore leaves whole files of an agent's and replaces none it may not
  replace.
- *Configuration and daemon*: the layers resolve as documented; after a successful
  install, disk, manager and process agree, past crashes and logins; after a
  successful uninstall nothing starts the service again, at once or, where the code
  goes on after a failure, from the next login on.
- *Service*: no permit is lost, every read is answered, whatever writes do.

## 2. Modules

| Module | Models | Checked by | Proved in |
|---|---|---|---|
| `Archive` | the abstract promise of an archive | through `ArchiveStore` | `ArchiveStoreProofs` (refinement) |
| `ArchiveStore` | the write path, transactions, backup, import, rebuild | `MCArchiveStore` | `ArchiveStoreProofs` |
| `Ingest` | runs of `ingest` against changing files | `MCIngest` | `IngestProofs` |
| `Watch` | the watch loop | `MCWatch` | `ServiceProofs` |
| `DerivedState` | full-text index, tokenizer contract, previews | `MCDerivedState` | `DerivedStateProofs` |
| `Listing` | keyset pagination | `MCListing` | `ReadProofs` |
| `ReadPool` | the service's connections | `MCReadPool` | `ReadProofs` |
| `CodexLineage` | the rollout cache and the lineage pre-pass | `MCCodexLineage` | `CodexLineageProofs` |
| `Search` | a search, its lineages, snippets and context | `MCSearch` | `ReadProofs` |
| `Projection` | spans, aggregates and their repair, as functions of the events | through `Normalize`, `Retrieval` | `NormalizeProofs` |
| `Parsers` | what the five parsers make of native records | through `Normalize` | `NormalizeProofs` |
| `Normalize` | an agent writes, the archive takes in | `MCNormalize` | `NormalizeProofs` |
| `Retrieval` | `show`, `verify`, `reconstruct` | `MCRetrieval` | `RetrievalProofs` |
| `Config` | the layers of a configuration | through `Daemon` | `ServiceProofs` |
| `Daemon` | the commands of `daemon.rs`, and the service's life | `MCDaemon` | `ServiceProofs` |

**Archive** knows, for each session, the facts of the last accepted parse and
the bytes last captured at each locator. `Accept` takes a whole batch.

**ArchiveStore** has the tables as one record `db`. A connection is `idle`,
`reading` (deferred transaction, snapshot taken by the first SELECT of
`write_session`) or `writing`. `WriteNext` is one whole `write_session`: upsert,
child counts of old parent, new parent and row, sources, events, spans.
`stale` is SQLite's refusal to upgrade a snapshot that another commit overtook.
The refinement (`Promise`, `ImplementsArchive`) maps a commit to `Accept` of the
whole batch, on top of the state it commits to; everything else stutters, except
import, backup and rebuild.

**Ingest** follows one call of `ingest` stage by stage: the archived
fingerprints and the quarantine are read (`Scan`), metadata is read (`Inspect`),
content hashed (`Discover`), parsed (`Parse`), captured and committed (`Batch`,
or `Single` after `BatchFails`), then the quarantine (`LoadQuarantine`,
`SaveQuarantine`) and the acknowledgement (`ReadSequence`, `Acknowledge`). Files
may change between any two stages. A commit of the store is one step here: the
refinement of `Archive` says that commits are atomic, and its aborts are what
`Contended` stands for.

**Watch** has the loop's local variables as state. Deadlines are the ticks left
until them; a tick passes only when the loop would sleep or is busy in a run.

**DerivedState** has one step per statement that commits by itself, so that a
process may die, fail or be overtaken between any two statements of opening,
`reindex` and truncation. `met` notes what kind of change of another process a
call has met; `torn` that something was cut short or disturbed since the last
clean reindex. The index is the set of rows it holds.

**Listing** has the committed rows and, per client, request, cursor, what the
listing owed it when it began, and what it has seen. A commit of a session
releases what is owed of it (and of its children when the lineage is collapsed).

**ReadPool** follows a read through semaphore, idle list, operation and release,
with panics, failed opens and cancelled requests, beside writers with their
mutex.

**CodexLineage** replaces the discovery of `Ingest` by that of Codex. A scan
loads the archived fingerprints and the cache (`LoadHints`), reads the spawns of
every rollout or takes them from the cache (`BuildLineage`), marks each child's
fingerprint with its parent and leaves out what is unchanged (`Discover`), saves
the cache (`SaveCache`) and then archives (`Store`). Rollouts are created, grow,
spawn, get a malformed record or are deleted between any two of these. `spawn`
records which version of which rollout named a child, so that what a cache entry
must contain can be said without a second copy of the files.

**Search** is one call: `LoadCandidates`, `CollapseLineage` (edges, walk,
collapse, cut), `AttachSnippets` and `AttachContext` are its four statements;
`Write` is a commit of another connection between them, with the row ids SQLite
would hand out. The initial states are all archives of the instance, circular
parents included. `Above` and `Cyclic` define lineage independently of the
code's walk.

**Projection** has the pure functions of `model.rs`: `DeriveSpans` folds over the
events with `CallSpan` and, for each task record of a payload, `TaskSpan`;
`Aggregates` is the one pass over the parsed events, and `Repaired` the SQL that
`reindex` runs over the stored rows: two definitions of one thing, which
`ChecksAccept` compares. It also has the relations of `verify` between events
and spans.

**Parsers** has one operator per format. A native session tells facts; a parser
decides which become events, in which order, of which session. Codex's
`seen_user` set, Gemini's first message of an id, the text, thoughts and calls of
a message in the order its parser pushes them, the session of a Claude
subagent's directory and OpenCode's join are what they are in the code.

**Normalize** composes the two. How agents write is external: `ClaudeWrites`,
`CodexWrites` and so on produce every form of record that the parsers' tests and
comments know. A JSONL file is parsed in one step (files that change while they
are read are in `Ingest`); OpenCode's database is read by `Discover`, `ReadRow`,
`ReadEvents`, `ReadMessages`, `ReadParts`, `CopyMessages`, `CopyParts` and
`Store`, with the agent writing between any two of them.

**Retrieval** has the committed archive as rows (`Written` is `write_session`
with the values of `Projection`), a reader whose call is one of `show`, `verify`
and `restore`, one action per statement or file operation, a medium that may
lose a row of any table or change one (`Damage`: counters, end, parent and relation
of a session, spans, restore path and hash of a source, objects, the contracts, the
index; not the columns of events), and other programs that create files. The check
of FTS5 is an INSERT: it may be refused when another process had a transaction open
(`Transaction`, a commit included) or when the connection has not loaded the
index's tokenizer (`loaded`), and `VerifyFails` is any other error. `vouched`
remembers that the last `verify` passed, and whether anything was committed
between its statements; `altered` which source rows the medium made.

**Config** and **Daemon**. A command of the CLI resolves its configuration
(`Load`) and then works off the steps of its platform (`Launchd`, `Systemd`,
`Schtasks`), any of which may fail (`StepFails`), some of which the code
tolerates (`Tolerated`). `unit` is the definition on disk, `known` what the
manager has loaded, `service` the process; `Running` resolves the configuration
of the service at each start, from the arguments in the definition and without
the environment of the shell that installed it. `left` remembers that a step whose
failure is tolerated failed and left a definition loaded (launchd's `unload`). `Documented` says, independently
of the code's pass over the layers, what `README.md:149-150,604-609` says.

How the modules fit together: `Archive` is the interface at which `Ingest`
sees the store; `Ingest` is what `Watch` does in `Scan`; `Listing` and
`ReadPool` split a read into its data and its connection, and `DerivedState`
and `ArchiveStore` split a committed write into what is derived by triggers and
what is stored; `CodexLineage` supplies the parents that `ArchiveStore` stores
and `Search` walks. `Parsers` and `Projection` are composed in `Normalize`, and
`Projection` again in `Retrieval`: the former shows that what parsers produce
satisfies the relations which the latter shows `verify` and `show` to rest on.
`Config` is part of `Daemon`. The others are composed by these abstractions rather than in one
state space.

## 3. Runs

| Run | Instance | What it shows | Seconds |
|---|---|---|---|
| `archive` | 2 connections, 3 sessions, 2 locators, 5 batches | store invariants, retention of snapshots, refinement of `Archive` | 120 |
| `ingest` | 1 process, 2 files, 2 agents, 2 changes each, failed scans, exclusions, 1 crash | fingerprints, what an acknowledgement covers, and that everything gets archived, quarantined or not | 105 |
| `ingest_two_processes` | 2 processes, 1 file, 1 change, 1 death or failed scan | monotone sessions, distinct acknowledgements, earned quarantine, past deaths | 50 |
| `watch` | 2 watched roots, interval 2, debounce 2, 1 failed run | notification, silence, stop, eventual scan | 135 |
| `derived` | 2 processes, 2 tokenizers, 2 sessions, 1 death or failure | index and previews under interleaved opening, writing, reindexing | 15 |
| `listing` | 1 client, 3 sessions, 5 requests, 4 commits | exactly-once delivery | 5 |
| `read_pool` | 3 readers, 2 permits, 2 writers, 3 faults | permits, connections, every read answered | 6 |
| `codex_lineage` | 1 process, 2 rollouts of 3 versions, 1 fault, deletions | links arrive and stay, and the cache is sound | 25 |
| `search` | 3 sessions, every parent relation, limits of 3 candidates, 2 results, 2 context rows, 1 commit | partition of the matches, one slot per lineage, context | 60 |
| `normalize` | 5 agents, 9 facts to choose from (7 for Gemini, 2 for OpenCode), up to 4 facts (3 for Claude, 2 for OpenCode) | events, spans and aggregates of every session, growing | 110 |
| `retrieval` | 2 sessions of 2 transcripts, 4 windows, 1 damaged row, 1 foreign file, 2 restores | `show`, `verify` and restore beside commits, damage and failure | 90 |
| `daemon` | 3 platforms, 3 default files, 2 shells, 2 requests; 11 layers resolved at the start | configuration, installation, removal, restarts | 15 |

In each module the type invariant is the first conjunct of the first invariant a
run checks, or stated of it. For the modules of section 4 it is proved.

Why the bounds are enough. *Archive*: a stale snapshot needs two connections; a
moved child needs an old and a new parent besides itself; retention needs a
locator that a later parse omits and one it captures again. *Ingest*: the
quarantine threshold (3 in the code) is 2, the least value for which "a failure
that does not yet count" exists; two changes allow a bad version between two
good ones. *Watch*: interval and debounce of 2 ticks make every order of the two
deadlines happen; the unwatched root needs a debounce shorter than the interval.
`waited` is bounded by the property itself, not by a guard. *DerivedState*: two
processes and one fault reach every pair of interrupted and overlapping calls of
two processes; a stream with an excluded event and an overlong preview, and one
with neither. *Listing*: three sessions and one row a page give two cursors, two
times give ties; four commits suffice to fill the table and move one row. With
more commits a walk may take longer but each page moves its cursor on. *ReadPool*:
the code's smallest pool has two permits; three readers make one wait, three
faults can take both permits and the lock.

*CodexLineage*: two rollouts of which either may spawn the other, before or after
the other begins; three versions let the parent be archived, spawn, and grow
again, which is what makes a cached answer old. (Three rollouts with three
versions and no faults, 2.3 million states, were checked as well.) *Search*:
three sessions give chains, siblings below an unmatched or unarchived parent,
circles with and without a tail; two results and two context rows make both
limits bite. *Normalize*: four facts are a call, its result, a second result and
what comes between; a user's word occurs with and without a time, a task is
reported active, completed and without a status. Gemini's messages take many
forms (a text or none, thoughts, calls with or without results): its parser marks
no result as failed, so it is given only results that succeed, and one call. OpenCode's six reads beside the
agent need no more than two parts: one read too early and one too late. Claude
puts several facts into one record and is checked with three. *Retrieval*: one
damage is every single-row difference of those listed, two would only hide one
another (the theorems are for any number); a source row may take the path and the
hash of every other; the
second transcript moves an event window and a span's end; two sessions share a
restore path. *Daemon*: nothing counts but the Task Scheduler's restarts, so
sequences of commands are unbounded; the layers are every combination of
tokenizer and extension, unparsable values, missing and present named files.

Deadlock is checked in every run but those of `Search`, `Normalize` and
`Retrieval`, whose behaviours end when the call is over, the agent has said its
last fact, the calls are used up: ingest processes, clients and writers can
always begin another call; in `Watch` time passes after the loop has ended.

### Fairness

- `Ingest!FairSpec`: a run that began goes on (its thread runs; every SQLite
  call returns) and another follows, which is what the watch loop does. Editing,
  dying and the passing of a day are not forced. `ScanFails` and `Crash` are
  bounded by `MaxCrashes`: a machine that fails for ever promises nothing.
- `Watch!FairSpec`: time passes and the loop's thread is scheduled. Failed runs are
  bounded. `EventuallyScanned` has one exception: after a run that failed as a whole
  and lost a notification, filesystem runs of a busy root may for ever postpone the
  periodic run that would make up for it (`facade.rs:443`).
- `CodexLineage!FairSpec`: a scan goes on and another follows; the agent is not
  forced to write anything, and faults are bounded.
- `ReadPool!FairSpec`: tokio polls the task of every read, the blocking thread
  runs, the operation returns. No fairness for writers: reads must not need it.

### Where code and documents differ

Formulas that do not hold of the code, each with a configuration to be run by
hand (`tlc -config X.cfg M`), or with the one change named. They are not among
the runs:

- `MCArchiveTokens.cfg` (`MCArchiveStore`, `TokensMaterialized`): imported
  sessions have no token totals (`store.rs:304`), contrary to
  `references/architecture.md:134,151`.
- `MCSearchSnippets.cfg` (`MCSearch`, `SnippetUnaltered`): `search.rs:10-11` and
  `references/search-algorithm.md:34` say that deferring snippets cannot change
  their text. The rows are looked up again by id, in another statement; a session
  that is archived again in between has other rows (SQLite reuses the numbers of
  deleted last rows), so its snippet becomes empty or is of other text
  (`search.rs:219`).
- `MCWatchReset.cfg` (`MCWatch`, `FailureResetsInterval`): a failed periodic run
  keeps its backed-off interval (`facade.rs:446`), contrary to
  `references/watch.md:98`.
- `MCWatchStarved.cfg` (`MCWatch`, `EventuallyScanned`): filesystem runs of one
  busy root postpone the periodic scan of an unwatched one for ever
  (`facade.rs:443`), contrary to `README.md:467`.
- `MCDerivedDrift.cfg` (`MCDerivedState`, `DriftDetected`): `verify` does not
  compare previews (`store.rs:1702`), contrary to `README.md:371-374`.
- `Normalize!TasksUnderHost` with `Agents <- Claude`: an answer of several blocks
  is the payload of each of its calls (`parsers/claude.rs:31`), so a task is put
  under the first call of the record, not under its host, contrary to
  `references/architecture.md:191-193`.
- `Retrieval!DriftReported`: `verify` does not compare `error_count`
  (`store.rs:1702`), contrary to `README.md:371-374`. `Reconstructable` with
  `Transcript <- Moved`: after a native file has moved, its two rows have one
  restore path and the session cannot be restored (`store.rs:1819`), contrary to
  `README.md:13-17`.
- `Daemon!ReinstallRestarts`: on Linux and Windows an install over a running
  service leaves the old process with its old arguments until the next login
  (`daemon.rs:295,423`). `Daemon!ServiceTokenizer`: the tokenizer of the shell's
  environment or of the command line is not among the service's arguments
  (`daemon.rs:9`). `Daemon!UninstallUnloads`: on macOS `uninstall` reports success
  when `unload` failed, with a warning (`daemon.rs:105`).

Observations that no statement of the repository contradicts, and that are
therefore assumptions of the models or remarks:

- *Ingest and watch*: a rewrite that keeps size and mtime is not noticed
  (`parsers/mod.rs:81`; `QuietEdits = TRUE` violates `UnchangedIsCurrent`);
  failures for want of the database lock count toward the quarantine; a
  filesystem run that fails as a whole drops its paths, which only the periodic
  run makes up for; a writer that is never quiet for the debounce postpones its
  own filesystem run; with a closed channel an expired debounce deadline makes
  the loop sleep for zero time.
- *Derived state and service*: a connection without the jieba extension can
  neither drop nor verify a jieba index, so switching back to `unicode61` fails
  before it changes anything; a panic while a connection is opened poisons the
  pool, after which every read ends with an error.
- *Codex lineage*: a child whose parent's rollout is deleted is archived again
  without its parent, and so is one whose parent's rollout could not be opened
  once, until that parent changes (`LineageConverges` and `LinkKept` exclude
  both); a malformed record in a rollout that is already archived freezes its
  fingerprint, and with it the spawns the pre-pass sees, although the pre-pass
  itself tolerates such records; two processes that scan Codex at once can take a
  parent away again until the next scan.
- *Search*: sessions whose parents form a circle are not collapsed.
- *Parsers*: a message of Gemini's without a text is archived with an empty answer
  before its thoughts and calls (`parsers/gemini.rs:116-130`), which `EachSaidOnce`
  allows; a second header with another session's id would rename the session,
  which no agent of the models writes. `Loose = TRUE` violates `EachSaidOnce`: of Gemini's messages without
  an id all but the first are dropped, and so is a result added to a message that
  was read before; Codex's two records of a message are two events when their
  times differ. `QuietEdits = TRUE` violates `PrintCovers`: a part that OpenCode
  changes without touching its session's time is not read again. OpenCode's
  bundle may hold parts of a message that it does not hold. The results of
  Claude's and Gemini's tools are never errors, and a call whose result is a part
  of OpenCode stays active. A task's status may go back to active while its end
  stays.
- *Retrieval*: `IndexVouched` and `ParentsShown` do not hold: the count of a
  commit between two statements of `verify` can hide a lost index row, and the
  host of a task may lie outside the window that shows the task. A damaged object
  is not repaired by the next ingest, because an object that exists is left as it
  is; a source row whose hash was lost is left out of a restore without an error, and one
  whose restore path or hash became that of another whole object is restored as it
  says: neither `verify` nor `reconstruct` has anything to compare them with;
  `verify` of an undamaged archive reports the index when another process holds the
  write lock for longer than five seconds, or when it is run on a jieba index without
  the extension (`store.rs:849-857,971-984`);
  a restore that failed half-way can only be repeated with `--overwrite`; a
  restore of an unknown session succeeds with no files.
- *Daemon*: Windows' uninstall leaves the running process, and on macOS a failed
  `unload` is only warned of, so the service lives on until the next login
  (launchd restarts it until then); the Task Scheduler gives up after three restarts;
  with a configuration that cannot
  be loaded the CLI can neither stop nor uninstall the service.

## 4. Proofs

The theorems hold for every value of the constants that satisfies the named
assumptions, with no bound on sessions, processes, files or commits. The
assumptions on `None` (`NoneDistinct`, `NoEntry`, and the last conjunct of the
others) say that it is none of the values it stands for the absence of; sets
are finite where the code counts them.

**`ArchiveStoreProofs`**. From `SessionsFinite`, `NoneDistinct`, `BatchesTyped`.
`SoundInv` is the inductive invariant: types, and for the committed archive *and*
the backup *and* every working copy, exact child counts, source rows with their
objects, one snapshot per locator, fresh projections. It has to speak of all
three because a commit publishes a working copy and an import merges the backup.
The work is in three lemmas on the operators: `RefreshFields`,
`WriteSessionSound` (only the old parent, the new parent and the row can gain or
lose a child) and `MergeSound`. `SnapshotsRetainedAlways` needs one more
invariant, `KnowsCommitted`: a transaction that may still commit holds
everything the committed archive holds, which is where the staleness rule
enters. `ArchiveImplemented` is the refinement of `Archive`, step by step: a
commit is `Accept` of the whole batch. Its invariant `WorkExplained` says of a
working copy that may still commit that it is what the archive promises after
the part of the batch that is written already, on top of what is committed
*now*; a stale copy need not be explained, and cannot commit.

**`IngestProofs`**. From `IngestAssumption`, `NoneDistinct`. `ShapeCorrect`: the
types, and what each stage leaves in the local variables for the next.
`AcksIncreaseAlways` from `AckInv` (nothing issued exceeds the stored sequence).
`UnchangedIsCurrentAlways`, `NeverRegressesAlways` and `AckCoversRunAlways` share
`VersionInv`: a row is of one version, no later than the file; a run reads
metadata, hash and content in that order (`Ordered`), so its versions are ordered
too; and what a run has seen and neither failed at, passed over nor still has to
write is archived in that version or a later one (`Covered`). They have the
premise `QuietEdits = FALSE`: every rewrite shows in size or mtime, which is
what `parsers/mod.rs:81` relies on; without it the first fails (section 3).
`QuarantineEarnedAlways` counts failures on record and those of runs that have
not recorded them yet (`Unrecorded`), since two processes save the whole map
over each other.

**`ServiceProofs`**. From `WatchAssumption`, `DaemonAssumption` and
`ConfigAssumption`. `SilenceBoundedAlways`: while the loop waits, the ticks waited
and the ticks left add up to at most four intervals (`WaitBounded`).
`NotificationKeptAlways` is inductive with the types. `InstallAppliesAlways` and
`RemovalHoldsAlways`: for each platform and each step a command has done so far,
`InstallInv`, `UninstallInv` and `StopInv` say what the definition on disk, the
manager and the service are, and that neither restarts nor logins between two
steps undo it. For an uninstall under launchd they speak of three cases: `unload`
succeeded (`left` is false), it failed, and there was a login since. `ConfigDocumentedAlways`: what one layer does to each setting
(`Applied`), and that four of them one after the other give what the README says
(`ResolvedAsApplied`).

**`DerivedStateProofs`**. From `DerivedAssumption`. `TypeCorrect`, and
`IndexVerifiedAlways`: an index that passes `verify` is exact. The invariant is
that the index never holds a row that is not a searchable event (`NoOrphans`); an
index that lost rows therefore has fewer, and a set of searchable events as large
as the set of all of them is that set (`CountingSuffices`).
`ReindexRepairsAlways`: a call keeps what it read across the steps of others;
`KnownInv` says what it knows of table, contract and previews at each of its
places, as long as it has met no change of that kind. `ExactInPeaceAlways`:
`PeaceInv` adds that, unless something was torn, either some call under way has
met another's change, or everything is exact, or one call is between its first
change and the one that makes it exact again (`Amid`).

**`ReadProofs`**. From `ListingAssumption`, `ReadPoolAssumption` and
`SearchAssumption`.
`WalkExactAlways`: what a walk is owed lies after its cursor, and what it has seen
does not (`WalkInv`), which a commit keeps because it releases what it touches.
`PoolAccountedAlways` counts the readers that hold a permit across every step, a
withdrawn call included. Both theorems about `Search` rest on `SearchInv`, for any
finite set of sessions, any parents, any limits and any commits meanwhile:

- *Lineages.* The loops of the code are functions of the number of rounds, and what
  they compute is shown by induction over the rounds (`LoopRuns`, `UpTo`). The walk
  of `lineage_path` meets exactly what is above a session (`LineageWalked`): it ends
  at a session that leads nowhere or that it has met, and a walk that meets nobody
  twice is no longer than there are sessions. Off a circle, two sessions with a
  common ancestor have one root (`OneRoot`).
- *Collapse.* `OneSlotPerLineageAlways`: every round leaves slots, one per root, each
  opened by its strongest session (`CollectKeeps`); ranking and cutting them keeps
  them (`RankedRead`, `CutRead`), and slots partition the matches (`PartitionRead`).
- *Context.* `ContextFromLineageAlways`: the query asks for all members of the
  results, and if all their lineages are few enough, for whole lineages
  (`WantedRead`, `ContextRead`). The proof uses the edges as they were loaded: a
  commit after that changes nothing the search goes by.

**`CodexLineageProofs`**. From `CodexAssumption`, `NoEntry`.
`CacheCoversArchivedAlways`, for any number of processes: every entry, in the
saved cache and in the copy of every scan, is true and complete up to the version
it is stamped with, and no stamp is ahead of its rollout (`CoverInv`).
`LinkKeptAlways` has the premise that one process scans, as the model-checked
property has it (two can take a parent away until the next scan, section 3). The
mark that a session is written with was derived three steps before; `LinkInv`
follows the link through the scan.

**`NormalizeProofs`**. From `NormalizeAssumption`, `ProjectionAssumption`, for any
agents, vocabulary and number of facts. The passes of `Parsers` and `Projection`
are taken record by record and event by event; the induction is by the least
prefix that fails (`LeastExists`, `UpTo`).

- *Projection.* `AggregatesCount` and `SpansDerived` say what is computed for a
  stream of any length: the counts are those of the events; every event of a call
  has its span, every parent exists, ranges lie within the stream; and if no call
  is recorded twice, a span covers all its events. `RepairFinds`: the SQL of the
  repair finds in the stored rows what the one pass over the events kept.
- *Facts.* `EachSaidOnceAlways` has the premise `Loose = FALSE`: agents keep to
  what the parsers rely on (section 3 has what follows otherwise). `FileSaid` says
  that a file's events are the facts told so far, and what the parser remembers
  of them: Codex's messages seen are the users' messages told with their times
  (`CodexSaid`), Gemini's ids seen are numbers of facts told (`GeminiSaid`). The
  only events that tell no fact are the empty answers of Gemini's parser, each
  directly before the first thought or call of its message (`TellsAll`,
  `AnswerTold`).
- *Checks.* `ChecksAcceptAlways` needs neither premise: whatever an agent writes,
  the events can be derived from (`Derivable`), those of a read in progress too,
  and the archived spans and aggregates are derived from the archived events
  (`AcceptInv`).
- *OpenCode.* `SnapshotCoversAlways` and `PrintCoversAlways` follow the reads of
  the live database: what was read before is still there for the next read
  (`CopiesInv`), and the fingerprint, read first, is no newer than what is read
  after it (`PrintInv`; premise `QuietEdits = FALSE`, see `PrintCovers`).
- *Growth.* `GrowthKeepsAlways`: what is archived is a beginning of what the parser
  would make of the session now, and of what a run has read since (`GrowInv`); a
  longer stream keeps the spans of a shorter one (`SpansGrow`), and no later record
  renames the session (`SessionStays`).

**`RetrievalProofs`**. From `RetrievalAssumption` and `NoneDistinct`, for any
sessions, any transcripts of them, any windows and any damage of the kinds
modelled.

- *Spans and aggregates.* `AggregatesCount` and `SpansDerived` of
  `NormalizeProofs`.
- *Commits.* `CommitKeepsSpans` and `CommitKeepsColumns`: each statement of
  `verify` that holds before a commit holds after it (`LastingKept`); in
  particular the counts of the sessions a write does not recount are still right.
  `CommitIndexes`: index and searchable events lose and gain the same rows.
- *Verify.* `AlarmIsRealAlways` and `VerifiedServesAlways` from `VerifyInv`: the
  statements that passed still hold (`PassedHold`), what only the program wrote
  passes (`Undamaged`) but for the two statements about the index that need quiet
  and the write lock (`Reportable`), and before the second damage the index lacks rows or has
  too many but not both, so that equal counts vouch for it (`IndexVouchedInv`).
  This is why `VerifiedServes` promises the index only up to one damaged row: two
  can hide each other.
- *Restore.* `NoClobberAlways` and `TargetsWholeAlways` from `RestoreSafe`:
  whatever is in the archive's tables, a source row is one that a commit brought or
  one that the medium made of one (`SourcesNamed`), an object has the name of a
  content that an agent left (`ObjectsNative`), so that what passes the check of its
  hash is such a content; a plan has one target per source and carries the bytes of
  its hash, and what is moved into place stays until the manifest.
- *Show.* `ShowResolvesAlways` has two premises on the transcripts, which the
  code relies on without checking: a transcript only grows (`TranscriptsGrow`),
  and all that a call id is used for after its first event is the result
  (`CallsRecordedOnce`). The rows are then those of the last transcript, the
  events a show has read are still there when it reads the spans (`ShowInv`), and
  the span of an event in a window is in the window (`WindowSpanned`).

Only model-checked: all liveness (TLAPS has no fairness reasoning here).

## 5. Plan

Order of work, most important behaviour first: 1. store and its promise; 2.
ingest; 3. watch; 4. derived state; 5. listing; 6. the service's connections; 7.
Codex lineage; 8. search; 9. span derivation and the parsers; 10. `show`, `verify`
and reconstruction; 11. configuration and the daemon. All of these are modelled
and checked, and their safety properties are proved.

## 6. Not modelled

- The ranking arithmetic of search, which is floating point, and the planning of
  its full-text query.
- `coverage` and `stats`: one read-only statement each.
- In the parsers: texts, models, titles, directories, the search for files below
  a root, and Gemini's `session_context` preambles.
- In `verify`: what SQLite's `integrity_check` and the full-text index's own check
  find, since they look at pages, not rows; that the latter can be refused is
  modelled. In `Retrieval` one process writes; the commits of
  several are `ArchiveStore`.
- Doctor, benchmarks and bindings have no state of their own that another
  component reads; of the command line only the daemon's commands have.
- The text of plists, units and task definitions with its quoting; `status`.
- The report counters of `ingest` and the dry run; Unix file modes; message
  conversion of the service; the in-memory archive; the refusal of an archive of
  another schema version.
- What SQLite does with a write-ahead log whose database was deleted
  (`remove_archive_files`) is outside the repository.
