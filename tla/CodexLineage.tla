----------------------------- MODULE CodexLineage -----------------------------
(***************************************************************************)
(* How the archive learns which Codex session spawned which.  Only the     *)
(* parent's rollout file names the child, so every scan first reads the    *)
(* spawns out of all rollouts, with a persisted cache that spares reading  *)
(* those whose fingerprint is known, and then marks the fingerprint of     *)
(* every child with its parent (parsers/codex.rs: discover_with_hints,     *)
(* build_lineage_with_cache; facade.rs: scan_agent, ingest; store.rs: the  *)
(* cache and candidate_states).                                            *)
(*                                                                         *)
(* Abstractions.  A rollout is append-only and a number counts its         *)
(* versions; metadata and content change together (Ingest.tla separates    *)
(* them).  A fingerprint is the version and the lineage mark.  A role goes *)
(* with its edge and is left out.  A stage that looks at every rollout     *)
(* does so in one step.                                                    *)
(***************************************************************************)
EXTENDS Naturals

CONSTANTS
  Rollouts,      \* rollout files, and the sessions they record
  Processes,     \* processes that ingest Codex sessions into the archive
  MaxVersion,    \* bound: appends to one rollout
  MaxFaults,     \* bound: process deaths and unreadable files
  Deletions,     \* whether the agent may delete old rollouts
  None

ASSUME CodexAssumption ==
  /\ {MaxVersion, MaxFaults} \subseteq Nat
  /\ Deletions \in BOOLEAN
  /\ None \notin Rollouts

VARIABLES
  rollout,  \* rollout[r]: version on disk (0: not yet written), whether it is there and well formed
  spawn,    \* spawn[c]: the rollout that recorded c as its child and the version that did, or None
  cache,    \* codex.rollout_cache: cache[r], the persisted entry of r, or None
  stored,   \* stored[r]: fingerprint (version and parent) of the archived session, or None
  faults,   \* history: process deaths and failed reads so far
  scan      \* scan[p]: the local variables of p's ingest

vars == <<rollout, spawn, cache, stored, faults, scan>>

Version == 0 .. MaxVersion
Fingerprint == [version : Version, parent : Rollouts \cup {None}]
CacheEntry == [print : Fingerprint, readable : BOOLEAN, edges : SUBSET Rollouts]

\* That there is no entry is none of the entries.
ASSUME NoEntry == None \notin CacheEntry

Nothing == [r \in Rollouts |-> None]
IdleScan == [at |-> "idle", known |-> Nothing, cache |-> Nothing, paths |-> {},
             lineage |-> Nothing, print |-> Nothing, pending |-> {}]

Init ==
  /\ rollout = [r \in Rollouts |-> [version |-> 0, there |-> FALSE, broken |-> FALSE]]
  /\ spawn = Nothing
  /\ cache = Nothing
  /\ stored = Nothing
  /\ faults = 0
  /\ scan = [p \in Processes |-> IdleScan]

(***************************************************************************)
(* The agent                                                               *)
(***************************************************************************)
\* The rollout is created by its first record, which names the session.
Begin(r) ==
  /\ rollout[r].version = 0
  /\ MaxVersion > 0
  /\ rollout' = [rollout EXCEPT ![r] = [version |-> 1, there |-> TRUE, broken |-> FALSE]]
  /\ UNCHANGED <<spawn, cache, stored, faults, scan>>

Grown(r) == [rollout EXCEPT ![r].version = @ + 1]

MayGrow(r) == rollout[r].there /\ rollout[r].version < MaxVersion

\* The output of a spawn_agent call: the child may have begun or not.
SpawnAgent(r, c) ==
  /\ MayGrow(r)
  /\ c # r
  /\ spawn[c] = None
  /\ \A d \in Rollouts : spawn[d] # None => spawn[d].by # c
  /\ rollout' = Grown(r)
  /\ spawn' = [spawn EXCEPT ![c] = [by |-> r, at |-> rollout[r].version + 1]]
  /\ UNCHANGED <<cache, stored, faults, scan>>

\* A record that is not valid JSON: parse_file rejects the rollout from now on.
WriteMalformed(r) ==
  /\ MayGrow(r)
  /\ rollout' = [Grown(r) EXCEPT ![r].broken = TRUE]
  /\ UNCHANGED <<spawn, cache, stored, faults, scan>>

Delete(r) ==
  /\ Deletions
  /\ rollout[r].there
  /\ rollout' = [rollout EXCEPT ![r].there = FALSE]
  /\ UNCHANGED <<spawn, cache, stored, faults, scan>>

(***************************************************************************)
(* A scan                                                                  *)
(***************************************************************************)
At(p, place) == scan[p].at = place

\* parse_rollout_lineage, on the file as it is now.
SpawnedBy(r) == {c \in Rollouts : spawn[c] # None /\ spawn[c].by = r}

\* scan_agent: candidate_states and load_codex_rollout_cache.
LoadHints(p) ==
  /\ At(p, "idle")
  /\ scan' = [scan EXCEPT ![p] = [IdleScan EXCEPT !.at = "lineage", !.known = stored, !.cache = cache]]
  /\ UNCHANGED <<rollout, spawn, cache, stored, faults>>

ReadEntry(print, r, readable) ==
  [print |-> print, readable |-> readable, edges |-> IF readable THEN SpawnedBy(r) ELSE {}]

\* Mutated forms: an entry is good for as long as its rollout exists, is given
\* the new fingerprint without reading the rollout again, or is skipped on a
\* hit with the edges it holds.
EntryForGood(entry, print, r, readable) ==
  IF entry # None THEN entry ELSE ReadEntry(print, r, readable)

EntryRestamped(entry, print, r, readable) ==
  IF entry # None THEN [entry EXCEPT !.print = print] ELSE ReadEntry(print, r, readable)

EntrySkipped(entry, print, r, readable) ==
  IF entry # None /\ entry.print = print THEN [entry EXCEPT !.edges = {}]
  ELSE ReadEntry(print, r, readable)

\* A hit if the entry has the fingerprint of the rollout; else the rollout is
\* read, and what failed to open is recorded as having neither id nor children.
Entry(entry, print, r, readable) ==
  IF entry # None /\ entry.print = print THEN entry ELSE ReadEntry(print, r, readable)

\* Entries of rollouts that are gone are pruned.
LiveEntries(old, fresh, live) == [r \in Rollouts |-> IF r \in live THEN fresh[r] ELSE None]

\* build_lineage_with_cache: the fingerprint looked for is the archived one as
\* long as the session is archived, whatever the file has become since.
BuildLineage(p) ==
  LET live     == {r \in Rollouts : rollout[r].there}
      print(r) == IF scan[p].known[r] # None THEN scan[p].known[r]
                  ELSE [version |-> rollout[r].version, parent |-> None]
  IN  /\ At(p, "lineage")
      /\ \E lost \in SUBSET live :
           LET fresh   == [r \in Rollouts |-> IF r \in live
                             THEN Entry(scan[p].cache[r], print(r), r, r \notin lost) ELSE None]
               named   == {r \in live : fresh[r].readable}
               parent(c) == {r \in named : c \in fresh[r].edges}
           IN  /\ lost # {} => faults < MaxFaults
               /\ faults' = IF lost = {} THEN faults ELSE faults + 1
               /\ scan' = [scan EXCEPT
                    ![p].at = "candidates",
                    ![p].paths = live,
                    ![p].cache = LiveEntries(@, fresh, live),
                    ![p].lineage = [c \in Rollouts |->
                       IF c \in named /\ parent(c) # {} THEN CHOOSE r \in parent(c) : TRUE ELSE None]]
      /\ UNCHANGED <<rollout, spawn, cache, stored>>

\* file_with_cache, and the lineage mark.
CandidatePrint(p, r) == [version |-> rollout[r].version, parent |-> scan[p].lineage[r]]

\* The loop over the paths, and the `unchanged` filter of scan_agent.
Discover(p) ==
  LET here    == {r \in scan[p].paths : rollout[r].there}
      pending == {r \in here : scan[p].known[r] # CandidatePrint(p, r)}
  IN  /\ At(p, "candidates")
      /\ scan' = [scan EXCEPT
           ![p].at = "save",
           ![p].print = [r \in Rollouts |-> IF r \in here THEN CandidatePrint(p, r) ELSE None],
           ![p].pending = pending]
      /\ UNCHANGED <<rollout, spawn, cache, stored, faults>>

\* save_codex_rollout_cache, before any session is written.
SaveCache(p) ==
  /\ At(p, "save")
  /\ cache' = scan[p].cache
  /\ scan' = [scan EXCEPT ![p].at = "store"]
  /\ UNCHANGED <<rollout, spawn, stored, faults>>

\* parse and write_session; capture_source refuses a file that has changed.
Storable(p, r) ==
  /\ rollout[r].there
  /\ ~rollout[r].broken
  /\ rollout[r].version = scan[p].print[r].version

Store(p, r) ==
  /\ At(p, "store")
  /\ r \in scan[p].pending
  /\ Storable(p, r)
  /\ stored' = [stored EXCEPT ![r] = scan[p].print[r]]
  /\ scan' = [scan EXCEPT ![p].pending = @ \ {r}]
  /\ UNCHANGED <<rollout, spawn, cache, faults>>

StoreFails(p, r) ==
  /\ At(p, "store")
  /\ r \in scan[p].pending
  /\ ~Storable(p, r)
  /\ scan' = [scan EXCEPT ![p].pending = @ \ {r}]
  /\ UNCHANGED <<rollout, spawn, cache, stored, faults>>

Finish(p) ==
  /\ At(p, "store")
  /\ scan[p].pending = {}
  /\ scan' = [scan EXCEPT ![p] = IdleScan]
  /\ UNCHANGED <<rollout, spawn, cache, stored, faults>>

\* The process dies, or a database error ends the call.
Crash(p) ==
  /\ ~At(p, "idle")
  /\ faults < MaxFaults
  /\ faults' = faults + 1
  /\ scan' = [scan EXCEPT ![p] = IdleScan]
  /\ UNCHANGED <<rollout, spawn, cache, stored>>

Proceed(p) ==
  \/ LoadHints(p)
  \/ BuildLineage(p)
  \/ Discover(p)
  \/ SaveCache(p)
  \/ \E r \in Rollouts : Store(p, r)
  \/ \E r \in Rollouts : StoreFails(p, r)
  \/ Finish(p)

Next ==
  \/ \E r \in Rollouts : Begin(r)
  \/ \E r, c \in Rollouts : SpawnAgent(r, c)
  \/ \E r \in Rollouts : WriteMalformed(r)
  \/ \E r \in Rollouts : Delete(r)
  \/ \E p \in Processes : Proceed(p)
  \/ \E p \in Processes : Crash(p)

Spec == Init /\ [][Next]_vars

\* `watch` runs one ingest after the other; nothing makes the agent write.
FairSpec == Spec /\ \A p \in Processes : WF_vars(Proceed(p))

(***************************************************************************)
(* Properties                                                              *)
(***************************************************************************)
ScanType ==
  [at : {"idle", "lineage", "candidates", "save", "store"},
   known : [Rollouts -> Fingerprint \cup {None}], cache : [Rollouts -> CacheEntry \cup {None}],
   paths : SUBSET Rollouts, lineage : [Rollouts -> Rollouts \cup {None}],
   print : [Rollouts -> Fingerprint \cup {None}], pending : SUBSET Rollouts]

TypeOK ==
  /\ rollout \in [Rollouts -> [version : Version, there : BOOLEAN, broken : BOOLEAN]]
  /\ spawn \in [Rollouts -> [by : Rollouts, at : Version] \cup {None}]
  /\ cache \in [Rollouts -> CacheEntry \cup {None}]
  /\ stored \in [Rollouts -> Fingerprint \cup {None}]
  /\ faults \in 0 .. MaxFaults
  /\ scan \in [Processes -> ScanType]

Intact(r) == rollout[r].there /\ ~rollout[r].broken

\* The pre-pass could not open r, and the cache answers so until the archived
\* fingerprint of r changes; for a finished rollout it never does.
Misread(r) == cache[r] # None /\ ~cache[r].readable

\* Once the agent stops writing, the archive knows the parent of every session
\* whose own and whose parent's rollout are intact and could be opened,
\* whichever of the two was written, scanned or archived first (architecture.md:
\* "the parser performs a cross-rollout pre-pass").  It may take a second scan:
\* the first one still looks up the archived fingerprint of the parent.
LineageConverges ==
  \A c \in Rollouts :
    <>[]((/\ spawn[c] # None
          /\ Intact(c) /\ ~Misread(c)
          /\ Intact(spawn[c].by) /\ ~Misread(spawn[c].by))
         => stored[c] # None /\ stored[c].parent = spawn[c].by)

\* The variables keep their types, and what the cache will answer for an archived
\* session is all that was spawned up to the archived version, so a hit hides
\* nothing the archive has shown.
CacheCoversArchived ==
  /\ TypeOK
  /\ \A r \in Rollouts :
       stored[r] # None /\ cache[r] # None /\ cache[r].readable /\ cache[r].print = stored[r]
         => \A c \in Rollouts :
              spawn[c] # None /\ spawn[c].by = r /\ spawn[c].at <= stored[r].version
                => c \in cache[r].edges

\* With one process, a session keeps its parent for as long as the parent's
\* rollout is there, through appends, faults and cached answers.
LinkKept ==
  [][\A c \in Rollouts :
       (/\ stored[c] # None
        /\ stored[c].parent # None
        /\ ~Misread(c)
        /\ rollout[stored[c].parent].there /\ ~Misread(stored[c].parent))
       => stored'[c].parent = stored[c].parent]_vars

=============================================================================
