-------------------------------- MODULE Ingest --------------------------------
(***************************************************************************)
(* One archive kept up to date by TraceDb::ingest, called by one or more   *)
(* processes, while the agents keep changing their native session files    *)
(* (facade.rs: ingest, scan_agent; store.rs: the quarantine and the        *)
(* acknowledgement).                                                       *)
(*                                                                         *)
(* Abstractions.  One native file is one session.  A file is a pair: its   *)
(* metadata (size and mtime) and its content, each a version number.       *)
(* A fingerprint is the pair read when it was computed.  The stages of a   *)
(* run that look at every candidate of an agent look at them in one step:  *)
(* the files are independent, so only the order of the stages matters.     *)
(* The archive is seen at commit boundaries; ArchiveStore.tla justifies    *)
(* that, and its aborted transactions are the contention modelled here.    *)
(***************************************************************************)
EXTENDS Naturals, Sequences, FiniteSets

CONSTANTS
  Files,        \* native session files
  Agents,       \* the agents a run visits, one after the other
  AgentOf,      \* AgentOf[f]: the agent whose native root holds f
  Processes,    \* processes that call ingest on the archive
  Malformed,    \* the files and contents the parser rejects
  Filtered,     \* those the parser leaves out on purpose, Ok(None)
  SkipSets,     \* what a request's `exclude` and `since_ms` may leave out
  QuietEdits,   \* whether a rewrite may keep size and mtime
  Threshold,    \* QUARANTINE_FAILURE_THRESHOLD
  MaxContent,   \* bound: changes of one file
  MaxAck,       \* bound: acknowledgements told apart
  MaxCrashes,   \* bound: process deaths and scans that fail
  None

ASSUME IngestAssumption ==
  /\ AgentOf \in [Files -> Agents]
  /\ SkipSets \subseteq SUBSET Files
  /\ QuietEdits \in BOOLEAN
  /\ Threshold \in Nat \ {0}
  /\ {MaxContent, MaxAck, MaxCrashes} \subseteq Nat
  /\ IsFiniteSet(Processes)

VARIABLES
  file,        \* file[f]: what is on disk now
  stored,      \* stored[f]: the archived session of f, or None
  quarantine,  \* quarantine[f]: the persisted failure entry of f, or None
  ack,         \* ingest.next_ack_sequence
  issued,      \* history: the acknowledgements in the order they committed
  tries,       \* history: tries[f][v], failed attempts at fingerprint content v
  crashes,     \* history: process deaths and failed scans so far
  run          \* run[p]: the local variables of p's call of ingest

vars == <<file, stored, quarantine, ack, issued, tries, crashes, run>>

Version == 0 .. MaxContent
Snapshot == [meta : Version, content : Version]
Row == [print : Snapshot, events : Version, object : Version]
Entry == [print : Snapshot, failures : 1 .. Threshold, recent : BOOLEAN]

ASSUME NoneDistinct == None \notin Snapshot \cup Row \cup Entry

FilesOf(a) == {f \in Files : AgentOf[f] = a}
Smaller(m, n) == IF m < n THEN m ELSE n

NoCandidates == [f \in Files |-> None]

IdleRun ==
  [at |-> "idle", left |-> {}, agent |-> None, skip |-> {},
   known |-> NoCandidates, blocked |-> NoCandidates, meta |-> NoCandidates, print |-> NoCandidates,
   parsed |-> NoCandidates, ready |-> {}, done |-> {}, failed |-> {}, passed |-> {},
   entries |-> NoCandidates, sequence |-> 0]

Init ==
  /\ file = [f \in Files |-> [meta |-> 0, content |-> 0]]
  /\ stored = [f \in Files |-> None]
  /\ quarantine = [f \in Files |-> None]
  /\ ack = 0
  /\ issued = <<>>
  /\ tries = [f \in Files |-> [v \in Version |-> 0]]
  /\ crashes = 0
  /\ run = [p \in Processes |-> IdleRun]

(***************************************************************************)
(* The native files                                                        *)
(***************************************************************************)
\* The agent appends to or rewrites its session file; quietly, if the size stays
\* and the timestamp is too coarse.
Edit(f) ==
  /\ file[f].content < MaxContent
  /\ \E quiet \in {FALSE, QuietEdits} :
       file' = [file EXCEPT ![f] = [meta |-> IF quiet THEN @.meta ELSE @.content + 1,
                                    content |-> @.content + 1]]
  /\ UNCHANGED <<stored, quarantine, ack, issued, tries, crashes, run>>

(***************************************************************************)
(* A run                                                                   *)
(***************************************************************************)
At(p, place) == run[p].at = place

\* A deferred transaction of p fails at once when another process commits or
\* holds the write lock meanwhile (ArchiveStore!MayWrite).
Contended(p) ==
  \E q \in Processes \ {p} : run[q].at \in {"batch", "single", "save", "confirm"}

StartRun(p) ==
  /\ At(p, "idle")
  /\ \E skip \in SkipSets :
       run' = [run EXCEPT ![p] = [IdleRun EXCEPT !.at = "scan", !.left = Agents, !.skip = skip]]
  /\ UNCHANGED <<file, stored, quarantine, ack, issued, tries, crashes>>

\* scan_agent: candidate_states and load_ingest_quarantine.
Scan(p, a) ==
  /\ At(p, "scan")
  /\ a \in run[p].left
  /\ run' = [run EXCEPT
       ![p].at = "discover",
       ![p].agent = a,
       ![p].left = @ \ {a},
       ![p].known = [f \in Files |-> IF f \in FilesOf(a) /\ stored[f] # None
                                       THEN stored[f].print ELSE None],
       ![p].blocked = quarantine]
  /\ UNCHANGED <<file, stored, quarantine, ack, issued, tries, crashes>>

\* The archive cannot be read or discovery fails: the agent's native root is
\* reported as failed, and the run goes on with the next agent.
ScanFails(p, a) ==
  /\ At(p, "scan")
  /\ a \in run[p].left
  /\ crashes < MaxCrashes
  /\ crashes' = crashes + 1
  /\ run' = [run EXCEPT ![p].at = "next", ![p].left = @ \ {a},
                        ![p].passed = @ \cup FilesOf(a)]
  /\ UNCHANGED <<file, stored, quarantine, ack, issued, tries>>

\* file_with_cache begins with the metadata of every candidate ...
Inspect(p) ==
  /\ At(p, "discover")
  /\ run' = [run EXCEPT
       ![p].at = "hash",
       ![p].meta = [f \in Files |-> IF f \in FilesOf(run[p].agent) THEN file[f].meta ELSE @[f]]]
  /\ UNCHANGED <<file, stored, quarantine, ack, issued, tries, crashes>>

\* Mutated form: the archived fingerprint is reused whatever the metadata says.
FingerprintFromCache(known, meta, now) ==
  IF known # None THEN known ELSE [meta |-> meta, content |-> now.content]

\* ... and the archived fingerprint stands for the content if size and mtime
\* are those; else the content is read and hashed.
Fingerprint(known, meta, now) ==
  IF known # None /\ known.meta = meta THEN known ELSE [meta |-> meta, content |-> now.content]

\* Mutated form: the quarantine is of the locator, not of its fingerprint.
IsQuarantinedForGood(entry, print) ==
  /\ entry # None
  /\ entry.failures >= Threshold
  /\ entry.recent

\* is_ingest_quarantined.
IsQuarantined(entry, print) ==
  /\ entry # None
  /\ entry.print = print
  /\ entry.failures >= Threshold
  /\ entry.recent

\* The filters of scan_agent follow in order: excluded or too old, quarantined,
\* unchanged.  What they compared with is not looked at again.
Discover(p) ==
  LET mine     == FilesOf(run[p].agent)
      print(f) == Fingerprint(run[p].known[f], run[p].meta[f], file[f])
      skipped  == {f \in mine : f \in run[p].skip \/ IsQuarantined(run[p].blocked[f], print(f))}
      pending  == {f \in mine \ skipped : run[p].known[f] # print(f)}
  IN  /\ At(p, "hash")
      /\ run' = [run EXCEPT
           ![p].at = "parse",
           ![p].known = NoCandidates,
           ![p].blocked = NoCandidates,
           ![p].print = [f \in Files |-> IF f \in mine THEN print(f) ELSE @[f]],
           ![p].ready = pending,
           ![p].passed = @ \cup skipped]
      /\ UNCHANGED <<file, stored, quarantine, ack, issued, tries, crashes>>

NoteFailures(which, p) ==
  tries' = [f \in Files |-> IF f \in which
              THEN [tries[f] EXCEPT ![run[p].print[f].content] = Smaller(@ + 1, Threshold)]
              ELSE tries[f]]

\* parse_pending: every pending candidate is read again and parsed.
Parse(p) ==
  LET rejected == {f \in run[p].ready : <<f, file[f].content>> \in Malformed}
      filtered == {f \in run[p].ready : <<f, file[f].content>> \in Filtered} \ rejected
      ready    == run[p].ready \ (rejected \cup filtered)
  IN  /\ At(p, "parse")
      /\ run' = [run EXCEPT
           ![p].at = IF ready = {} THEN "next" ELSE "batch",
           ![p].parsed = [f \in Files |-> IF f \in ready THEN file[f].content ELSE @[f]],
           ![p].ready = ready,
           ![p].failed = @ \cup rejected,
           ![p].passed = @ \cup filtered]
      /\ NoteFailures(rejected, p)
      /\ UNCHANGED <<file, stored, quarantine, ack, issued, crashes>>

\* Mutated form: whatever is on disk by now is captured.
CapturableAnyway(p, f) == file[f].meta \in Version /\ p \in Processes

\* capture_source refuses a file whose metadata is not the candidate's.
Capturable(p, f) == file[f].meta = run[p].meta[f]

Stored(p, which) ==
  [f \in Files |-> IF f \in which
     THEN [print |-> run[p].print[f], events |-> run[p].parsed[f],
           object |-> file[f].content]
     ELSE stored[f]]

\* upsert_many commits every ready session of the agent, or none.
Batch(p) ==
  /\ At(p, "batch")
  /\ \A f \in run[p].ready : Capturable(p, f)
  /\ stored' = Stored(p, run[p].ready)
  /\ run' = [run EXCEPT ![p].at = "next", ![p].ready = {}, ![p].done = @ \cup run[p].ready]
  /\ UNCHANGED <<file, quarantine, ack, issued, tries, crashes>>

\* Mutated form: no second attempt for the sessions of a failed batch.
BatchFailsForAll(p) ==
  /\ At(p, "batch")
  /\ Contended(p) \/ \E f \in run[p].ready : ~Capturable(p, f)
  /\ run' = [run EXCEPT ![p].at = "next"]
  /\ UNCHANGED <<file, stored, quarantine, ack, issued, tries, crashes>>

BatchFails(p) ==
  /\ At(p, "batch")
  /\ Contended(p) \/ \E f \in run[p].ready : ~Capturable(p, f)
  /\ run' = [run EXCEPT ![p].at = "single"]
  /\ UNCHANGED <<file, stored, quarantine, ack, issued, tries, crashes>>

\* The same sessions again, each in a transaction of its own.
After(p, f) == IF run[p].ready = {f} THEN "next" ELSE "single"

Single(p, f) ==
  /\ At(p, "single")
  /\ f \in run[p].ready
  /\ Capturable(p, f)
  /\ stored' = Stored(p, {f})
  /\ run' = [run EXCEPT ![p].at = After(p, f), ![p].ready = @ \ {f}, ![p].done = @ \cup {f}]
  /\ UNCHANGED <<file, quarantine, ack, issued, tries, crashes>>

SingleFails(p, f) ==
  /\ At(p, "single")
  /\ f \in run[p].ready
  /\ Contended(p) \/ ~Capturable(p, f)
  /\ run' = [run EXCEPT ![p].at = After(p, f), ![p].ready = @ \ {f}, ![p].failed = @ \cup {f}]
  /\ NoteFailures({f}, p)
  /\ UNCHANGED <<file, stored, quarantine, ack, issued, crashes>>

\* The loop over the agents goes on, or update_ingest_quarantine begins: it
\* returns early when there is nothing to record, and else loads the map.
NextAgent(p) ==
  /\ At(p, "next")
  /\ run[p].left # {}
  /\ run' = [run EXCEPT ![p].at = "scan"]
  /\ UNCHANGED <<file, stored, quarantine, ack, issued, tries, crashes>>

LoadQuarantine(p) ==
  /\ At(p, "next")
  /\ run[p].left = {}
  /\ run' = [run EXCEPT
       ![p].at = IF run[p].done \cup run[p].failed = {} THEN "status" ELSE "save",
       ![p].entries = quarantine]
  /\ UNCHANGED <<file, stored, quarantine, ack, issued, tries, crashes>>

\* Mutated form: failures of an earlier fingerprint count on.
FailedOnceMore(entry, print) ==
  IF entry # None
    THEN [print |-> print, failures |-> Smaller(entry.failures + 1, Threshold), recent |-> TRUE]
    ELSE [print |-> print, failures |-> 1, recent |-> TRUE]

FailedAgain(entry, print) ==
  IF entry # None /\ entry.print = print
    THEN [print |-> print, failures |-> Smaller(entry.failures + 1, Threshold), recent |-> TRUE]
    ELSE [print |-> print, failures |-> 1, recent |-> TRUE]

\* The whole map is written back, if this run changed it, by a statement of its
\* own and not in the transaction that read it.
SaveQuarantine(p) ==
  LET cleared == {f \in run[p].done : run[p].entries[f] # None}
      entry(f) == IF f \in cleared THEN None ELSE run[p].entries[f]
  IN  /\ At(p, "save")
      /\ quarantine' =
           IF cleared \cup run[p].failed = {} THEN quarantine
           ELSE [f \in Files |-> IF f \in run[p].failed
                                   THEN FailedAgain(entry(f), run[p].print[f])
                                   ELSE entry(f)]
      /\ run' = [run EXCEPT ![p].at = "status"]
      /\ UNCHANGED <<file, stored, ack, issued, tries, crashes>>

\* record_ingest_status: the sequence is read in a deferred transaction ...
ReadSequence(p) ==
  /\ At(p, "status")
  /\ run' = [run EXCEPT ![p].at = "confirm", ![p].sequence = ack]
  /\ UNCHANGED <<file, stored, quarantine, ack, issued, tries, crashes>>

\* Mutated form: the sequence is written back whoever committed since.
AcknowledgeBlindly(p) ==
  LET next == run[p].sequence + 1
  IN  /\ At(p, "confirm")
      /\ IF ack < MaxAck
           THEN ack' = next /\ issued' = Append(issued, next)
           ELSE UNCHANGED <<ack, issued>>
      /\ run' = [run EXCEPT ![p] = IdleRun]
      /\ UNCHANGED <<file, stored, quarantine, tries, crashes>>

\* ... that commits the successor only if no other process committed since.
\* From MaxAck on, acknowledgements are no longer told apart.
Acknowledge(p) ==
  LET next == run[p].sequence + 1
  IN  /\ At(p, "confirm")
      /\ ack = run[p].sequence
      /\ IF ack < MaxAck
           THEN ack' = next /\ issued' = Append(issued, next)
           ELSE UNCHANGED <<ack, issued>>
      /\ run' = [run EXCEPT ![p] = IdleRun]
      /\ UNCHANGED <<file, stored, quarantine, tries, crashes>>

\* The call returns the database error; no acknowledgement is produced.
StatusFails(p) ==
  /\ At(p, "confirm")
  /\ Contended(p) \/ ack # run[p].sequence
  /\ run' = [run EXCEPT ![p] = IdleRun]
  /\ UNCHANGED <<file, stored, quarantine, ack, issued, tries, crashes>>

\* The process dies, or a database error ends the call half way.
Crash(p) ==
  /\ ~At(p, "idle")
  /\ crashes < MaxCrashes
  /\ crashes' = crashes + 1
  /\ run' = [run EXCEPT ![p] = IdleRun]
  /\ UNCHANGED <<file, stored, quarantine, ack, issued, tries>>

\* QUARANTINE_RETRY_MS go by since the last failure of f.
CoolDown(f) ==
  /\ quarantine[f] # None
  /\ quarantine[f].recent
  /\ quarantine' = [quarantine EXCEPT ![f].recent = FALSE]
  /\ UNCHANGED <<file, stored, ack, issued, tries, crashes, run>>

Proceed(p) ==
  \/ \E a \in Agents : Scan(p, a)
  \/ \E a \in Agents : ScanFails(p, a)
  \/ Inspect(p)
  \/ Discover(p)
  \/ Parse(p)
  \/ Batch(p)
  \/ BatchFails(p)
  \/ \E f \in Files : Single(p, f)
  \/ \E f \in Files : SingleFails(p, f)
  \/ NextAgent(p)
  \/ LoadQuarantine(p)
  \/ SaveQuarantine(p)
  \/ ReadSequence(p)
  \/ Acknowledge(p)
  \/ StatusFails(p)

Next ==
  \/ \E f \in Files : Edit(f)
  \/ \E f \in Files : CoolDown(f)
  \/ \E p \in Processes : StartRun(p)
  \/ \E p \in Processes : Proceed(p)
  \/ \E p \in Processes : Crash(p)

Spec == Init /\ [][Next]_vars

\* A run that has begun goes on, and `watch` starts another after it.  Nothing
\* forces files to change, processes to die or a day to pass.
FairSpec ==
  /\ Spec
  /\ \A p \in Processes : WF_vars(StartRun(p)) /\ WF_vars(Proceed(p))

(***************************************************************************)
(* Properties                                                              *)
(***************************************************************************)
RunType ==
  [at : {"idle", "scan", "discover", "hash", "parse", "batch", "single", "next", "save", "status", "confirm"},
   left : SUBSET Agents, agent : Agents \cup {None}, skip : SUBSET Files,
   known : [Files -> Snapshot \cup {None}],
   blocked : [Files -> Entry \cup {None}],
   meta : [Files -> Version \cup {None}],
   print : [Files -> Snapshot \cup {None}],
   parsed : [Files -> Version \cup {None}],
   ready : SUBSET Files, done : SUBSET Files, failed : SUBSET Files, passed : SUBSET Files,
   entries : [Files -> Entry \cup {None}], sequence : Nat]

TypeOK ==
  /\ file \in [Files -> Snapshot]
  /\ stored \in [Files -> Row \cup {None}]
  /\ quarantine \in [Files -> Entry \cup {None}]
  /\ ack \in Nat
  /\ issued \in Seq(Nat)
  /\ tries \in [Files -> [Version -> 0 .. Threshold]]
  /\ crashes \in 0 .. MaxCrashes
  /\ run \in [Processes -> RunType]

\* The events, the captured object and the fingerprint of an archived session
\* are of one version of its file, though they are read at three different
\* moments while the agent may be writing.
StoredCoherent ==
  \A f \in Files : stored[f] # None =>
    /\ stored[f].events = stored[f].object
    /\ stored[f].print.content = stored[f].object

\* The variables keep their types, what is archived is of one version, and what
\* the next scan will take for unchanged is archived as it is on disk.
UnchangedIsCurrent ==
  /\ TypeOK
  /\ StoredCoherent
  /\ \A f \in Files : stored[f] # None =>
       (Fingerprint(stored[f].print, file[f].meta, file[f]) = stored[f].print
          => stored[f].object = file[f].content)

\* No process replaces a session by an older version of its file.
NeverRegresses ==
  [][\A f \in Files : stored[f] # None =>
       /\ stored'[f] # None
       /\ stored'[f].events >= stored[f].events]_vars

\* An acknowledgement stands for the run: whatever the run discovered and did
\* not report as failed or skipped is in the archive, in that version or a
\* later one, when the acknowledgement commits (architecture.md: "committed
\* after all candidate writes").
AckCoversRun ==
  [][\A p \in Processes : Acknowledge(p) =>
       \A f \in Files \ (run[p].failed \cup run[p].passed) :
         /\ stored[f] # None
         /\ run[p].print[f] # None
         /\ stored[f].events >= run[p].print[f].content]_vars

\* Acknowledgements are monotonic: no two runs obtain the same one, and a later
\* commit never gets a smaller one.
AcksIncrease ==
  \A i, j \in DOMAIN issued : i < j => issued[i] < issued[j]

\* A fingerprint is put in quarantine only after that many attempts at that
\* very fingerprint failed.
QuarantineEarned ==
  \A f \in Files : quarantine[f] # None =>
    quarantine[f].failures <= tries[f][quarantine[f].print.content]

\* Once the agents stop writing, every session file the parser accepts and no
\* request leaves out is archived in its last version, whatever failed before.
EventuallyArchived ==
  \A f \in Files \ UNION SkipSets :
    <>[](\/ <<f, file[f].content>> \in Malformed \cup Filtered
         \/ stored[f] # None /\ stored[f].object = file[f].content)
=============================================================================
