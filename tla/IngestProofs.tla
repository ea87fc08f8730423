------------------------------ MODULE IngestProofs ------------------------------
(***************************************************************************)
(* Theorems about Ingest for any number of files, agents and processes and *)
(* every bound.                                                            *)
(*                                                                         *)
(* ShapeInv says what the local variables of a run are at each place of    *)
(* `ingest`; all else rests on it.  None of the properties is inductive.   *)
(* An acknowledgement is the next one only if those given out are no       *)
(* larger than the sequence (AckInv).  An entry of the quarantine is       *)
(* earned only if the failures that other runs have yet to record are      *)
(* counted with it (QuarantineInv).  What a run archives is one version    *)
(* only if it read metadata, content and parse in this order and refuses   *)
(* to capture a file whose metadata moved (VersionInv).                    *)
(***************************************************************************)
EXTENDS Ingest, FiniteSetTheorems, TLAPS

Discovering == {"discover", "hash"}
Writing     == {"parse", "batch", "single"}
Ending      == {"save", "status", "confirm"}

\* The files a run has put behind its filters.
Seen(r) == {f \in Files : AgentOf[f] \notin r.left
                          /\ (r.at \in Discovering => AgentOf[f] # r.agent)}

(***************************************************************************)
(* What the local variables of a run are, place by place                   *)
(***************************************************************************)
Shaped(r) ==
  /\ r.failed \cup r.ready \subseteq Seen(r)
  /\ r.failed \cap r.ready = {}
  /\ r.at \notin Writing => r.ready = {}
  /\ r.at \in Ending => r.left = {}
  /\ r.at = "idle" => r.failed = {}
  /\ r.at \in Discovering => r.agent \in Agents /\ r.agent \notin r.left
  /\ r.at = "hash" => \A f \in FilesOf(r.agent) : r.meta[f] \in Version
  /\ \A f \in r.failed \cup r.ready : r.print[f] \in Snapshot
  /\ \A f \in r.ready : r.meta[f] \in Version
  /\ r.at \in {"batch", "single"} => \A f \in r.ready : r.parsed[f] \in Version

ShapeInv == TypeOK /\ \A p \in Processes : Shaped(run[p])

(***************************************************************************)
(* Acknowledgements                                                        *)
(***************************************************************************)
AckInv ==
  /\ AcksIncrease
  /\ \A i \in DOMAIN issued : issued[i] <= ack

(***************************************************************************)
(* Failures                                                                *)
(***************************************************************************)
\* The processes that failed at a content and have not put it on record.
Unrecorded(runs, f, v) ==
  {p \in Processes : /\ runs[p].at \notin {"status", "confirm"}
                     /\ f \in runs[p].failed
                     /\ runs[p].print[f].content = v}

\* The attempts that failed, counted up to the threshold, are those on record
\* and those of runs that go on.
Counts(tried, unrecorded, failures) ==
  \/ tried = Threshold
  \/ failures + Cardinality(unrecorded) <= tried

Earned(f, v, failures) == Counts(tries[f][v], Unrecorded(run, f, v), failures)

QuarantineInv ==
  /\ \A f \in Files, v \in Version : Earned(f, v, 0)
  /\ \A f \in Files : quarantine[f] # None =>
       Earned(f, quarantine[f].print.content, quarantine[f].failures)
  /\ \A p \in Processes, f \in Files : run[p].at = "save" /\ run[p].entries[f] # None =>
       Earned(f, run[p].entries[f].print.content, run[p].entries[f].failures)

(***************************************************************************)
(* Versions                                                                *)
(***************************************************************************)
\* What is archived is one version of the file, and no later one than the file.
RowSound(now, row) ==
  row # None =>
    /\ row.events = row.object
    /\ row.print.meta = row.object /\ row.print.content = row.object
    /\ row.object <= now.content

\* f is archived, in version v or a later one.
Archived(rows, f, v) == rows[f] # None /\ v <= rows[f].events

\* A run read of a file first the metadata, then the content of the fingerprint,
\* then the content that it parsed, or it took the archived fingerprint.
Ordered(r, now, rows) ==
  /\ r.at \in Discovering => \A f \in Files : r.known[f] # None =>
       /\ r.known[f].meta = r.known[f].content
       /\ r.known[f].content <= now[f].content
       /\ Archived(rows, f, r.known[f].content)
  /\ r.at = "hash" => \A f \in FilesOf(r.agent) : r.meta[f] <= now[f].content
  /\ \A f \in r.ready : /\ r.print[f].meta = r.meta[f]
                        /\ r.meta[f] <= r.print[f].content
                        /\ r.print[f].content <= now[f].content
  /\ r.at \in {"batch", "single"} => \A f \in r.ready : /\ r.print[f].content <= r.parsed[f]
                                                        /\ r.parsed[f] <= now[f].content

\* Every file that a run has seen and neither failed at nor passed over nor is
\* about to write is archived as it was seen.
Covered(r, rows) ==
  r.at # "idle" => \A f \in Seen(r) \ (r.failed \cup r.passed \cup r.ready) :
    r.print[f] \in Snapshot /\ Archived(rows, f, r.print[f].content)

RowsSound(now, rows) == \A f \in Files : now[f].meta = now[f].content /\ RowSound(now[f], rows[f])

VersionInv ==
  /\ RowsSound(file, stored)
  /\ \A p \in Processes : Ordered(run[p], file, stored) /\ Covered(run[p], stored)

-------------------------------------------------------------------------------
(***************************************************************************)
(* Types                                                                   *)
(***************************************************************************)
\* The variables besides `run` have their types.
RestTyped ==
  /\ file \in [Files -> Snapshot]
  /\ stored \in [Files -> Row \cup {None}]
  /\ quarantine \in [Files -> Entry \cup {None}]
  /\ ack \in Nat
  /\ issued \in Seq(Nat)
  /\ tries \in [Files -> [Version -> 0 .. Threshold]]
  /\ crashes \in 0 .. MaxCrashes

LEMMA Typed == TypeOK <=> RestTyped /\ run \in [Processes -> RunType]
  BY DEF TypeOK, RestTyped

\* A step of one run keeps the shape of all, if it keeps that of its own.
LEMMA OneRun ==
  ASSUME ShapeInv, RestTyped', NEW p \in Processes, NEW s \in RunType, Shaped(s),
         run' = [run EXCEPT ![p] = s]
  PROVE  ShapeInv'
<1>1. run \in [Processes -> RunType] /\ \A q \in Processes : Shaped(run[q])
  BY Typed DEF ShapeInv
<1>2. run' \in [Processes -> RunType]
  BY <1>1
<1>3. ASSUME NEW q \in Processes PROVE Shaped(run'[q])
  BY <1>1
<1>4. TypeOK'
  BY <1>2 DEF TypeOK, RestTyped
<1> QED
  BY <1>3, <1>4 DEF ShapeInv

LEMMA FingerprintTyped ==
  ASSUME NEW known \in Snapshot \cup {None}, NEW meta \in Version, NEW now \in Snapshot
  PROVE  Fingerprint(known, meta, now) \in Snapshot
  BY DEF Fingerprint, Snapshot

LEMMA IdleShape == IdleRun \in RunType /\ Shaped(IdleRun)
<1>1. IdleRun \in RunType
  BY DEF IdleRun, RunType, NoCandidates
<1>2. Shaped(IdleRun)
  BY DEF IdleRun, Shaped, Discovering, Writing, Ending, Seen
<1> QED
  BY <1>1, <1>2

LEMMA StartRunShape ==
  ASSUME ShapeInv, NEW p \in Processes, StartRun(p)
  PROVE  ShapeInv'
<1>1. PICK skip \in SkipSets :
        run' = [run EXCEPT ![p] = [IdleRun EXCEPT !.at = "scan", !.left = Agents, !.skip = skip]]
  BY DEF StartRun
<1> DEFINE s == [IdleRun EXCEPT !.at = "scan", !.left = Agents, !.skip = skip]
<1>2. skip \subseteq Files
  BY IngestAssumption
<1>3. s \in RunType
  BY <1>2, IdleShape DEF RunType
<1>4. Shaped(s)
  BY DEF IdleRun, Shaped, Discovering, Writing, Ending, Seen
<1>5. RestTyped'
  BY Typed DEF ShapeInv, StartRun, RestTyped
<1> QED
  BY <1>1, <1>3, <1>4, <1>5, OneRun

LEMMA ScanShape ==
  ASSUME ShapeInv, NEW p \in Processes, NEW a \in Agents, Scan(p, a)
  PROVE  ShapeInv'
<1> DEFINE r == run[p]
           s == [r EXCEPT !.at = "discover",
                          !.agent = a,
                          !.left = @ \ {a},
                          !.known = [f \in Files |-> IF f \in FilesOf(a) /\ stored[f] # None
                                                       THEN stored[f].print ELSE None],
                          !.blocked = quarantine]
<1>1. r \in RunType /\ Shaped(r) /\ RestTyped /\ r.at = "scan"
  BY Typed DEF ShapeInv, Scan, At
<1>2. run' = [run EXCEPT ![p] = s] /\ RestTyped'
  BY <1>1 DEF Scan, RestTyped
<1>3. s \in RunType
  BY <1>1 DEF RunType, RestTyped, Row
<1>4. Shaped(s)
  <2>1. s.at = "discover" /\ s.agent = a /\ s.left = r.left \ {a} /\ s.ready = r.ready
        /\ s.failed = r.failed /\ s.print = r.print /\ s.meta = r.meta /\ a \in r.left
    BY <1>1 DEF RunType, Scan
  <2> HIDE DEF s, r
  <2> QED
    BY <1>1, <2>1 DEF Shaped, Seen, Discovering, Writing, Ending
<1> QED
  BY <1>1, <1>2, <1>3, <1>4, OneRun

LEMMA ScanFailsShape ==
  ASSUME ShapeInv, NEW p \in Processes, NEW a \in Agents, ScanFails(p, a)
  PROVE  ShapeInv'
<1> DEFINE r == run[p]
           s == [r EXCEPT !.at = "next", !.left = @ \ {a}, !.passed = @ \cup FilesOf(a)]
<1>1. r \in RunType /\ Shaped(r) /\ RestTyped /\ r.at = "scan"
  BY Typed DEF ShapeInv, ScanFails, At
<1>2. run' = [run EXCEPT ![p] = s] /\ RestTyped'
  <2>1. crashes' \in 0 .. MaxCrashes
    BY <1>1, IngestAssumption DEF ScanFails, RestTyped
  <2> QED
    BY <1>1, <2>1 DEF ScanFails, RestTyped
<1>3. s \in RunType
  BY <1>1 DEF RunType, FilesOf
<1>4. Shaped(s)
  BY <1>1 DEF Shaped, RunType, Seen, FilesOf, Discovering, Writing, Ending
<1> QED
  BY <1>1, <1>2, <1>3, <1>4, OneRun

LEMMA InspectShape ==
  ASSUME ShapeInv, NEW p \in Processes, Inspect(p)
  PROVE  ShapeInv'
<1> DEFINE r == run[p]
           s == [r EXCEPT !.at = "hash",
                          !.meta = [f \in Files |-> IF f \in FilesOf(r.agent) THEN file[f].meta
                                                                             ELSE @[f]]]
<1>1. r \in RunType /\ Shaped(r) /\ RestTyped /\ r.at = "discover"
  BY Typed DEF ShapeInv, Inspect, At
<1>2. run' = [run EXCEPT ![p] = s] /\ RestTyped'
  BY <1>1 DEF Inspect, RestTyped
<1>3. s \in RunType
  BY <1>1 DEF RunType, RestTyped, Snapshot
<1>4. Shaped(s)
  BY <1>1 DEF Shaped, RunType, Seen, FilesOf, Discovering, Writing, Ending, RestTyped, Snapshot
<1> QED
  BY <1>1, <1>2, <1>3, <1>4, OneRun

LEMMA DiscoverShape ==
  ASSUME ShapeInv, NEW p \in Processes, Discover(p)
  PROVE  ShapeInv'
<1> DEFINE r == run[p]
           mine == FilesOf(r.agent)
           print(f) == Fingerprint(r.known[f], r.meta[f], file[f])
           skipped == {f \in mine : f \in r.skip \/ IsQuarantined(r.blocked[f], print(f))}
           pending == {f \in mine \ skipped : r.known[f] # print(f)}
           s == [r EXCEPT !.at = "parse",
                          !.known = NoCandidates,
                          !.blocked = NoCandidates,
                          !.print = [f \in Files |-> IF f \in mine THEN print(f) ELSE @[f]],
                          !.ready = pending,
                          !.passed = @ \cup skipped]
<1>1. r \in RunType /\ Shaped(r) /\ r.at = "hash" /\ RestTyped
  BY Typed DEF ShapeInv, Discover, At
<1>2. run' = [run EXCEPT ![p] = s] /\ RestTyped'
  BY <1>1 DEF Discover, RestTyped
<1>3. \A f \in mine : print(f) \in Snapshot /\ f \in Files
  BY <1>1, FingerprintTyped DEF RunType, RestTyped, Shaped, FilesOf
<1> HIDE DEF print, mine, skipped
<1>4. s \in RunType
  BY <1>1, <1>3 DEF RunType, NoCandidates, skipped
<1>5. Shaped(s)
  BY <1>1, <1>3 DEF Shaped, RunType, Discovering, Writing, Ending, Seen, FilesOf, mine
<1> QED
  BY <1>1, <1>2, <1>4, <1>5, OneRun

\* Attempts at the content of a fingerprint are counted up to the threshold.
LEMMA NoteFailuresTyped ==
  ASSUME NEW p, NEW which \in SUBSET Files,
         \A f \in which : run[p].print[f] \in Snapshot,
         tries \in [Files -> [Version -> 0 .. Threshold]], NoteFailures(which, p)
  PROVE  tries' \in [Files -> [Version -> 0 .. Threshold]]
<1>1. ASSUME NEW n \in 0 .. Threshold PROVE Smaller(n + 1, Threshold) \in 0 .. Threshold
  BY IngestAssumption DEF Smaller
<1>2. \A f \in which : run[p].print[f].content \in Version
  BY DEF Snapshot
<1> QED
  BY <1>1, <1>2 DEF NoteFailures

LEMMA ParseShape ==
  ASSUME ShapeInv, NEW p \in Processes, Parse(p)
  PROVE  ShapeInv'
<1> DEFINE r == run[p]
           rejected == {f \in r.ready : <<f, file[f].content>> \in Malformed}
           filtered == {f \in r.ready : <<f, file[f].content>> \in Filtered} \ rejected
           ready == r.ready \ (rejected \cup filtered)
           s == [r EXCEPT !.at = IF ready = {} THEN "next" ELSE "batch",
                          !.parsed = [f \in Files |-> IF f \in ready THEN file[f].content ELSE @[f]],
                          !.ready = ready,
                          !.failed = @ \cup rejected,
                          !.passed = @ \cup filtered]
<1>1. r \in RunType /\ Shaped(r) /\ RestTyped /\ r.at = "parse"
  BY Typed DEF ShapeInv, Parse, At
<1>2. rejected \subseteq r.ready /\ filtered \subseteq r.ready
  OBVIOUS
<1>3. run' = [run EXCEPT ![p] = s] /\ NoteFailures(rejected, p)
  BY DEF Parse
<1>4. RestTyped'
  <2>1. r.ready \subseteq Files /\ \A f \in rejected : r.print[f] \in Snapshot
    BY <1>1 DEF Shaped, RunType
  <2>2. tries' \in [Files -> [Version -> 0 .. Threshold]]
    BY <1>1, <1>2, <1>3, <2>1, NoteFailuresTyped DEF RestTyped
  <2> QED
    BY <1>1, <2>2 DEF Parse, RestTyped
<1> HIDE DEF rejected, filtered
<1>5. s \in RunType
  BY <1>1, <1>2 DEF RunType, RestTyped, Snapshot
<1>6. Shaped(s)
  BY <1>1, <1>2 DEF Shaped, RunType, RestTyped, Snapshot, Seen, FilesOf, Discovering, Writing, Ending
<1> QED
  BY <1>3, <1>4, <1>5, <1>6, OneRun

\* What a transaction makes of the files it writes.
LEMMA StoredTyped ==
  ASSUME ShapeInv, NEW p \in Processes, run[p].at \in {"batch", "single"},
         NEW which \in SUBSET run[p].ready
  PROVE  Stored(p, which) \in [Files -> Row \cup {None}]
<1>1. \A f \in which : f \in Files /\ run[p].print[f] \in Snapshot /\ run[p].parsed[f] \in Version
  BY Typed DEF ShapeInv, Shaped, RunType
<1>2. \A f \in Files : file[f].content \in Version /\ stored[f] \in Row \cup {None}
  BY Typed DEF ShapeInv, RestTyped, Snapshot
<1> QED
  BY <1>1, <1>2 DEF Stored, Row

LEMMA BatchShape ==
  ASSUME ShapeInv, NEW p \in Processes, Batch(p)
  PROVE  ShapeInv'
<1> DEFINE r == run[p]
           s == [r EXCEPT !.at = "next", !.ready = {}, !.done = @ \cup r.ready]
<1>1. r \in RunType /\ Shaped(r) /\ RestTyped /\ r.at = "batch"
  BY Typed DEF ShapeInv, Batch, At
<1>2. run' = [run EXCEPT ![p] = s] /\ RestTyped'
  BY <1>1, StoredTyped DEF Batch, RestTyped
<1>3. s \in RunType
  BY <1>1 DEF RunType
<1>4. Shaped(s)
  BY <1>1 DEF Shaped, RunType, Seen, FilesOf, Discovering, Writing, Ending
<1> QED
  BY <1>1, <1>2, <1>3, <1>4, OneRun

LEMMA BatchFailsShape ==
  ASSUME ShapeInv, NEW p \in Processes, BatchFails(p)
  PROVE  ShapeInv'
<1> DEFINE r == run[p]
           s == [r EXCEPT !.at = "single"]
<1>1. r \in RunType /\ Shaped(r) /\ RestTyped /\ r.at = "batch"
  BY Typed DEF ShapeInv, BatchFails, At
<1>2. run' = [run EXCEPT ![p] = s] /\ RestTyped'
  BY <1>1 DEF BatchFails, RestTyped
<1>3. s \in RunType
  BY <1>1 DEF RunType
<1>4. Shaped(s)
  BY <1>1 DEF Shaped, RunType, Seen, FilesOf, Discovering, Writing, Ending
<1> QED
  BY <1>1, <1>2, <1>3, <1>4, OneRun

LEMMA SingleShape ==
  ASSUME ShapeInv, NEW p \in Processes, NEW f \in Files, Single(p, f)
  PROVE  ShapeInv'
<1> DEFINE r == run[p]
           s == [r EXCEPT !.at = After(p, f), !.ready = @ \ {f}, !.done = @ \cup {f}]
<1>1. r \in RunType /\ Shaped(r) /\ RestTyped /\ r.at = "single"
  BY Typed DEF ShapeInv, Single, At
<1>2. run' = [run EXCEPT ![p] = s] /\ RestTyped'
  BY <1>1, StoredTyped DEF Single, RestTyped
<1>3. s \in RunType
  BY <1>1 DEF RunType, After
<1>4. Shaped(s)
  BY <1>1 DEF Shaped, RunType, Seen, FilesOf, Discovering, Writing, Ending, After
<1> QED
  BY <1>1, <1>2, <1>3, <1>4, OneRun

LEMMA SingleFailsShape ==
  ASSUME ShapeInv, NEW p \in Processes, NEW f \in Files, SingleFails(p, f)
  PROVE  ShapeInv'
<1> DEFINE r == run[p]
           s == [r EXCEPT !.at = After(p, f), !.ready = @ \ {f}, !.failed = @ \cup {f}]
<1>1. r \in RunType /\ Shaped(r) /\ RestTyped /\ r.at = "single" /\ f \in r.ready
  BY Typed DEF ShapeInv, SingleFails, At
<1>2. run' = [run EXCEPT ![p] = s] /\ NoteFailures({f}, p)
  BY DEF SingleFails
<1>3. RestTyped'
  <2>1. r.print[f] \in Snapshot
    BY <1>1 DEF Shaped
  <2>2. tries' \in [Files -> [Version -> 0 .. Threshold]]
    BY <1>1, <1>2, <2>1, NoteFailuresTyped DEF RestTyped
  <2> QED
    BY <1>1, <2>2 DEF SingleFails, RestTyped
<1>4. s \in RunType
  BY <1>1 DEF RunType, After
<1>5. Shaped(s)
  BY <1>1 DEF Shaped, RunType, Seen, FilesOf, Discovering, Writing, Ending, After
<1> QED
  BY <1>2, <1>3, <1>4, <1>5, OneRun

LEMMA NextAgentShape ==
  ASSUME ShapeInv, NEW p \in Processes, NextAgent(p)
  PROVE  ShapeInv'
<1> DEFINE r == run[p]
           s == [r EXCEPT !.at = "scan"]
<1>1. r \in RunType /\ Shaped(r) /\ RestTyped /\ r.at = "next"
  BY Typed DEF ShapeInv, NextAgent, At
<1>2. run' = [run EXCEPT ![p] = s] /\ RestTyped'
  BY <1>1 DEF NextAgent, RestTyped
<1>3. s \in RunType
  BY <1>1 DEF RunType
<1>4. Shaped(s)
  BY <1>1 DEF Shaped, RunType, Seen, FilesOf, Discovering, Writing, Ending
<1> QED
  BY <1>1, <1>2, <1>3, <1>4, OneRun

LEMMA LoadQuarantineShape ==
  ASSUME ShapeInv, NEW p \in Processes, LoadQuarantine(p)
  PROVE  ShapeInv'
<1> DEFINE r == run[p]
           s == [r EXCEPT !.at = IF r.done \cup r.failed = {} THEN "status" ELSE "save",
                          !.entries = quarantine]
<1>1. r \in RunType /\ Shaped(r) /\ RestTyped /\ r.at = "next"
  BY Typed DEF ShapeInv, LoadQuarantine, At
<1>2. run' = [run EXCEPT ![p] = s] /\ RestTyped'
  BY <1>1 DEF LoadQuarantine, RestTyped
<1>3. s \in RunType
  BY <1>1 DEF RunType, RestTyped
<1>4. Shaped(s)
  BY <1>1 DEF Shaped, RunType, Seen, FilesOf, Discovering, Writing, Ending, LoadQuarantine
<1> QED
  BY <1>1, <1>2, <1>3, <1>4, OneRun

\* A failure is recorded as an entry of its own fingerprint.
LEMMA FailedAgainTyped ==
  ASSUME NEW entry \in Entry \cup {None}, NEW print \in Snapshot
  PROVE  FailedAgain(entry, print) \in Entry
<1>1. CASE entry # None /\ entry.print = print
  <2>1. entry.failures \in 1 .. Threshold /\ Threshold \in Nat \ {0}
    BY <1>1, IngestAssumption DEF Entry
  <2>2. Smaller(entry.failures + 1, Threshold) \in 1 .. Threshold
    BY <2>1 DEF Smaller
  <2> QED
    BY <1>1, <2>2 DEF FailedAgain, Entry
<1>2. CASE ~(entry # None /\ entry.print = print)
  BY <1>2, IngestAssumption DEF FailedAgain, Entry
<1> QED
  BY <1>1, <1>2

LEMMA SaveQuarantineShape ==
  ASSUME ShapeInv, NEW p \in Processes, SaveQuarantine(p)
  PROVE  ShapeInv'
<1> DEFINE r == run[p]
           cleared == {f \in r.done : r.entries[f] # None}
           entry(f) == IF f \in cleared THEN None ELSE r.entries[f]
           s == [r EXCEPT !.at = "status"]
<1>1. r \in RunType /\ Shaped(r) /\ RestTyped /\ r.at = "save"
  BY Typed DEF ShapeInv, SaveQuarantine, At
<1>2. run' = [run EXCEPT ![p] = s]
  BY DEF SaveQuarantine
<1>3. RestTyped'
  <2>1. \A f \in Files : entry(f) \in Entry \cup {None}
    BY <1>1 DEF RunType
  <2>2. \A f \in r.failed : f \in Files /\ r.print[f] \in Snapshot
    BY <1>1 DEF RunType, Shaped
  <2>3. quarantine' = quarantine
        \/ quarantine' = [f \in Files |-> IF f \in r.failed THEN FailedAgain(entry(f), r.print[f])
                                                            ELSE entry(f)]
    BY DEF SaveQuarantine
  <2> HIDE DEF entry
  <2>4. \A f \in r.failed : FailedAgain(entry(f), r.print[f]) \in Entry
    BY <2>1, <2>2, FailedAgainTyped
  <2>5. quarantine' \in [Files -> Entry \cup {None}]
    <3>1. quarantine \in [Files -> Entry \cup {None}]
      BY <1>1 DEF RestTyped
    <3> QED
      BY <2>1, <2>3, <2>4, <3>1
  <2> QED
    BY <1>1, <2>5 DEF SaveQuarantine, RestTyped
<1>4. s \in RunType
  BY <1>1 DEF RunType
<1>5. Shaped(s)
  BY <1>1 DEF Shaped, RunType, Seen, FilesOf, Discovering, Writing, Ending
<1> QED
  BY <1>2, <1>3, <1>4, <1>5, OneRun

LEMMA ReadSequenceShape ==
  ASSUME ShapeInv, NEW p \in Processes, ReadSequence(p)
  PROVE  ShapeInv'
<1> DEFINE r == run[p]
           s == [r EXCEPT !.at = "confirm", !.sequence = ack]
<1>1. r \in RunType /\ Shaped(r) /\ RestTyped /\ r.at = "status"
  BY Typed DEF ShapeInv, ReadSequence, At
<1>2. run' = [run EXCEPT ![p] = s] /\ RestTyped'
  BY <1>1 DEF ReadSequence, RestTyped
<1>3. s \in RunType
  BY <1>1 DEF RunType, RestTyped
<1>4. Shaped(s)
  BY <1>1 DEF Shaped, RunType, Seen, FilesOf, Discovering, Writing, Ending
<1> QED
  BY <1>1, <1>2, <1>3, <1>4, OneRun

LEMMA EndShape ==
  ASSUME ShapeInv, NEW p \in Processes, Acknowledge(p) \/ StatusFails(p) \/ Crash(p)
  PROVE  ShapeInv'
<1>1. run[p] \in RunType /\ RestTyped
  BY Typed DEF ShapeInv
<1>2. run' = [run EXCEPT ![p] = IdleRun]
  BY DEF Acknowledge, StatusFails, Crash
<1>3. RestTyped'
  <2>1. CASE Acknowledge(p)
    <3>1. run[p].sequence + 1 \in Nat
      BY <1>1 DEF RunType
    <3>2. \/ ack' = run[p].sequence + 1 /\ issued' = Append(issued, run[p].sequence + 1)
          \/ UNCHANGED <<ack, issued>>
      BY <2>1 DEF Acknowledge
    <3>3. ack' \in Nat /\ issued' \in Seq(Nat)
      <4>1. ack \in Nat /\ issued \in Seq(Nat)
        BY <1>1 DEF RestTyped
      <4>2. Append(issued, run[p].sequence + 1) \in Seq(Nat)
        BY <3>1, <4>1
      <4> QED
        BY <3>1, <3>2, <4>1, <4>2
    <3> QED
      BY <1>1, <2>1, <3>3 DEF Acknowledge, RestTyped
  <2>2. CASE StatusFails(p)
    BY <1>1, <2>2 DEF StatusFails, RestTyped
  <2>3. CASE Crash(p)
    BY <1>1, <2>3, IngestAssumption DEF Crash, RestTyped
  <2> QED
    BY <2>1, <2>2, <2>3
<1> QED
  BY <1>2, <1>3, IdleShape, OneRun

LEMMA OutsideShape ==
  ASSUME ShapeInv, NEW f \in Files, Edit(f) \/ CoolDown(f)
  PROVE  ShapeInv'
<1>1. RestTyped /\ run' = run
  BY Typed DEF ShapeInv, Edit, CoolDown
<1>2. CASE Edit(f)
  <2>1. file[f].meta \in Version /\ file[f].content \in Version /\ MaxContent \in Nat
    BY <1>1, IngestAssumption DEF RestTyped, Snapshot
  <2>2. file' \in [Files -> Snapshot]
    BY <1>1, <1>2, <2>1 DEF Edit, RestTyped, Snapshot, Version
  <2> QED
    BY <1>1, <1>2, <2>2 DEF Edit, RestTyped, ShapeInv, TypeOK
<1>3. CASE CoolDown(f)
  <2>1. quarantine[f] \in Entry
    BY <1>1, <1>3 DEF CoolDown, RestTyped
  <2>2. [quarantine[f] EXCEPT !.recent = FALSE] \in Entry
    BY <2>1 DEF Entry
  <2>3. quarantine' \in [Files -> Entry \cup {None}]
    BY <1>1, <1>3, <2>2 DEF CoolDown, RestTyped
  <2> QED
    BY <1>1, <1>3, <2>3 DEF CoolDown, RestTyped, ShapeInv, TypeOK
<1> QED
  BY <1>2, <1>3

LEMMA ShapeInit == Init => ShapeInv
<1> SUFFICES ASSUME Init PROVE ShapeInv
  OBVIOUS
<1>1. RestTyped
  BY IngestAssumption DEF Init, RestTyped, Snapshot, Version
<1>2. run \in [Processes -> RunType] /\ \A p \in Processes : Shaped(run[p])
  BY IdleShape DEF Init
<1> QED
  BY <1>1, <1>2, Typed DEF ShapeInv

LEMMA ShapeStep == ShapeInv /\ [Next]_vars => ShapeInv'
<1> SUFFICES ASSUME ShapeInv, [Next]_vars PROVE ShapeInv'
  OBVIOUS
<1>1. ASSUME NEW p \in Processes, Proceed(p) PROVE ShapeInv'
  BY <1>1, ScanShape, ScanFailsShape, InspectShape, DiscoverShape, ParseShape, BatchShape,
     BatchFailsShape, SingleShape, SingleFailsShape, NextAgentShape, LoadQuarantineShape,
     SaveQuarantineShape, ReadSequenceShape, EndShape DEF Proceed
<1>2. CASE UNCHANGED vars
  BY <1>2 DEF vars, ShapeInv, TypeOK
<1> QED
  BY <1>1, <1>2, StartRunShape, EndShape, OutsideShape DEF Next

\* The variables keep their types, and the local variables of a run are at each
\* place of `ingest` what the next stage takes them for, in whatever order
\* processes, files and failures interleave.
THEOREM ShapeCorrect == Spec => []ShapeInv
  BY ShapeInit, ShapeStep, PTL DEF Spec

-------------------------------------------------------------------------------
(***************************************************************************)
(* Acknowledgements                                                        *)
(***************************************************************************)
LEMMA AckStep == ShapeInv /\ AckInv /\ [Next]_vars => AckInv'
<1> SUFFICES ASSUME ShapeInv, AckInv, [Next]_vars PROVE AckInv'
  OBVIOUS
<1>0. ack \in Nat /\ issued \in Seq(Nat)
  BY DEF ShapeInv, TypeOK
<1>1. ASSUME NEW p \in Processes, Acknowledge(p), ack < MaxAck PROVE AckInv'
  <2>1. ack' = ack + 1 /\ issued' = Append(issued, ack + 1)
    BY <1>1 DEF Acknowledge
  <2>2. \A i \in DOMAIN issued : issued[i] \in Nat /\ issued[i] <= ack /\ i \in Nat /\ i <= Len(issued)
    BY <1>0 DEF AckInv
  <2>3. DOMAIN issued' = 1 .. Len(issued) + 1 /\ Len(issued) \in Nat /\ DOMAIN issued = 1 .. Len(issued)
    BY <1>0, <2>1
  <2>4. \A i \in DOMAIN issued' : issued'[i] = IF i <= Len(issued) THEN issued[i] ELSE ack + 1
    BY <1>0, <2>1, <2>3
  <2>5. \A i \in DOMAIN issued' : issued'[i] <= ack'
    BY <1>0, <2>1, <2>2, <2>3, <2>4
  <2>6. ASSUME NEW i \in DOMAIN issued', NEW j \in DOMAIN issued', i < j
        PROVE  issued'[i] < issued'[j]
    BY <1>0, <2>2, <2>3, <2>4, <2>6 DEF AckInv, AcksIncrease
  <2> QED
    BY <2>5, <2>6 DEF AckInv, AcksIncrease
<1>2. ASSUME UNCHANGED <<ack, issued>> PROVE AckInv'
  BY <1>2 DEF AckInv, AcksIncrease
<1>3. ASSUME NEW p \in Processes, Proceed(p) PROVE AckInv'
  <2>1. (Acknowledge(p) /\ ack < MaxAck) \/ UNCHANGED <<ack, issued>>
    BY <1>3 DEF Proceed, Scan, ScanFails, Inspect, Discover, Parse, Batch, BatchFails, Single,
       SingleFails, NextAgent, LoadQuarantine, SaveQuarantine, ReadSequence, Acknowledge, StatusFails
  <2> QED
    BY <1>1, <1>2, <2>1
<1> QED
  BY <1>2, <1>3 DEF Next, Edit, CoolDown, StartRun, Crash, vars

\* Acknowledgements are monotonic, whatever processes overtake each other or die.
THEOREM AcksIncreaseAlways == Spec => []AcksIncrease
<1>1. Init => AckInv
  BY DEF Init, AckInv, AcksIncrease
<1>2. AckInv => AcksIncrease
  BY DEF AckInv
<1> QED
  BY <1>1, <1>2, AckStep, ShapeCorrect, PTL DEF Spec

-------------------------------------------------------------------------------
(***************************************************************************)
(* Versions.  A rewrite that keeps size and mtime goes unnoticed, so what  *)
(* follows is about agents whose rewrites show: QuietEdits is FALSE.       *)
(***************************************************************************)
\* Files and archived sessions only move on.
Growing(now, later, rows, rows2) ==
  \A f \in Files :
    /\ now[f].content <= later[f].content
    /\ rows[f] # None => rows2[f] # None /\ rows[f].events <= rows2[f].events

LEMMA GrowingKeeps ==
  ASSUME NEW r \in RunType, Shaped(r),
         NEW now \in [Files -> Snapshot], NEW later \in [Files -> Snapshot],
         NEW rows \in [Files -> Row \cup {None}], NEW rows2 \in [Files -> Row \cup {None}],
         Growing(now, later, rows, rows2), Ordered(r, now, rows), Covered(r, rows)
  PROVE  Ordered(r, later, rows2) /\ Covered(r, rows2)
<1>0. MaxContent \in Nat /\ Version \subseteq Nat
  BY IngestAssumption DEF Version
<1>1. \A f \in Files : now[f].content \in Nat /\ later[f].content \in Nat
                       /\ now[f].content <= later[f].content
  BY <1>0 DEF Growing, Snapshot
<1>2. ASSUME NEW f \in Files, NEW v \in Nat, Archived(rows, f, v) PROVE Archived(rows2, f, v)
  <2>1. rows[f] \in Row /\ rows2[f] \in Row /\ rows[f].events <= rows2[f].events
        /\ rows2[f] # None /\ v <= rows[f].events
    BY <1>2 DEF Growing, Archived
  <2>2. rows[f].events \in Nat /\ rows2[f].events \in Nat
    BY <1>0, <2>1 DEF Row
  <2> QED
    BY <2>1, <2>2 DEF Archived
<1>3. Covered(r, rows2)
  <2> SUFFICES ASSUME r.at # "idle", NEW f \in Seen(r) \ (r.failed \cup r.passed \cup r.ready)
               PROVE  r.print[f] \in Snapshot /\ Archived(rows2, f, r.print[f].content)
    BY DEF Covered
  <2>1. f \in Files /\ r.print[f] \in Snapshot /\ Archived(rows, f, r.print[f].content)
    BY DEF Covered, Seen
  <2>2. r.print[f].content \in Nat
    BY <1>0, <2>1 DEF Snapshot
  <2> QED
    BY <1>2, <2>1, <2>2
<1>4. \A f \in Files : r.known[f] # None => r.known[f].content \in Nat
  BY <1>0 DEF RunType, Snapshot
<1>5. r.at \in Discovering => \A f \in Files : r.known[f] # None =>
        /\ r.known[f].meta = r.known[f].content
        /\ r.known[f].content <= later[f].content
        /\ Archived(rows2, f, r.known[f].content)
  BY <1>1, <1>2, <1>4 DEF Ordered
<1>6. r.at = "hash" => \A f \in FilesOf(r.agent) : r.meta[f] <= later[f].content
  <2> SUFFICES ASSUME r.at = "hash", NEW f \in FilesOf(r.agent) PROVE r.meta[f] <= later[f].content
    OBVIOUS
  <2>1. f \in Files /\ r.meta[f] \in Nat /\ r.meta[f] <= now[f].content
    BY <1>0 DEF Ordered, Shaped, FilesOf
  <2> QED
    BY <1>1, <2>1
<1>7. \A f \in r.ready : /\ r.print[f].meta = r.meta[f]
                         /\ r.meta[f] <= r.print[f].content
                         /\ r.print[f].content <= later[f].content
  <2> SUFFICES ASSUME NEW f \in r.ready PROVE r.print[f].content <= later[f].content
    BY DEF Ordered
  <2>1. f \in Files /\ r.print[f].content \in Nat /\ r.print[f].content <= now[f].content
    BY <1>0 DEF Ordered, Shaped, RunType, Snapshot
  <2> QED
    BY <1>1, <2>1
<1>8. r.at \in {"batch", "single"} =>
        \A f \in r.ready : r.print[f].content <= r.parsed[f] /\ r.parsed[f] <= later[f].content
  <2> SUFFICES ASSUME r.at \in {"batch", "single"}, NEW f \in r.ready
               PROVE  r.print[f].content <= r.parsed[f] /\ r.parsed[f] <= later[f].content
    OBVIOUS
  <2>1. f \in Files /\ r.parsed[f] \in Nat /\ r.print[f].content <= r.parsed[f]
        /\ r.parsed[f] <= now[f].content
    BY <1>0 DEF Ordered, Shaped, RunType
  <2> QED
    BY <1>1, <2>1
<1> QED
  BY <1>3, <1>5, <1>6, <1>7, <1>8 DEF Ordered

\* A step of one run, or of none, which leaves files and archive sound.
LEMMA OneRunVersions ==
  ASSUME ShapeInv, ShapeInv', VersionInv,
         Growing(file, file', stored, stored'), RowsSound(file', stored'),
         \A q \in Processes :
           run'[q] # run[q] => Ordered(run'[q], file', stored') /\ Covered(run'[q], stored')
  PROVE  VersionInv'
<1>1. ASSUME NEW q \in Processes PROVE Ordered(run'[q], file', stored') /\ Covered(run'[q], stored')
  <2>1. CASE run'[q] # run[q]
    BY <2>1
  <2>2. CASE run'[q] = run[q]
    <3>1. run'[q] = run[q] /\ run[q] \in RunType /\ Shaped(run[q])
      BY <2>2 DEF ShapeInv, TypeOK
    <3>2. /\ file \in [Files -> Snapshot] /\ file' \in [Files -> Snapshot]
          /\ stored \in [Files -> Row \cup {None}] /\ stored' \in [Files -> Row \cup {None}]
      BY DEF ShapeInv, TypeOK
    <3>3. Ordered(run[q], file, stored) /\ Covered(run[q], stored)
      BY DEF VersionInv
    <3>4. Ordered(run[q], file', stored') /\ Covered(run[q], stored')
      BY <3>1, <3>2, <3>3, GrowingKeeps
    <3> QED
      BY <3>1, <3>4
  <2> QED
    BY <2>1, <2>2
<1> QED
  BY <1>1 DEF VersionInv

\* A step that changes neither file nor archive.
LEMMA Still ==
  ASSUME ShapeInv, VersionInv, UNCHANGED <<file, stored>>
  PROVE  Growing(file, file', stored, stored') /\ RowsSound(file', stored')
<1>1. \A f \in Files : file[f].content \in Nat /\ (stored[f] # None => stored[f].events \in Nat)
  BY IngestAssumption DEF ShapeInv, TypeOK, Snapshot, Row, Version
<1> QED
  BY <1>1 DEF Growing, VersionInv

LEMMA PlaceVersions ==
  ASSUME ShapeInv, ShapeInv', VersionInv, NEW p \in Processes,
         NextAgent(p) \/ LoadQuarantine(p) \/ SaveQuarantine(p) \/ ReadSequence(p) \/ BatchFails(p)
  PROVE  VersionInv'
<1> DEFINE r == run[p]
           s == run'[p]
<1>1. r \in RunType /\ Shaped(r) /\ Ordered(r, file, stored) /\ Covered(r, stored)
  BY DEF ShapeInv, TypeOK, VersionInv
<1>2. UNCHANGED <<file, stored>> /\ \A q \in Processes : q # p => run'[q] = run[q]
  BY Typed DEF NextAgent, LoadQuarantine, SaveQuarantine, ReadSequence, BatchFails, ShapeInv
<1>3. /\ s.left = r.left /\ s.ready = r.ready /\ s.failed = r.failed /\ s.passed = r.passed
      /\ s.print = r.print /\ s.meta = r.meta /\ s.parsed = r.parsed
      /\ s.at \notin Discovering \cup {"idle"} /\ r.at \notin Discovering \cup {"idle"}
      /\ ((s.at = "single" /\ r.at = "batch") \/ s.ready = {})
  BY <1>1, Typed DEF NextAgent, LoadQuarantine, SaveQuarantine, ReadSequence, BatchFails, ShapeInv,
     RunType, At, Discovering, Writing, Shaped
<1> HIDE DEF r, s
<1>4. Ordered(s, file, stored)
  BY <1>1, <1>3 DEF Ordered, Discovering
<1>5. Covered(s, stored)
  BY <1>1, <1>3 DEF Covered, Seen
<1> QED
  BY <1>1, <1>2, <1>4, <1>5, Still, OneRunVersions DEF s

\* A run that has not begun, or that has ended, claims nothing.
LEMMA EndVersions ==
  ASSUME ShapeInv, ShapeInv', VersionInv, NEW p \in Processes,
         StartRun(p) \/ Acknowledge(p) \/ StatusFails(p) \/ Crash(p)
  PROVE  VersionInv'
<1> DEFINE s == run'[p]
<1>1. UNCHANGED <<file, stored>> /\ \A q \in Processes : q # p => run'[q] = run[q]
  BY Typed DEF StartRun, Acknowledge, StatusFails, Crash, ShapeInv
<1>2. s.ready = {} /\ (s.at = "idle" \/ (s.at = "scan" /\ s.left = Agents))
  <2>1. CASE StartRun(p)
    BY <2>1, Typed DEF StartRun, ShapeInv, IdleRun
  <2>2. CASE ~StartRun(p)
    BY <2>2, Typed DEF Acknowledge, StatusFails, Crash, ShapeInv, IdleRun
  <2> QED
    BY <2>1, <2>2
<1> HIDE DEF s
<1>3. Ordered(s, file, stored)
  BY <1>2 DEF Ordered, Discovering
<1>4. Covered(s, stored)
  BY <1>2, IngestAssumption DEF Covered, Seen
<1> QED
  BY <1>1, <1>3, <1>4, Still, OneRunVersions DEF s

LEMMA ScanVersions ==
  ASSUME ShapeInv, ShapeInv', VersionInv, NEW p \in Processes, NEW a \in Agents, Scan(p, a)
  PROVE  VersionInv'
<1> DEFINE r == run[p]
           s == run'[p]
<1>1. r \in RunType /\ Shaped(r) /\ s \in RunType /\ Shaped(s) /\ RestTyped
      /\ Ordered(r, file, stored) /\ Covered(r, stored)
  BY DEF ShapeInv, TypeOK, RestTyped, VersionInv
<1>2. UNCHANGED <<file, stored>> /\ \A q \in Processes : q # p => run'[q] = run[q]
  BY Typed DEF Scan, ShapeInv
<1>3. /\ s.at = "discover" /\ s.agent = a /\ s.left = r.left \ {a} /\ s.ready = {} /\ s.ready = r.ready
      /\ s.failed = r.failed /\ s.passed = r.passed /\ s.print = r.print
      /\ r.at = "scan" /\ a \in r.left
      /\ s.known = [f \in Files |-> IF f \in FilesOf(a) /\ stored[f] # None THEN stored[f].print
                                                                           ELSE None]
  <2>1. s = [r EXCEPT !.at = "discover",
                     !.agent = a,
                     !.left = @ \ {a},
                     !.known = [f \in Files |-> IF f \in FilesOf(a) /\ stored[f] # None
                                                  THEN stored[f].print ELSE None],
                     !.blocked = quarantine]
    BY Typed DEF Scan, ShapeInv
  <2>2. r.ready = {} /\ r.at = "scan" /\ a \in r.left
    BY <1>1 DEF Scan, At, Shaped, Writing
  <2> HIDE DEF r, s
  <2> QED
    BY <1>1, <2>1, <2>2 DEF RunType
<1> HIDE DEF r, s
<1>4. Ordered(s, file, stored)
  <2>1. ASSUME NEW f \in Files, s.known[f] # None
        PROVE  /\ s.known[f].meta = s.known[f].content
               /\ s.known[f].content <= file[f].content
               /\ Archived(stored, f, s.known[f].content)
    <3>1. stored[f] # None /\ s.known[f] = stored[f].print
      BY <1>3, <2>1
    <3>2. RowSound(file[f], stored[f]) /\ stored[f].events \in Nat
      BY <1>1, <3>1, IngestAssumption DEF VersionInv, RowsSound, RestTyped, Row, Version
    <3> QED
      BY <3>1, <3>2 DEF RowSound, Archived
  <2> QED
    BY <1>3, <2>1 DEF Ordered
<1>5. Covered(s, stored)
  BY <1>1, <1>3 DEF Covered, Seen, Discovering
<1> HIDE DEF s
<1> QED
  BY <1>1, <1>2, <1>4, <1>5, Still, OneRunVersions DEF s

LEMMA ScanFailsVersions ==
  ASSUME ShapeInv, ShapeInv', VersionInv, NEW p \in Processes, NEW a \in Agents, ScanFails(p, a)
  PROVE  VersionInv'
<1> DEFINE r == run[p]
           s == run'[p]
<1>1. r \in RunType /\ Shaped(r) /\ s \in RunType /\ Shaped(s) /\ RestTyped
      /\ Ordered(r, file, stored) /\ Covered(r, stored)
  BY DEF ShapeInv, TypeOK, RestTyped, VersionInv
<1>2. UNCHANGED <<file, stored>> /\ \A q \in Processes : q # p => run'[q] = run[q]
  BY Typed DEF ScanFails, ShapeInv
<1>3. /\ s.at = "next" /\ s.left = r.left \ {a} /\ s.ready = {} /\ s.ready = r.ready
      /\ s.failed = r.failed /\ s.passed = r.passed \cup FilesOf(a) /\ s.print = r.print
      /\ r.at = "scan"
  BY <1>1, Typed DEF ScanFails, ShapeInv, RunType, At, Shaped, Writing
<1> HIDE DEF r, s
<1>4. Ordered(s, file, stored)
  BY <1>3 DEF Ordered, Discovering
<1>5. Covered(s, stored)
  BY <1>1, <1>3 DEF Covered, Seen, Discovering, FilesOf
<1> HIDE DEF s
<1> QED
  BY <1>1, <1>2, <1>4, <1>5, Still, OneRunVersions DEF s

LEMMA InspectVersions ==
  ASSUME ShapeInv, ShapeInv', VersionInv, NEW p \in Processes, Inspect(p)
  PROVE  VersionInv'
<1> DEFINE r == run[p]
           s == run'[p]
<1>1. r \in RunType /\ Shaped(r) /\ s \in RunType /\ Shaped(s) /\ RestTyped
      /\ Ordered(r, file, stored) /\ Covered(r, stored)
  BY DEF ShapeInv, TypeOK, RestTyped, VersionInv
<1>2. UNCHANGED <<file, stored>> /\ \A q \in Processes : q # p => run'[q] = run[q]
  BY Typed DEF Inspect, ShapeInv
<1>3. /\ s.at = "hash" /\ s.agent = r.agent /\ s.left = r.left /\ s.ready = {} /\ s.ready = r.ready
      /\ s.failed = r.failed /\ s.passed = r.passed /\ s.print = r.print /\ s.known = r.known
      /\ r.at = "discover"
      /\ s.meta = [f \in Files |-> IF f \in FilesOf(r.agent) THEN file[f].meta ELSE r.meta[f]]
  <2>1. s = [r EXCEPT !.at = "hash",
                     !.meta = [f \in Files |-> IF f \in FilesOf(r.agent) THEN file[f].meta
                                                                        ELSE @[f]]]
    BY Typed DEF Inspect, ShapeInv
  <2>2. r.ready = {} /\ r.at = "discover"
    BY <1>1 DEF Inspect, At, Shaped, Writing
  <2> HIDE DEF r, s
  <2> QED
    BY <1>1, <2>1, <2>2 DEF RunType
<1> HIDE DEF r, s
<1>4. Ordered(s, file, stored)
  <2>1. \A f \in FilesOf(s.agent) : s.meta[f] <= file[f].content
    <3>1. ASSUME NEW f \in Files PROVE file[f].meta <= file[f].content
      <4>1. file[f].meta = file[f].content /\ file[f].content \in Nat
        BY <1>1, IngestAssumption DEF VersionInv, RowsSound, RestTyped, Snapshot, Version
      <4> QED
        BY <4>1
    <3> QED
      BY <1>3, <3>1 DEF FilesOf
  <2> QED
    BY <1>1, <1>3, <2>1 DEF Ordered, Discovering
<1>5. Covered(s, stored)
  BY <1>1, <1>3 DEF Covered, Seen, Discovering
<1> HIDE DEF s
<1> QED
  BY <1>1, <1>2, <1>4, <1>5, Still, OneRunVersions DEF s


LEMMA DiscoverVersions ==
  ASSUME ShapeInv, ShapeInv', VersionInv, NEW p \in Processes, Discover(p)
  PROVE  VersionInv'
<1> DEFINE r == run[p]
           s == run'[p]
<1>1. r \in RunType /\ Shaped(r) /\ s \in RunType /\ Shaped(s) /\ RestTyped
      /\ Ordered(r, file, stored) /\ Covered(r, stored)
  BY DEF ShapeInv, TypeOK, RestTyped, VersionInv
<1> DEFINE mine == FilesOf(r.agent)
           print(f) == Fingerprint(r.known[f], r.meta[f], file[f])
           skipped == {f \in mine : f \in r.skip \/ IsQuarantined(r.blocked[f], print(f))}
           pending == {f \in mine \ skipped : r.known[f] # print(f)}
<1>2. UNCHANGED <<file, stored>> /\ \A q \in Processes : q # p => run'[q] = run[q]
  BY Typed DEF Discover, ShapeInv
<1>3. /\ s.at = "parse" /\ r.at = "hash" /\ s.agent = r.agent /\ s.left = r.left
      /\ s.meta = r.meta /\ s.failed = r.failed /\ s.passed = r.passed \cup skipped
      /\ s.ready = pending /\ r.ready = {}
      /\ \A f \in Files : s.print[f] = IF f \in mine THEN print(f) ELSE r.print[f]
  <2>1. s = [r EXCEPT !.at = "parse",
                      !.known = NoCandidates,
                      !.blocked = NoCandidates,
                      !.print = [f \in Files |-> IF f \in mine THEN print(f) ELSE @[f]],
                      !.ready = pending,
                      !.passed = @ \cup skipped]
    BY Typed DEF Discover, ShapeInv
  <2>2. r.at = "hash" /\ r.ready = {}
    BY <1>1 DEF Discover, At, Shaped, Writing
  <2> HIDE DEF mine, print, skipped, pending, r, s
  <2> QED
    BY <1>1, <2>1, <2>2 DEF RunType
<1>4. ASSUME NEW f \in mine
      PROVE  /\ print(f) \in Snapshot
             /\ print(f).meta = r.meta[f]
             /\ r.meta[f] <= print(f).content
             /\ print(f).content <= file[f].content
             /\ r.known[f] = print(f) => Archived(stored, f, print(f).content)
  <2>1. f \in Files /\ r.meta[f] \in Version /\ r.meta[f] <= file[f].content
        /\ file[f] \in Snapshot /\ r.known[f] \in Snapshot \cup {None}
        /\ Version \subseteq Nat /\ None \notin Snapshot
    BY <1>1, <1>3, <1>4, IngestAssumption, NoneDistinct
    DEF Shaped, Ordered, FilesOf, RestTyped, RunType, Version
  <2>2. r.known[f] # None => /\ r.known[f].meta = r.known[f].content
                             /\ r.known[f].content <= file[f].content
                             /\ Archived(stored, f, r.known[f].content)
    BY <1>1, <1>3, <2>1 DEF Ordered, Discovering
  <2>3. print(f) \in Snapshot
    BY <2>1, FingerprintTyped
  <2>4. CASE r.known[f] # None /\ r.known[f].meta = r.meta[f]
    <3>1. print(f) = r.known[f]
      BY <2>4 DEF Fingerprint
    <3>2. r.known[f] \in Snapshot
      BY <2>1, <2>4
    <3>3. r.known[f].content \in Nat
      BY <2>1, <3>2 DEF Snapshot
    <3> HIDE DEF print, r
    <3> QED
      BY <2>2, <2>3, <2>4, <3>1, <3>3
  <2>5. CASE ~(r.known[f] # None /\ r.known[f].meta = r.meta[f])
    <3>1. print(f) = [meta |-> r.meta[f], content |-> file[f].content]
      BY <2>5 DEF Fingerprint
    <3>2. file[f].content \in Nat
      BY <2>1 DEF Snapshot
    <3>3. r.known[f] # print(f)
      BY <2>1, <2>3, <2>5, <3>1
    <3> HIDE DEF print, r
    <3> QED
      BY <2>1, <2>3, <3>1, <3>2, <3>3
  <2> QED
    BY <2>4, <2>5
<1>5. mine \subseteq Files /\ skipped \subseteq mine /\ pending = {f \in mine \ skipped : r.known[f] # print(f)}
  BY DEF FilesOf
<1>6. \A f \in Files : f \in mine <=> AgentOf[f] = r.agent
  BY DEF FilesOf
<1> HIDE DEF r, s, print, mine, skipped, pending
<1>7. Ordered(s, file, stored)
  BY <1>3, <1>4, <1>5 DEF Ordered, Discovering
<1>8. Covered(s, stored)
  <2> SUFFICES ASSUME NEW f \in Seen(s) \ (s.failed \cup s.passed \cup s.ready)
               PROVE  s.print[f] \in Snapshot /\ Archived(stored, f, s.print[f].content)
    BY DEF Covered
  <2>1. f \in Files /\ f \notin skipped /\ f \notin pending /\ f \notin r.failed /\ f \notin r.passed
    BY <1>3 DEF Seen
  <2>2. CASE f \in mine
    BY <1>3, <1>4, <1>5, <2>1, <2>2
  <2>3. CASE f \notin mine
    <3>1. f \in Seen(r) /\ s.print[f] = r.print[f]
      BY <1>3, <1>6, <2>1, <2>3 DEF Seen
    <3> QED
      BY <1>1, <1>3, <2>1, <3>1 DEF Covered
  <2> QED
    BY <2>2, <2>3
<1> QED
  BY <1>1, <1>2, <1>7, <1>8, Still, OneRunVersions DEF s

LEMMA ParseVersions ==
  ASSUME ShapeInv, ShapeInv', VersionInv, NEW p \in Processes, Parse(p)
  PROVE  VersionInv'
<1> DEFINE r == run[p]
           s == run'[p]
<1>1. r \in RunType /\ Shaped(r) /\ s \in RunType /\ Shaped(s) /\ RestTyped
      /\ Ordered(r, file, stored) /\ Covered(r, stored)
  BY DEF ShapeInv, TypeOK, RestTyped, VersionInv
<1> DEFINE rejected == {f \in r.ready : <<f, file[f].content>> \in Malformed}
           filtered == {f \in r.ready : <<f, file[f].content>> \in Filtered} \ rejected
           ready == r.ready \ (rejected \cup filtered)
<1>2. UNCHANGED <<file, stored>> /\ \A q \in Processes : q # p => run'[q] = run[q]
  BY Typed DEF Parse, ShapeInv
<1>3. /\ s.at \in {"next", "batch"} /\ r.at = "parse" /\ s.left = r.left /\ s.meta = r.meta
      /\ s.print = r.print /\ s.failed = r.failed \cup rejected /\ s.passed = r.passed \cup filtered
      /\ s.ready = ready
      /\ \A f \in ready : f \in Files /\ s.parsed[f] = file[f].content
  <2>1. s = [r EXCEPT !.at = IF ready = {} THEN "next" ELSE "batch",
                      !.parsed = [f \in Files |-> IF f \in ready THEN file[f].content ELSE @[f]],
                      !.ready = ready,
                      !.failed = @ \cup rejected,
                      !.passed = @ \cup filtered]
    BY Typed DEF Parse, ShapeInv
  <2>2. r.at = "parse" /\ r.ready \subseteq Files /\ ready \subseteq r.ready
    BY <1>1 DEF Parse, At, RunType
  <2> HIDE DEF rejected, filtered, ready, r, s
  <2>3. s.left = r.left
    BY <1>1, <2>1 DEF RunType
  <2>4. s.meta = r.meta
    BY <1>1, <2>1 DEF RunType
  <2>5. s.print = r.print
    BY <1>1, <2>1 DEF RunType
  <2>6. s.at = IF ready = {} THEN "next" ELSE "batch"
    BY <1>1, <2>1 DEF RunType
  <2>7. s.failed = r.failed \cup rejected
    BY <1>1, <2>1 DEF RunType
  <2>8. s.passed = r.passed \cup filtered
    BY <1>1, <2>1 DEF RunType
  <2>9. s.ready = ready
    BY <1>1, <2>1 DEF RunType
  <2>10. s.parsed = [f \in Files |-> IF f \in ready THEN file[f].content ELSE r.parsed[f]]
    BY <1>1, <2>1 DEF RunType
  <2> QED
    BY <2>2, <2>3, <2>4, <2>5, <2>6, <2>7, <2>8, <2>9, <2>10
<1>4. ready = r.ready \ (rejected \cup filtered) /\ rejected \subseteq r.ready /\ filtered \subseteq r.ready
  OBVIOUS
<1> HIDE DEF r, s, rejected, filtered, ready
<1>5. Ordered(s, file, stored)
  <2>1. \A f \in ready : f \in Files /\ f \in r.ready /\ file[f].content \in Nat
    BY <1>1, <1>3, <1>4, IngestAssumption DEF RestTyped, Snapshot, Version
  <2> QED
    BY <1>1, <1>3, <2>1 DEF Ordered, Discovering
<1>6. Covered(s, stored)
  BY <1>1, <1>3, <1>4 DEF Covered, Seen, Discovering
<1> QED
  BY <1>1, <1>2, <1>5, <1>6, Still, OneRunVersions DEF s

LEMMA SingleFailsVersions ==
  ASSUME ShapeInv, ShapeInv', VersionInv, NEW p \in Processes, NEW f \in Files, SingleFails(p, f)
  PROVE  VersionInv'
<1> DEFINE r == run[p]
           s == run'[p]
<1>1. r \in RunType /\ Shaped(r) /\ s \in RunType /\ Shaped(s) /\ RestTyped
      /\ Ordered(r, file, stored) /\ Covered(r, stored)
  BY DEF ShapeInv, TypeOK, RestTyped, VersionInv
<1>2. UNCHANGED <<file, stored>> /\ \A q \in Processes : q # p => run'[q] = run[q]
  BY Typed DEF SingleFails, ShapeInv
<1>3. /\ s.at \in {"next", "single"} /\ r.at = "single" /\ s.left = r.left /\ s.meta = r.meta
      /\ s.print = r.print /\ s.parsed = r.parsed /\ s.ready = r.ready \ {f}
      /\ s.failed = r.failed \cup {f} /\ s.passed = r.passed
  <2>1. s = [r EXCEPT !.at = After(p, f), !.ready = @ \ {f}, !.failed = @ \cup {f}]
    BY Typed DEF SingleFails, ShapeInv
  <2>2. r.at = "single" /\ f \in r.ready /\ After(p, f) \in {"next", "single"}
    BY DEF SingleFails, At, After
  <2> HIDE DEF r, s
  <2> QED
    BY <1>1, <2>1, <2>2 DEF RunType
<1> HIDE DEF r, s
<1>4. Ordered(s, file, stored)
  BY <1>1, <1>3 DEF Ordered, Discovering
<1>5. Covered(s, stored)
  BY <1>1, <1>3 DEF Covered, Seen, Discovering
<1> QED
  BY <1>1, <1>2, <1>4, <1>5, Still, OneRunVersions DEF s

\* A commit archives the version that was captured, which is the one that was
\* fingerprinted and parsed, and no older one than is archived.
LEMMA CommitVersions ==
  ASSUME ShapeInv, ShapeInv', VersionInv, NEW p \in Processes, NEW which,
         run[p].at \in {"batch", "single"}, which \subseteq run[p].ready,
         \A f \in which : Capturable(p, f),
         stored' = Stored(p, which), file' = file
  PROVE  /\ Growing(file, file', stored, stored')
         /\ RowsSound(file', stored')
         /\ \A f \in which : Archived(stored', f, run[p].print[f].content)
<1> DEFINE r == run[p]
<1>1. r \in RunType /\ Shaped(r) /\ RestTyped /\ Ordered(r, file, stored)
  BY DEF ShapeInv, TypeOK, RestTyped, VersionInv
<1>2. stored' \in [Files -> Row \cup {None}]
  BY DEF ShapeInv, TypeOK
<1>3. \A f \in Files : /\ file[f].content \in Nat
                       /\ stored[f] # None => stored[f] \in Row /\ stored[f].events \in Nat
                       /\ file[f].meta = file[f].content /\ RowSound(file[f], stored[f])
  BY <1>1, IngestAssumption DEF RestTyped, Snapshot, Row, Version, VersionInv, RowsSound
<1>4. ASSUME NEW f \in which
      PROVE  /\ f \in Files /\ stored'[f] # None
             /\ stored'[f].events = file[f].content /\ stored'[f].object = file[f].content
             /\ stored'[f].print.meta = file[f].content
             /\ stored'[f].print.content = file[f].content
             /\ r.print[f].content = file[f].content
  <2>1. f \in Files /\ f \in r.ready /\ r.print[f] \in Snapshot /\ r.meta[f] \in Nat
        /\ r.parsed[f] \in Version
    BY <1>1, IngestAssumption DEF RunType, Shaped, Version
  <2>2. r.print[f].content \in Nat /\ r.parsed[f] \in Nat
    BY <2>1, IngestAssumption DEF Snapshot, Version
  <2>3. file[f].meta = r.meta[f]
    BY DEF Capturable
  <2>4. /\ r.print[f].meta = r.meta[f] /\ r.meta[f] <= r.print[f].content
        /\ r.print[f].content <= r.parsed[f] /\ r.parsed[f] <= file[f].content
    BY <1>1, <2>1 DEF Ordered
  <2>5. r.print[f].meta = file[f].content /\ r.print[f].content = file[f].content
        /\ r.parsed[f] = file[f].content
    BY <1>3, <2>1, <2>2, <2>3, <2>4
  <2>6. stored'[f] = [print |-> r.print[f], events |-> r.parsed[f], object |-> file[f].content]
    BY <2>1 DEF Stored
  <2>7. stored'[f] \in Row
    <3>1. file[f].content \in Version
      BY <1>1, <2>1 DEF RestTyped, Snapshot
    <3> QED
      BY <2>1, <2>6, <3>1 DEF Row
  <2> HIDE DEF r
  <2> QED
    BY <2>1, <2>5, <2>6, <2>7, NoneDistinct
<1>5. \A f \in Files \ which : stored'[f] = stored[f]
  BY DEF Stored
<1> HIDE DEF r
<1>6. Growing(file, file', stored, stored')
  <2> SUFFICES ASSUME NEW f \in Files
               PROVE  /\ file[f].content <= file[f].content
                      /\ stored[f] # None => stored'[f] # None /\ stored[f].events <= stored'[f].events
    BY DEF Growing
  <2>1. CASE f \in which
    BY <1>3, <1>4, <2>1 DEF RowSound
  <2>2. CASE f \notin which
    BY <1>3, <1>5, <2>2
  <2> QED
    BY <2>1, <2>2
<1>7. RowsSound(file', stored')
  <2> SUFFICES ASSUME NEW f \in Files PROVE RowSound(file[f], stored'[f])
    BY <1>3 DEF RowsSound
  <2>1. CASE f \in which
    BY <1>3, <1>4, <2>1 DEF RowSound
  <2>2. CASE f \notin which
    BY <1>3, <1>5, <2>2
  <2> QED
    BY <2>1, <2>2
<1>8. \A f \in which : Archived(stored', f, run[p].print[f].content)
  BY <1>3, <1>4 DEF Archived, r
<1> QED
  BY <1>6, <1>7, <1>8

LEMMA BatchVersions ==
  ASSUME ShapeInv, ShapeInv', VersionInv, NEW p \in Processes, Batch(p)
  PROVE  VersionInv'
<1> DEFINE r == run[p]
           s == run'[p]
<1>1. r \in RunType /\ Shaped(r) /\ s \in RunType /\ Shaped(s) /\ RestTyped
      /\ Ordered(r, file, stored) /\ Covered(r, stored)
  BY DEF ShapeInv, TypeOK, RestTyped, VersionInv
<1>2. file' = file /\ \A q \in Processes : q # p => run'[q] = run[q]
  BY Typed DEF Batch, ShapeInv
<1>3. /\ s.at \in {"next", "single"} /\ r.at = "batch" /\ s.left = r.left /\ s.meta = r.meta
      /\ s.print = r.print /\ s.parsed = r.parsed /\ s.ready = r.ready \ r.ready /\ r.ready \subseteq r.ready
      /\ s.failed = r.failed /\ s.passed = r.passed
  BY <1>1, Typed DEF Batch, ShapeInv, RunType, At, After
<1>4. /\ Growing(file, file', stored, stored') /\ RowsSound(file', stored')
      /\ \A g \in r.ready : Archived(stored', g, r.print[g].content)
  <2>1. stored' = Stored(p, r.ready) /\ \A g \in r.ready : Capturable(p, g)
    BY DEF Batch
  <2> QED
    BY <1>2, <1>3, <2>1, CommitVersions
<1>5. Ordered(r, file', stored') /\ Covered(r, stored')
  <2>1. /\ file \in [Files -> Snapshot] /\ file' \in [Files -> Snapshot]
        /\ stored \in [Files -> Row \cup {None}] /\ stored' \in [Files -> Row \cup {None}]
    BY DEF ShapeInv, TypeOK
  <2> HIDE DEF r, s
  <2> QED
    BY <1>1, <1>4, <2>1, GrowingKeeps
<1>6. \A g \in r.ready : r.print[g] \in Snapshot
  BY <1>1, <1>3 DEF Shaped
<1> HIDE DEF r, s
<1>7. Ordered(s, file', stored')
  BY <1>3, <1>5 DEF Ordered, Discovering
<1>8. Covered(s, stored')
  BY <1>3, <1>4, <1>5, <1>6 DEF Covered, Seen, Discovering
<1> QED
  BY <1>1, <1>2, <1>4, <1>7, <1>8, OneRunVersions DEF s

LEMMA SingleVersions ==
  ASSUME ShapeInv, ShapeInv', VersionInv, NEW p \in Processes, NEW f \in Files, Single(p, f)
  PROVE  VersionInv'
<1> DEFINE r == run[p]
           s == run'[p]
<1>1. r \in RunType /\ Shaped(r) /\ s \in RunType /\ Shaped(s) /\ RestTyped
      /\ Ordered(r, file, stored) /\ Covered(r, stored)
  BY DEF ShapeInv, TypeOK, RestTyped, VersionInv
<1>2. file' = file /\ \A q \in Processes : q # p => run'[q] = run[q]
  BY Typed DEF Single, ShapeInv
<1>3. /\ s.at \in {"next", "single"} /\ r.at = "single" /\ s.left = r.left /\ s.meta = r.meta
      /\ s.print = r.print /\ s.parsed = r.parsed /\ s.ready = r.ready \ {f} /\ {f} \subseteq r.ready
      /\ s.failed = r.failed /\ s.passed = r.passed
  <2>1. s = [r EXCEPT !.at = After(p, f), !.ready = @ \ {f}, !.done = @ \cup {f}]
    BY Typed DEF Single, ShapeInv
  <2>2. r.at = "single" /\ f \in r.ready /\ After(p, f) \in {"next", "single"}
    BY DEF Single, At, After
  <2> HIDE DEF r, s
  <2> QED
    BY <1>1, <2>1, <2>2 DEF RunType
<1>4. /\ Growing(file, file', stored, stored') /\ RowsSound(file', stored')
      /\ \A g \in {f} : Archived(stored', g, r.print[g].content)
  <2>1. stored' = Stored(p, {f}) /\ \A g \in {f} : Capturable(p, g)
    BY DEF Single
  <2> QED
    BY <1>2, <1>3, <2>1, CommitVersions
<1>5. Ordered(r, file', stored') /\ Covered(r, stored')
  <2>1. /\ file \in [Files -> Snapshot] /\ file' \in [Files -> Snapshot]
        /\ stored \in [Files -> Row \cup {None}] /\ stored' \in [Files -> Row \cup {None}]
    BY DEF ShapeInv, TypeOK
  <2> HIDE DEF r, s
  <2> QED
    BY <1>1, <1>4, <2>1, GrowingKeeps
<1>6. \A g \in {f} : r.print[g] \in Snapshot
  BY <1>1, <1>3 DEF Shaped
<1> HIDE DEF r, s
<1>7. Ordered(s, file', stored')
  BY <1>3, <1>5 DEF Ordered, Discovering
<1>8. Covered(s, stored')
  BY <1>3, <1>4, <1>5, <1>6 DEF Covered, Seen, Discovering
<1> QED
  BY <1>1, <1>2, <1>4, <1>7, <1>8, OneRunVersions DEF s

LEMMA EditVersions ==
  ASSUME QuietEdits = FALSE, ShapeInv, ShapeInv', VersionInv, NEW f \in Files, Edit(f)
  PROVE  VersionInv'
<1>1. run' = run /\ stored' = stored
  BY DEF Edit
<1>2. file \in [Files -> Snapshot] /\ stored \in [Files -> Row \cup {None}]
  BY DEF ShapeInv, TypeOK
<1>3. file' = [file EXCEPT ![f] = [meta |-> file[f].content + 1, content |-> file[f].content + 1]]
  BY <1>2 DEF Edit
<1>4. \A g \in Files : /\ file[g].content \in Nat
                       /\ stored[g] # None => stored[g] \in Row /\ stored[g].events \in Nat
                                              /\ stored[g].object \in Nat
                       /\ file[g].meta = file[g].content /\ RowSound(file[g], stored[g])
  BY <1>2, IngestAssumption DEF Snapshot, Row, Version, VersionInv, RowsSound
<1>5. \A g \in Files : /\ file[g].content <= file'[g].content
                       /\ file'[g].content \in Nat /\ file'[g].meta = file'[g].content
  BY <1>2, <1>3, <1>4
<1>6. Growing(file, file', stored, stored')
  BY <1>1, <1>4, <1>5 DEF Growing
<1>7. RowsSound(file', stored')
  <2> SUFFICES ASSUME NEW g \in Files PROVE RowSound(file'[g], stored[g])
    BY <1>1, <1>5 DEF RowsSound
  <2> QED
    BY <1>4, <1>5 DEF RowSound
<1> QED
  BY <1>1, <1>6, <1>7, OneRunVersions

LEMMA StillVersions ==
  ASSUME ShapeInv, VersionInv, UNCHANGED <<file, stored, run>>
  PROVE  VersionInv'
  BY DEF VersionInv

LEMMA VersionInit == Init => VersionInv
<1> SUFFICES ASSUME Init PROVE VersionInv
  OBVIOUS
<1>1. RowsSound(file, stored)
  BY DEF Init, RowsSound, RowSound
<1>2. ASSUME NEW p \in Processes PROVE Ordered(run[p], file, stored) /\ Covered(run[p], stored)
  <2>1. run[p].at = "idle" /\ run[p].ready = {}
    BY DEF Init, IdleRun
  <2> QED
    BY <2>1 DEF Ordered, Covered, Discovering
<1> QED
  BY <1>1, <1>2 DEF VersionInv

LEMMA VersionStep ==
  ASSUME QuietEdits = FALSE, ShapeInv, VersionInv, [Next]_vars
  PROVE  VersionInv'
<1>0. ShapeInv'
  BY ShapeStep
<1>1. ASSUME NEW p \in Processes, Proceed(p) PROVE VersionInv'
  BY <1>0, <1>1, ScanVersions, ScanFailsVersions, InspectVersions, DiscoverVersions, ParseVersions,
     BatchVersions, SingleVersions, SingleFailsVersions, PlaceVersions, EndVersions DEF Proceed
<1>2. ASSUME NEW f \in Files, CoolDown(f) PROVE VersionInv'
  BY <1>2, StillVersions DEF CoolDown
<1>3. CASE UNCHANGED vars
  BY <1>3, StillVersions DEF vars
<1> QED
  BY <1>0, <1>1, <1>2, <1>3, EditVersions, EndVersions DEF Next

LEMMA VersionAlways ==
  ASSUME QuietEdits = FALSE
  PROVE  Spec => [](ShapeInv /\ VersionInv)
<1>1. Init => ShapeInv /\ VersionInv
  BY ShapeInit, VersionInit
<1>2. (ShapeInv /\ VersionInv) /\ [Next]_vars => (ShapeInv /\ VersionInv)'
  BY ShapeStep, VersionStep
<1> QED
  BY <1>1, <1>2, PTL DEF Spec

\* What is archived is of one version of its file, and what the next scan takes
\* for unchanged is archived as it is on disk, if every rewrite shows in size or
\* mtime.
THEOREM UnchangedIsCurrentAlways ==
  ASSUME QuietEdits = FALSE
  PROVE  Spec => []UnchangedIsCurrent
<1>1. ASSUME ShapeInv, VersionInv PROVE UnchangedIsCurrent
  <2>1. TypeOK /\ None \notin Snapshot
    BY <1>1, NoneDistinct DEF ShapeInv
  <2>2. ASSUME NEW f \in Files, stored[f] # None
        PROVE  /\ stored[f].events = stored[f].object
               /\ stored[f].print.content = stored[f].object
               /\ stored[f].print.meta = stored[f].object
               /\ file[f].meta = file[f].content
               /\ stored[f].print \in Snapshot
    BY <1>1, <2>1, <2>2 DEF VersionInv, RowsSound, RowSound, TypeOK, Row
  <2>3. ASSUME NEW f \in Files, stored[f] # None,
               Fingerprint(stored[f].print, file[f].meta, file[f]) = stored[f].print
        PROVE  stored[f].object = file[f].content
    <3>1. CASE stored[f].print.meta = file[f].meta
      BY <2>2, <2>3, <3>1
    <3>2. CASE stored[f].print.meta # file[f].meta
      <4>1. stored[f].print = [meta |-> file[f].meta, content |-> file[f].content]
        BY <2>3, <3>2 DEF Fingerprint
      <4> QED
        BY <3>2, <4>1
    <3> QED
      BY <3>1, <3>2
  <2> QED
    BY <2>1, <2>2, <2>3 DEF UnchangedIsCurrent, StoredCoherent
<1> QED
  BY <1>1, VersionAlways, PTL

LEMMA StoredGrows ==
  ASSUME ShapeInv, VersionInv, [Next]_vars
  PROVE  Growing(file, file, stored, stored')
<1>0. ShapeInv'
  BY ShapeStep
<1>1. ASSUME stored' = stored PROVE Growing(file, file, stored, stored')
  <2>1. \A f \in Files : file[f].content \in Nat /\ (stored[f] # None => stored[f].events \in Nat)
    BY IngestAssumption DEF ShapeInv, TypeOK, Snapshot, Row, Version
  <2> QED
    BY <1>1, <2>1 DEF Growing
<1>2. ASSUME NEW p \in Processes, Batch(p) PROVE Growing(file, file, stored, stored')
  <2>1. run[p].at = "batch" /\ stored' = Stored(p, run[p].ready) /\ file' = file
        /\ \A f \in run[p].ready : Capturable(p, f)
    BY <1>2 DEF Batch, At
  <2> QED
    BY <1>0, <2>1, CommitVersions
<1>3. ASSUME NEW p \in Processes, NEW f \in Files, Single(p, f)
      PROVE  Growing(file, file, stored, stored')
  <2>1. run[p].at = "single" /\ stored' = Stored(p, {f}) /\ file' = file
        /\ \A g \in {f} : g \in run[p].ready /\ Capturable(p, g)
    BY <1>3 DEF Single, At
  <2> QED
    BY <1>0, <2>1, CommitVersions
<1>4. ASSUME NEW p \in Processes, Proceed(p) PROVE Growing(file, file, stored, stored')
  <2>1. Batch(p) \/ (\E f \in Files : Single(p, f)) \/ stored' = stored
    BY <1>4 DEF Proceed, Scan, ScanFails, Inspect, Discover, Parse, BatchFails, SingleFails, NextAgent,
       LoadQuarantine, SaveQuarantine, ReadSequence, Acknowledge, StatusFails
  <2> QED
    BY <1>1, <1>2, <1>3, <2>1
<1> QED
  BY <1>1, <1>4 DEF Next, Edit, CoolDown, StartRun, Crash, vars

\* No process replaces a session by an older version of its file, if every
\* rewrite shows in size or mtime.
THEOREM NeverRegressesAlways ==
  ASSUME QuietEdits = FALSE
  PROVE  Spec => NeverRegresses
<1> DEFINE Kept == \A f \in Files : stored[f] # None =>
                     /\ stored'[f] # None
                     /\ stored'[f].events >= stored[f].events
<1>1. ASSUME ShapeInv, VersionInv, [Next]_vars PROVE Kept
  <2>1. Growing(file, file, stored, stored')
    BY <1>1, StoredGrows
  <2>2. ASSUME NEW f \in Files, stored[f] # None
        PROVE  stored'[f] # None /\ stored'[f].events >= stored[f].events
    <3>1. stored'[f] # None /\ stored[f].events <= stored'[f].events
      BY <2>1, <2>2 DEF Growing
    <3> QED
      BY <3>1
  <2> QED
    BY <2>2
<1> HIDE DEF Kept
<1>2. Spec => [][Kept]_vars
  BY <1>1, VersionAlways, PTL DEF Spec
<1> QED
  BY <1>2 DEF NeverRegresses, Kept

\* Whatever a run discovered and did not report as failed or skipped is archived
\* when its acknowledgement commits, in the version it saw or a later one.
THEOREM AckCoversRunAlways ==
  ASSUME QuietEdits = FALSE
  PROVE  Spec => AckCoversRun
<1> DEFINE Answered == \A p \in Processes : Acknowledge(p) =>
                         \A f \in Files \ (run[p].failed \cup run[p].passed) :
                           /\ stored[f] # None
                           /\ run[p].print[f] # None
                           /\ stored[f].events >= run[p].print[f].content
<1>1. ASSUME ShapeInv, VersionInv PROVE Answered
  <2> SUFFICES ASSUME NEW p \in Processes, Acknowledge(p),
                      NEW f \in Files \ (run[p].failed \cup run[p].passed)
               PROVE  /\ stored[f] # None
                      /\ run[p].print[f] # None
                      /\ stored[f].events >= run[p].print[f].content
    OBVIOUS
  <2>1. run[p].at = "confirm"
    BY DEF Acknowledge, At
  <2>2. run[p].ready = {} /\ run[p].left = {} /\ Covered(run[p], stored)
    BY <1>1, <2>1 DEF ShapeInv, Shaped, Writing, Ending, VersionInv
  <2>3. f \in Seen(run[p])
    BY <2>1, <2>2 DEF Seen, Discovering
  <2>4. run[p].print[f] \in Snapshot /\ Archived(stored, f, run[p].print[f].content)
    BY <2>1, <2>2, <2>3 DEF Covered
  <2> QED
    BY <2>4, NoneDistinct DEF Archived
<1> HIDE DEF Answered
<1>2. Spec => [][Answered]_vars
  BY <1>1, VersionAlways, PTL DEF Spec
<1> QED
  BY <1>2 DEF AckCoversRun, Answered

-------------------------------------------------------------------------------
(***************************************************************************)
(* Failures                                                                *)
(***************************************************************************)
LEMMA UnrecordedFinite ==
  ASSUME NEW runs, NEW f, NEW v
  PROVE  IsFiniteSet(Unrecorded(runs, f, v)) /\ Cardinality(Unrecorded(runs, f, v)) \in Nat
<1>1. Unrecorded(runs, f, v) \subseteq Processes /\ IsFiniteSet(Processes)
  BY IngestAssumption DEF Unrecorded
<1> QED
  BY <1>1, FS_Subset, FS_CardinalityType

\* What one step does to the attempts that failed: none is added, or one that is
\* counted.
Tallied(tried, tried2, u, u2) ==
  \/ u2 \subseteq u /\ tried2 = tried
  \/ tried2 = Smaller(tried + 1, Threshold) /\ \E p \in Processes : u2 \subseteq u \cup {p}

LEMMA CountsKept ==
  ASSUME NEW tried \in 0 .. Threshold, NEW tried2, NEW u, NEW u2, IsFiniteSet(u),
         Tallied(tried, tried2, u, u2), NEW n \in Nat, Counts(tried, u, n)
  PROVE  Counts(tried2, u2, n)
<1>0. Threshold \in Nat /\ tried \in Nat /\ tried <= Threshold /\ Cardinality(u) \in Nat
  BY IngestAssumption, FS_CardinalityType
<1>1. CASE u2 \subseteq u /\ tried2 = tried
  <2>1. Cardinality(u2) \in Nat /\ Cardinality(u2) <= Cardinality(u)
    BY <1>1, FS_Subset, FS_CardinalityType
  <2> QED
    BY <1>0, <1>1, <2>1 DEF Counts
<1>2. ASSUME NEW p, tried2 = Smaller(tried + 1, Threshold), u2 \subseteq u \cup {p}
      PROVE  Counts(tried2, u2, n)
  <2>1. IsFiniteSet(u \cup {p}) /\ Cardinality(u \cup {p}) \in Nat
        /\ Cardinality(u \cup {p}) <= Cardinality(u) + 1
    BY <1>0, FS_AddElement
  <2>2. Cardinality(u2) \in Nat /\ Cardinality(u2) <= Cardinality(u \cup {p})
    BY <1>2, <2>1, FS_Subset, FS_CardinalityType
  <2>3. tried2 = Threshold \/ (tried2 = tried + 1 /\ tried # Threshold)
    BY <1>0, <1>2 DEF Smaller
  <2> QED
    BY <1>0, <2>1, <2>2, <2>3 DEF Counts
<1> QED
  BY <1>1, <1>2 DEF Tallied

\* A failure is on record once its run has recorded it.
LEMMA CountsRecorded ==
  ASSUME NEW tried \in 0 .. Threshold, NEW u, IsFiniteSet(u), NEW p \in u,
         NEW u2, u2 \subseteq u \ {p}, NEW n \in Nat, Counts(tried, u, n),
         NEW m \in Nat, m <= n + 1
  PROVE  Counts(tried, u2, m)
<1>0. tried \in Nat /\ Cardinality(u) \in Nat
  BY IngestAssumption, FS_CardinalityType
<1>1. IsFiniteSet(u \ {p}) /\ Cardinality(u \ {p}) = Cardinality(u) - 1
  BY FS_RemoveElement
<1>2. Cardinality(u2) \in Nat /\ Cardinality(u2) <= Cardinality(u \ {p})
  BY <1>1, FS_Subset, FS_CardinalityType
<1> QED
  BY <1>0, <1>1, <1>2 DEF Counts

\* The failures of a file and content are as well earned after a step as before.
TalliedStep ==
  \A f \in Files, v \in Version :
    Tallied(tries[f][v], tries'[f][v], Unrecorded(run, f, v), Unrecorded(run', f, v))

LEMMA EarnedKept ==
  ASSUME ShapeInv, TalliedStep, NEW f \in Files, NEW v \in Version, NEW n \in Nat,
         Counts(tries[f][v], Unrecorded(run, f, v), n)
  PROVE  Counts(tries'[f][v], Unrecorded(run', f, v), n)
<1>1. tries[f][v] \in 0 .. Threshold
  BY DEF ShapeInv, TypeOK
<1>2. Tallied(tries[f][v], tries'[f][v], Unrecorded(run, f, v), Unrecorded(run', f, v))
  BY DEF TalliedStep
<1>3. IsFiniteSet(Unrecorded(run, f, v))
  BY UnrecordedFinite
<1> QED
  BY <1>1, <1>2, <1>3, CountsKept

\* An entry of the quarantine and what it says.
LEMMA EntryTyped ==
  ASSUME NEW entry \in Entry
  PROVE  entry.print \in Snapshot /\ entry.print.content \in Version
         /\ entry.failures \in Nat /\ entry.failures <= Threshold
  BY IngestAssumption DEF Entry, Snapshot

\* Entries and loaded entries stay as they are, or are earned by themselves.
LEMMA QuarantineKept ==
  ASSUME ShapeInv, ShapeInv', QuarantineInv, TalliedStep,
         \A f \in Files : quarantine'[f] # None =>
           \/ /\ quarantine[f] # None
              /\ quarantine'[f].print = quarantine[f].print
              /\ quarantine'[f].failures = quarantine[f].failures
           \/ Counts(tries'[f][quarantine'[f].print.content],
                     Unrecorded(run', f, quarantine'[f].print.content), quarantine'[f].failures),
         \A q \in Processes : run'[q].at = "save" =>
           run'[q].entries = quarantine \/ (run[q].at = "save" /\ run'[q].entries = run[q].entries)
  PROVE  QuarantineInv'
<1>0. /\ quarantine \in [Files -> Entry \cup {None}] /\ quarantine' \in [Files -> Entry \cup {None}]
      /\ run \in [Processes -> RunType]
  BY DEF ShapeInv, TypeOK
<1>1. ASSUME NEW f \in Files, NEW v \in Version
      PROVE  Counts(tries'[f][v], Unrecorded(run', f, v), 0)
  BY EarnedKept DEF QuarantineInv, Earned
<1>2. ASSUME NEW f \in Files, quarantine[f] # None
      PROVE  Counts(tries'[f][quarantine[f].print.content],
                    Unrecorded(run', f, quarantine[f].print.content), quarantine[f].failures)
  <2>1. quarantine[f].print.content \in Version /\ quarantine[f].failures \in Nat
    BY <1>0, <1>2, EntryTyped
  <2> QED
    BY <1>2, <2>1, EarnedKept DEF QuarantineInv, Earned
<1>3. ASSUME NEW f \in Files, quarantine'[f] # None
      PROVE  Counts(tries'[f][quarantine'[f].print.content],
                    Unrecorded(run', f, quarantine'[f].print.content), quarantine'[f].failures)
  BY <1>2, <1>3
<1>4. ASSUME NEW q \in Processes, NEW f \in Files, run'[q].at = "save", run'[q].entries[f] # None
      PROVE  Counts(tries'[f][run'[q].entries[f].print.content],
                    Unrecorded(run', f, run'[q].entries[f].print.content),
                    run'[q].entries[f].failures)
  <2>1. CASE run'[q].entries = quarantine
    BY <1>2, <1>4, <2>1
  <2>2. CASE run[q].at = "save" /\ run'[q].entries = run[q].entries
    <3>1. run[q].entries[f] \in Entry
      BY <1>0, <1>4, <2>2 DEF RunType
    <3>2. run[q].entries[f].print.content \in Version /\ run[q].entries[f].failures \in Nat
      BY <3>1, EntryTyped
    <3>3. Counts(tries[f][run[q].entries[f].print.content],
                 Unrecorded(run, f, run[q].entries[f].print.content), run[q].entries[f].failures)
      BY <1>4, <2>2 DEF QuarantineInv, Earned
    <3> QED
      BY <2>2, <3>2, <3>3, EarnedKept
  <2> QED
    BY <1>4, <2>1, <2>2
<1> QED
  BY <1>1, <1>3, <1>4 DEF QuarantineInv, Earned

\* A step of a run that fails at nothing.
LEMMA NothingFails ==
  ASSUME ShapeInv, NEW p \in Processes, tries' = tries,
         \A q \in Processes : q # p => run'[q] = run[q],
         run'[p].at \notin {"status", "confirm"} => run[p].at \notin {"status", "confirm"},
         run'[p].failed \subseteq run[p].failed,
         \A f \in run'[p].failed : run'[p].print[f] = run[p].print[f]
  PROVE  TalliedStep
<1> SUFFICES ASSUME NEW f \in Files, NEW v \in Version
             PROVE  Unrecorded(run', f, v) \subseteq Unrecorded(run, f, v)
  BY DEF TalliedStep, Tallied
<1>1. ASSUME NEW q \in Unrecorded(run', f, v) PROVE q \in Unrecorded(run, f, v)
  <2>1. CASE q = p
    BY <1>1, <2>1 DEF Unrecorded
  <2>2. CASE q # p
    BY <1>1, <2>2 DEF Unrecorded
  <2> QED
    BY <2>1, <2>2
<1> QED
  BY <1>1

LEMMA PlainQuarantine ==
  ASSUME ShapeInv, ShapeInv', QuarantineInv, NEW p \in Processes, UNCHANGED <<tries, quarantine>>,
         \A q \in Processes : q # p => run'[q] = run[q],
         run'[p].at \notin {"status", "confirm"} => run[p].at \notin {"status", "confirm"},
         run'[p].failed \subseteq run[p].failed,
         \A f \in run'[p].failed : run'[p].print[f] = run[p].print[f],
         run'[p].at # "save"
  PROVE  QuarantineInv'
<1>1. TalliedStep
  BY NothingFails
<1> QED
  BY <1>1, QuarantineKept

LEMMA ScanQuarantine ==
  ASSUME ShapeInv, ShapeInv', QuarantineInv, NEW p \in Processes, NEW a \in Agents, Scan(p, a)
  PROVE  QuarantineInv'
<1>1. run \in [Processes -> RunType] /\ run[p] \in RunType /\ Shaped(run[p])
  BY DEF ShapeInv, TypeOK
<1>2. UNCHANGED <<tries, quarantine>> /\ \A q \in Processes : q # p => run'[q] = run[q]
  BY <1>1 DEF Scan
<1>3. run'[p].failed = run[p].failed /\ run'[p].print = run[p].print
  BY <1>1 DEF Scan, RunType
<1>4. run[p].at \notin {"status", "confirm"} /\ run'[p].at # "save"
  BY <1>1 DEF Scan, At, RunType
<1> QED
  BY <1>2, <1>3, <1>4, PlainQuarantine

LEMMA ScanFailsQuarantine ==
  ASSUME ShapeInv, ShapeInv', QuarantineInv, NEW p \in Processes, NEW a \in Agents, ScanFails(p, a)
  PROVE  QuarantineInv'
<1>1. run \in [Processes -> RunType] /\ run[p] \in RunType /\ Shaped(run[p])
  BY DEF ShapeInv, TypeOK
<1>2. UNCHANGED <<tries, quarantine>> /\ \A q \in Processes : q # p => run'[q] = run[q]
  BY <1>1 DEF ScanFails
<1>3. run'[p].failed = run[p].failed /\ run'[p].print = run[p].print
  BY <1>1 DEF ScanFails, RunType
<1>4. run[p].at \notin {"status", "confirm"} /\ run'[p].at # "save"
  BY <1>1 DEF ScanFails, At, RunType
<1> QED
  BY <1>2, <1>3, <1>4, PlainQuarantine

LEMMA InspectQuarantine ==
  ASSUME ShapeInv, ShapeInv', QuarantineInv, NEW p \in Processes, Inspect(p)
  PROVE  QuarantineInv'
<1>1. run \in [Processes -> RunType] /\ run[p] \in RunType /\ Shaped(run[p])
  BY DEF ShapeInv, TypeOK
<1>2. UNCHANGED <<tries, quarantine>> /\ \A q \in Processes : q # p => run'[q] = run[q]
  BY <1>1 DEF Inspect
<1>3. run'[p].failed = run[p].failed /\ run'[p].print = run[p].print
  BY <1>1 DEF Inspect, RunType
<1>4. run[p].at \notin {"status", "confirm"} /\ run'[p].at # "save"
  BY <1>1 DEF Inspect, At, RunType
<1> QED
  BY <1>2, <1>3, <1>4, PlainQuarantine

LEMMA BatchQuarantine ==
  ASSUME ShapeInv, ShapeInv', QuarantineInv, NEW p \in Processes, Batch(p)
  PROVE  QuarantineInv'
<1>1. run \in [Processes -> RunType] /\ run[p] \in RunType /\ Shaped(run[p])
  BY DEF ShapeInv, TypeOK
<1>2. UNCHANGED <<tries, quarantine>> /\ \A q \in Processes : q # p => run'[q] = run[q]
  BY <1>1 DEF Batch
<1>3. run'[p].failed = run[p].failed /\ run'[p].print = run[p].print
  BY <1>1 DEF Batch, RunType
<1>4. run[p].at \notin {"status", "confirm"} /\ run'[p].at # "save"
  BY <1>1 DEF Batch, At, RunType
<1> QED
  BY <1>2, <1>3, <1>4, PlainQuarantine

LEMMA BatchFailsQuarantine ==
  ASSUME ShapeInv, ShapeInv', QuarantineInv, NEW p \in Processes, BatchFails(p)
  PROVE  QuarantineInv'
<1>1. run \in [Processes -> RunType] /\ run[p] \in RunType /\ Shaped(run[p])
  BY DEF ShapeInv, TypeOK
<1>2. UNCHANGED <<tries, quarantine>> /\ \A q \in Processes : q # p => run'[q] = run[q]
  BY <1>1 DEF BatchFails
<1>3. run'[p].failed = run[p].failed /\ run'[p].print = run[p].print
  BY <1>1 DEF BatchFails, RunType
<1>4. run[p].at \notin {"status", "confirm"} /\ run'[p].at # "save"
  BY <1>1 DEF BatchFails, At, RunType
<1> QED
  BY <1>2, <1>3, <1>4, PlainQuarantine

LEMMA SingleQuarantine ==
  ASSUME ShapeInv, ShapeInv', QuarantineInv, NEW p \in Processes, NEW f \in Files, Single(p, f)
  PROVE  QuarantineInv'
<1>1. run \in [Processes -> RunType] /\ run[p] \in RunType /\ Shaped(run[p])
  BY DEF ShapeInv, TypeOK
<1>2. UNCHANGED <<tries, quarantine>> /\ \A q \in Processes : q # p => run'[q] = run[q]
  BY <1>1 DEF Single
<1>3. run'[p].failed = run[p].failed /\ run'[p].print = run[p].print
  BY <1>1 DEF Single, RunType
<1>4. run[p].at \notin {"status", "confirm"} /\ run'[p].at # "save"
  BY <1>1 DEF Single, At, RunType, After
<1> QED
  BY <1>2, <1>3, <1>4, PlainQuarantine

LEMMA NextAgentQuarantine ==
  ASSUME ShapeInv, ShapeInv', QuarantineInv, NEW p \in Processes, NextAgent(p)
  PROVE  QuarantineInv'
<1>1. run \in [Processes -> RunType] /\ run[p] \in RunType /\ Shaped(run[p])
  BY DEF ShapeInv, TypeOK
<1>2. UNCHANGED <<tries, quarantine>> /\ \A q \in Processes : q # p => run'[q] = run[q]
  BY <1>1 DEF NextAgent
<1>3. run'[p].failed = run[p].failed /\ run'[p].print = run[p].print
  BY <1>1 DEF NextAgent, RunType
<1>4. run[p].at \notin {"status", "confirm"} /\ run'[p].at # "save"
  BY <1>1 DEF NextAgent, At, RunType
<1> QED
  BY <1>2, <1>3, <1>4, PlainQuarantine

LEMMA DiscoverQuarantine ==
  ASSUME ShapeInv, ShapeInv', QuarantineInv, NEW p \in Processes, Discover(p)
  PROVE  QuarantineInv'
<1> DEFINE r == run[p]
           s == run'[p]
           print(f) == Fingerprint(r.known[f], r.meta[f], file[f])
<1>1. run \in [Processes -> RunType] /\ r \in RunType /\ Shaped(r)
  BY DEF ShapeInv, TypeOK
<1>2. UNCHANGED <<tries, quarantine>> /\ \A q \in Processes : q # p => run'[q] = run[q]
  BY <1>1 DEF Discover
<1>3. r.at = "hash" /\ s.at = "parse" /\ s.failed = r.failed
  BY <1>1 DEF Discover, At, RunType
<1>4. s.print = [f \in Files |-> IF f \in FilesOf(r.agent) THEN print(f) ELSE r.print[f]]
  BY <1>1 DEF Discover, RunType
<1>5. \A f \in r.failed : f \in Files /\ f \notin FilesOf(r.agent)
  BY <1>1, <1>3 DEF Shaped, Seen, Discovering, FilesOf
<1>6. \A f \in s.failed : s.print[f] = r.print[f]
  BY <1>3, <1>4, <1>5
<1> QED
  BY <1>2, <1>3, <1>6, PlainQuarantine

LEMMA EndQuarantine ==
  ASSUME ShapeInv, ShapeInv', QuarantineInv, NEW p \in Processes,
         StartRun(p) \/ Acknowledge(p) \/ StatusFails(p) \/ Crash(p)
  PROVE  QuarantineInv'
<1>1. run \in [Processes -> RunType]
  BY DEF ShapeInv, TypeOK
<1>2. UNCHANGED <<tries, quarantine>> /\ \A q \in Processes : q # p => run'[q] = run[q]
  BY <1>1 DEF StartRun, Acknowledge, StatusFails, Crash
<1>3. run'[p].failed = {} /\ run'[p].at \in {"idle", "scan"}
  <2>1. CASE StartRun(p)
    BY <1>1, <2>1 DEF StartRun, IdleRun
  <2>2. CASE ~StartRun(p)
    BY <1>1, <2>2 DEF Acknowledge, StatusFails, Crash, IdleRun
  <2> QED
    BY <2>1, <2>2
<1>4. \A f \in Files, v \in Version : Unrecorded(run', f, v) \subseteq Unrecorded(run, f, v)
  BY <1>2, <1>3 DEF Unrecorded
<1>5. TalliedStep
  BY <1>2, <1>4 DEF TalliedStep, Tallied
<1>6. run'[p].at # "save"
  BY <1>3
<1> QED
  BY <1>2, <1>5, <1>6, QuarantineKept

LEMMA ReadSequenceQuarantine ==
  ASSUME ShapeInv, ShapeInv', QuarantineInv, NEW p \in Processes, ReadSequence(p)
  PROVE  QuarantineInv'
<1>1. run \in [Processes -> RunType] /\ run[p] \in RunType
  BY DEF ShapeInv, TypeOK
<1>2. UNCHANGED <<tries, quarantine>> /\ \A q \in Processes : q # p => run'[q] = run[q]
  BY <1>1 DEF ReadSequence
<1>3. run'[p].failed = run[p].failed /\ run'[p].print = run[p].print /\ run'[p].at = "confirm"
  BY <1>1 DEF ReadSequence, RunType
<1> QED
  BY <1>2, <1>3, PlainQuarantine

LEMMA LoadQuarantineQuarantine ==
  ASSUME ShapeInv, ShapeInv', QuarantineInv, NEW p \in Processes, LoadQuarantine(p)
  PROVE  QuarantineInv'
<1>1. run \in [Processes -> RunType] /\ run[p] \in RunType
  BY DEF ShapeInv, TypeOK
<1>2. UNCHANGED <<tries, quarantine>> /\ \A q \in Processes : q # p => run'[q] = run[q]
  BY <1>1 DEF LoadQuarantine
<1>3. /\ run'[p].failed = run[p].failed /\ run'[p].print = run[p].print
      /\ run'[p].entries = quarantine /\ run[p].at = "next"
  BY <1>1 DEF LoadQuarantine, RunType, At
<1>4. TalliedStep
  BY <1>2, <1>3, NothingFails
<1> QED
  BY <1>2, <1>3, <1>4, QuarantineKept

\* An attempt that fails is counted when it fails.
LEMMA FailureTallied ==
  ASSUME ShapeInv, NEW p \in Processes, NEW which \in SUBSET run[p].ready,
         NoteFailures(which, p), \A q \in Processes : q # p => run'[q] = run[q],
         run[p].at \notin {"status", "confirm"},
         run'[p].failed = run[p].failed \cup which, run'[p].print = run[p].print
  PROVE  TalliedStep
<1> SUFFICES ASSUME NEW f \in Files, NEW v \in Version
             PROVE  Tallied(tries[f][v], tries'[f][v], Unrecorded(run, f, v), Unrecorded(run', f, v))
  BY DEF TalliedStep
<1>1. tries \in [Files -> [Version -> 0 .. Threshold]] /\ Shaped(run[p])
  BY DEF ShapeInv, TypeOK
<1>2. tries'[f] = IF f \in which
                    THEN [tries[f] EXCEPT ![run[p].print[f].content] = Smaller(@ + 1, Threshold)]
                    ELSE tries[f]
  BY DEF NoteFailures
<1>3. CASE f \in which /\ run[p].print[f].content = v
  <2>1. tries'[f][v] = Smaller(tries[f][v] + 1, Threshold)
    BY <1>1, <1>2, <1>3
  <2>2. Unrecorded(run', f, v) \subseteq Unrecorded(run, f, v) \cup {p}
    BY DEF Unrecorded
  <2> QED
    BY <2>1, <2>2 DEF Tallied
<1>4. CASE ~(f \in which /\ run[p].print[f].content = v)
  <2>1. tries'[f][v] = tries[f][v]
    BY <1>1, <1>2, <1>4
  <2>2. Unrecorded(run', f, v) \subseteq Unrecorded(run, f, v)
    BY <1>4 DEF Unrecorded
  <2> QED
    BY <2>1, <2>2 DEF Tallied
<1> QED
  BY <1>3, <1>4

LEMMA ParseQuarantine ==
  ASSUME ShapeInv, ShapeInv', QuarantineInv, NEW p \in Processes, Parse(p)
  PROVE  QuarantineInv'
<1> DEFINE rejected == {f \in run[p].ready : <<f, file[f].content>> \in Malformed}
<1>1. run \in [Processes -> RunType] /\ run[p] \in RunType
  BY DEF ShapeInv, TypeOK
<1>2. quarantine' = quarantine /\ NoteFailures(rejected, p)
      /\ \A q \in Processes : q # p => run'[q] = run[q]
  BY <1>1 DEF Parse
<1>3. run'[p].failed = run[p].failed \cup rejected
  BY <1>1 DEF Parse, RunType
<1>4. run'[p].print = run[p].print
  BY <1>1 DEF Parse, RunType
<1>5. run[p].at = "parse" /\ run'[p].at # "save"
  BY <1>1 DEF Parse, At, RunType
<1>6. rejected \subseteq run[p].ready
  OBVIOUS
<1> HIDE DEF rejected
<1>7. TalliedStep
  BY <1>2, <1>3, <1>4, <1>5, <1>6, FailureTallied
<1> QED
  BY <1>2, <1>5, <1>7, QuarantineKept

LEMMA SingleFailsQuarantine ==
  ASSUME ShapeInv, ShapeInv', QuarantineInv, NEW p \in Processes, NEW f \in Files, SingleFails(p, f)
  PROVE  QuarantineInv'
<1>1. run \in [Processes -> RunType] /\ run[p] \in RunType
  BY DEF ShapeInv, TypeOK
<1>2. quarantine' = quarantine /\ NoteFailures({f}, p) /\ {f} \subseteq run[p].ready
      /\ \A q \in Processes : q # p => run'[q] = run[q]
  BY <1>1 DEF SingleFails
<1>3. run'[p].failed = run[p].failed \cup {f} /\ run'[p].print = run[p].print
  BY <1>1 DEF SingleFails, RunType
<1>4. run[p].at = "single" /\ run'[p].at # "save"
  BY <1>1 DEF SingleFails, At, RunType, After
<1>5. TalliedStep
  BY <1>2, <1>3, <1>4, FailureTallied
<1> QED
  BY <1>2, <1>4, <1>5, QuarantineKept

\* The loaded entry of the same fingerprint, or none, and the failure of this run
\* are what the new entry counts.
LEMMA FailedAgainCounts ==
  ASSUME NEW entry \in Entry \cup {None}, NEW print \in Snapshot
  PROVE  /\ FailedAgain(entry, print) \in Entry /\ FailedAgain(entry, print).print = print
         /\ \/ FailedAgain(entry, print).failures <= 1
            \/ /\ entry # None /\ entry.print = print
               /\ FailedAgain(entry, print).failures <= entry.failures + 1
<1>1. FailedAgain(entry, print) \in Entry
  BY FailedAgainTyped
<1>2. CASE entry # None /\ entry.print = print
  <2>1. entry.failures \in Nat /\ Threshold \in Nat
    BY <1>2, EntryTyped, IngestAssumption
  <2>2. Smaller(entry.failures + 1, Threshold) <= entry.failures + 1
    BY <2>1 DEF Smaller
  <2>3. FailedAgain(entry, print) =
          [print |-> print, failures |-> Smaller(entry.failures + 1, Threshold), recent |-> TRUE]
    BY <1>2 DEF FailedAgain
  <2> QED
    BY <1>1, <1>2, <2>2, <2>3
<1>3. CASE ~(entry # None /\ entry.print = print)
  <2>1. FailedAgain(entry, print) = [print |-> print, failures |-> 1, recent |-> TRUE]
    BY <1>3 DEF FailedAgain
  <2> QED
    BY <1>1, <2>1
<1> QED
  BY <1>2, <1>3

LEMMA SaveQuarantineQuarantine ==
  ASSUME ShapeInv, ShapeInv', QuarantineInv, NEW p \in Processes, SaveQuarantine(p)
  PROVE  QuarantineInv'
<1> DEFINE r == run[p]
           cleared == {f \in r.done : r.entries[f] # None}
           entry(f) == IF f \in cleared THEN None ELSE r.entries[f]
<1>1. /\ run \in [Processes -> RunType] /\ r \in RunType /\ Shaped(r)
      /\ tries \in [Files -> [Version -> 0 .. Threshold]]
  BY DEF ShapeInv, TypeOK
<1>2. tries' = tries /\ \A q \in Processes : q # p => run'[q] = run[q]
  BY <1>1 DEF SaveQuarantine
<1>3. r.at = "save" /\ run'[p].failed = r.failed /\ run'[p].print = r.print /\ run'[p].at = "status"
  BY <1>1 DEF SaveQuarantine, At, RunType
<1>4. \/ quarantine' = quarantine
      \/ quarantine' = [f \in Files |-> IF f \in r.failed THEN FailedAgain(entry(f), r.print[f])
                                                          ELSE entry(f)]
  BY DEF SaveQuarantine
<1>5. \A f \in Files : entry(f) \in Entry \cup {None} /\ (entry(f) # None => entry(f) = r.entries[f])
  BY <1>1 DEF RunType
<1> HIDE DEF entry, cleared
<1>6. TalliedStep
  BY <1>2, <1>3, NothingFails
<1>7. ASSUME NEW f \in Files, entry(f) # None
      PROVE  /\ entry(f).print.content \in Version /\ entry(f).failures \in Nat
             /\ Counts(tries[f][entry(f).print.content],
                       Unrecorded(run, f, entry(f).print.content), entry(f).failures)
  <2>1. entry(f) \in Entry /\ entry(f) = r.entries[f]
    BY <1>5, <1>7
  <2>2. entry(f).print.content \in Version /\ entry(f).failures \in Nat
    BY <2>1, EntryTyped
  <2> QED
    BY <1>3, <1>7, <2>1, <2>2 DEF QuarantineInv, Earned
<1>8. ASSUME NEW f \in r.failed
      PROVE  Counts(tries[f][FailedAgain(entry(f), r.print[f]).print.content],
                    Unrecorded(run', f, FailedAgain(entry(f), r.print[f]).print.content),
                    FailedAgain(entry(f), r.print[f]).failures)
  <2> DEFINE new == FailedAgain(entry(f), r.print[f])
             v == r.print[f].content
  <2>1. f \in Files /\ r.print[f] \in Snapshot /\ v \in Version
    BY <1>1 DEF Shaped, RunType, Snapshot
  <2>2. /\ new \in Entry /\ new.print = r.print[f]
        /\ \/ new.failures <= 1
           \/ /\ entry(f) # None /\ entry(f).print = r.print[f]
              /\ new.failures <= entry(f).failures + 1
    <3>1. entry(f) \in Entry \cup {None}
      BY <1>5, <2>1
    <3> QED
      BY <2>1, <3>1, FailedAgainCounts
  <2>3. new.failures \in Nat
    BY <2>2, EntryTyped
  <2>4. tries[f][v] \in 0 .. Threshold
    BY <1>1, <2>1
  <2>5. p \in Unrecorded(run, f, v) /\ IsFiniteSet(Unrecorded(run, f, v))
    <3>1. IsFiniteSet(Unrecorded(run, f, v))
      BY UnrecordedFinite
    <3> QED
      BY <1>3, <3>1 DEF Unrecorded
  <2>6. Unrecorded(run', f, v) \subseteq Unrecorded(run, f, v) \ {p}
    BY <1>2, <1>3 DEF Unrecorded
  <2>7. Counts(tries[f][v], Unrecorded(run, f, v), 0)
    BY <2>1 DEF QuarantineInv, Earned
  <2> HIDE DEF new
  <2>8. CASE new.failures <= 1
    <3>1. new.failures <= 0 + 1
      BY <2>8
    <3> QED
      BY <2>2, <2>3, <2>4, <2>5, <2>6, <2>7, <3>1, CountsRecorded DEF new
  <2>9. CASE entry(f) # None /\ entry(f).print = r.print[f] /\ new.failures <= entry(f).failures + 1
    <3>1. entry(f).failures \in Nat
          /\ Counts(tries[f][v], Unrecorded(run, f, v), entry(f).failures)
      BY <1>7, <2>1, <2>9
    <3>2. Counts(tries[f][v], Unrecorded(run', f, v), new.failures)
      BY <2>3, <2>4, <2>5, <2>6, <2>9, <3>1, CountsRecorded
    <3> QED
      BY <2>2, <3>2 DEF new
  <2> QED
    BY <2>2, <2>8, <2>9
<1>9. \A f \in Files : quarantine'[f] # None =>
        \/ /\ quarantine[f] # None
           /\ quarantine'[f].print = quarantine[f].print
           /\ quarantine'[f].failures = quarantine[f].failures
        \/ Counts(tries'[f][quarantine'[f].print.content],
                  Unrecorded(run', f, quarantine'[f].print.content), quarantine'[f].failures)
  <2>1. CASE quarantine' = quarantine
    BY <2>1
  <2>2. ASSUME NEW f \in Files, quarantine'[f] # None, quarantine' # quarantine
        PROVE  Counts(tries'[f][quarantine'[f].print.content],
                      Unrecorded(run', f, quarantine'[f].print.content), quarantine'[f].failures)
    <3>1. CASE f \in r.failed
      <4>1. quarantine'[f] = FailedAgain(entry(f), r.print[f])
        BY <1>4, <2>2, <3>1
      <4> QED
        BY <1>2, <1>8, <3>1, <4>1
    <3>2. CASE f \notin r.failed
      <4>1. quarantine'[f] = entry(f)
        BY <1>4, <2>2, <3>2
      <4> QED
        BY <1>2, <1>6, <1>7, <2>2, <4>1, EarnedKept
    <3> QED
      BY <3>1, <3>2
  <2> QED
    BY <2>1, <2>2
<1> HIDE DEF r
<1> QED
  BY <1>2, <1>3, <1>6, <1>9, QuarantineKept

LEMMA OutsideQuarantine ==
  ASSUME ShapeInv, ShapeInv', QuarantineInv,
         (\E f \in Files : Edit(f) \/ CoolDown(f)) \/ UNCHANGED vars
  PROVE  QuarantineInv'
<1>1. run' = run /\ tries' = tries
  BY DEF Edit, CoolDown, vars
<1>2. TalliedStep
  BY <1>1 DEF TalliedStep, Tallied
<1>3. quarantine \in [Files -> Entry \cup {None}]
  BY DEF ShapeInv, TypeOK
<1>4. \A f \in Files : quarantine'[f] # None =>
        /\ quarantine[f] # None
        /\ quarantine'[f].print = quarantine[f].print
        /\ quarantine'[f].failures = quarantine[f].failures
  <2>1. CASE quarantine' = quarantine
    BY <2>1
  <2>2. ASSUME NEW f \in Files, CoolDown(f)
        PROVE  \A g \in Files : quarantine'[g] # None =>
                 /\ quarantine[g] # None
                 /\ quarantine'[g].print = quarantine[g].print
                 /\ quarantine'[g].failures = quarantine[g].failures
    <3>1. quarantine' = [quarantine EXCEPT ![f].recent = FALSE] /\ quarantine[f] # None
      BY <2>2 DEF CoolDown
    <3>2. quarantine[f] \in Entry
      BY <1>3, <3>1
    <3>3. quarantine'[f].print = quarantine[f].print /\ quarantine'[f].failures = quarantine[f].failures
      BY <1>3, <3>1, <3>2 DEF Entry
    <3>4. \A g \in Files : g # f => quarantine'[g] = quarantine[g]
      BY <1>3, <3>1
    <3> QED
      BY <3>1, <3>3, <3>4
  <2> QED
    BY <2>1, <2>2 DEF Edit, vars
<1> QED
  BY <1>1, <1>2, <1>4, QuarantineKept

LEMMA QuarantineStep == ShapeInv /\ QuarantineInv /\ [Next]_vars => QuarantineInv'
<1> SUFFICES ASSUME ShapeInv, QuarantineInv, [Next]_vars PROVE QuarantineInv'
  OBVIOUS
<1>0. ShapeInv'
  BY ShapeStep
<1>1. ASSUME NEW p \in Processes, Proceed(p) PROVE QuarantineInv'
  BY <1>0, <1>1, ScanQuarantine, ScanFailsQuarantine, InspectQuarantine, DiscoverQuarantine,
     ParseQuarantine, BatchQuarantine, BatchFailsQuarantine, SingleQuarantine,
     SingleFailsQuarantine, NextAgentQuarantine, LoadQuarantineQuarantine,
     SaveQuarantineQuarantine, ReadSequenceQuarantine, EndQuarantine DEF Proceed
<1> QED
  BY <1>0, <1>1, EndQuarantine, OutsideQuarantine DEF Next

LEMMA QuarantineInit == Init => QuarantineInv
<1> SUFFICES ASSUME Init PROVE QuarantineInv
  OBVIOUS
<1>1. ASSUME NEW f \in Files, NEW v \in Version PROVE Counts(tries[f][v], Unrecorded(run, f, v), 0)
  <2>1. Unrecorded(run, f, v) = {} /\ tries[f][v] = 0
    BY <1>1 DEF Init, IdleRun, Unrecorded
  <2> QED
    BY <2>1, FS_EmptySet DEF Counts
<1> QED
  BY <1>1 DEF Init, IdleRun, QuarantineInv, Earned

\* A fingerprint is put in quarantine only after that many attempts at it have
\* failed, although processes load and save the whole map and may overtake one
\* another or die in between.
THEOREM QuarantineEarnedAlways == Spec => []QuarantineEarned
<1>1. ASSUME ShapeInv, QuarantineInv PROVE QuarantineEarned
  <2> SUFFICES ASSUME NEW f \in Files, quarantine[f] # None
               PROVE  quarantine[f].failures <= tries[f][quarantine[f].print.content]
    BY DEF QuarantineEarned
  <2> DEFINE v == quarantine[f].print.content
  <2>1. quarantine[f] \in Entry /\ tries \in [Files -> [Version -> 0 .. Threshold]]
    BY <1>1 DEF ShapeInv, TypeOK
  <2>2. v \in Version /\ quarantine[f].failures \in Nat /\ quarantine[f].failures <= Threshold
    BY <2>1, EntryTyped
  <2>3. Counts(tries[f][v], Unrecorded(run, f, v), quarantine[f].failures)
    BY <1>1 DEF QuarantineInv, Earned
  <2>4. tries[f][v] \in Nat /\ Cardinality(Unrecorded(run, f, v)) \in Nat
    BY <2>1, <2>2, UnrecordedFinite, IngestAssumption
  <2> HIDE DEF v
  <2>5. quarantine[f].failures <= tries[f][v]
    BY <2>2, <2>3, <2>4 DEF Counts
  <2> QED
    BY <2>5 DEF v
<1>2. Spec => [](ShapeInv /\ QuarantineInv)
  BY ShapeInit, ShapeStep, QuarantineInit, QuarantineStep, PTL DEF Spec
<1> QED
  BY <1>1, <1>2, PTL
=============================================================================
