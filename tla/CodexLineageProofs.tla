-------------------------- MODULE CodexLineageProofs --------------------------
(***************************************************************************)
(* Theorems about CodexLineage for every set of rollouts and processes.    *)
(*                                                                         *)
(* What an entry of the cache answers is compared with a version that the  *)
(* archive reaches only later, and entries wait in a scan before they are  *)
(* saved.  The invariant is therefore about every entry, saved or not: it  *)
(* knows all that was spawned up to the version of its own fingerprint,    *)
(* the rollout has reached that version, and a spawn is dated by a version *)
(* that its rollout had not reached before.                                *)
(***************************************************************************)
EXTENDS CodexLineage, TLAPS

Children(spawns, r) == {c \in Rollouts : spawns[c] # None /\ spawns[c].by = r}

\* The rollout has reached the version of the fingerprint f.
Reached(files, r, f) == f # None => f.version <= files[r].version

\* What the entry e of rollout r says is true, and complete up to its version.
Covers(files, spawns, r, e) ==
  e # None =>
    /\ e.print.version <= files[r].version
    /\ e.edges \subseteq Children(spawns, r)
    /\ e.readable =>
         \A c \in Children(spawns, r) : spawns[c].at <= e.print.version => c \in e.edges

SpawnsDated(files, spawns) ==
  \A c \in Rollouts : spawns[c] # None => spawns[c].at <= files[spawns[c].by].version

CoverInv ==
  /\ TypeOK
  /\ SpawnsDated(rollout, spawn)
  /\ \A r \in Rollouts : Covers(rollout, spawn, r, cache[r]) /\ Reached(rollout, r, stored[r])
  /\ \A p \in Processes, r \in Rollouts :
       Covers(rollout, spawn, r, scan[p].cache[r]) /\ Reached(rollout, r, scan[p].known[r])

\* What the agent may do to the rollouts: they grow, and never come back once
\* they are gone, and what is spawned is dated by the new version.
Grows ==
  /\ \A r \in Rollouts : rollout[r].version <= rollout'[r].version
  /\ \A r \in Rollouts :
       \/ rollout'[r] = rollout[r]
       \/ /\ rollout'[r].there => rollout'[r].version > 0
          /\ rollout'[r].there => (rollout[r].there \/ rollout[r].version = 0)
  /\ \A c \in Rollouts :
       \/ spawn'[c] = spawn[c]
       \/ /\ spawn[c] = None /\ spawn'[c] # None
          /\ rollout[spawn'[c].by].version < spawn'[c].at
          /\ spawn'[c].at <= rollout'[spawn'[c].by].version

\* No entry loses what it covers while the agent writes.
LEMMA CoversKept ==
  ASSUME TypeOK, TypeOK', Grows, NEW r \in Rollouts, NEW e \in CacheEntry \cup {None},
         Covers(rollout, spawn, r, e)
  PROVE  Covers(rollout', spawn', r, e)
<1> SUFFICES ASSUME e # None PROVE Covers(rollout', spawn', r, e)
  BY DEF Covers
<1>1. e \in CacheEntry /\ e.print.version \in Nat
  BY DEF CacheEntry, Fingerprint, Version
<1>2. rollout[r].version \in Nat /\ rollout'[r].version \in Nat
  BY DEF TypeOK, Version
<1>3. e.print.version <= rollout'[r].version
  BY <1>1, <1>2 DEF Covers, Grows
<1>4. e.edges \subseteq Children(spawn', r)
  BY DEF Covers, Grows, Children
<1>5. ASSUME e.readable, NEW c \in Children(spawn', r), spawn'[c].at <= e.print.version
      PROVE  c \in e.edges
  <2>1. CASE spawn'[c] = spawn[c]
    BY <1>5, <2>1 DEF Covers, Children
  <2>2. CASE spawn'[c] # spawn[c]
    <3>1. spawn'[c].by = r /\ rollout[r].version < spawn'[c].at /\ spawn'[c] # None /\ c \in Rollouts
      BY <1>5, <2>2 DEF Grows, Children
    <3>2. spawn'[c].at \in Nat
      BY <3>1 DEF TypeOK, Version
    <3> QED
      BY <1>1, <1>2, <1>5, <3>1, <3>2 DEF Covers
  <2> QED
    BY <2>1, <2>2
<1> QED
  BY <1>3, <1>4, <1>5 DEF Covers

\* Nor do the versions that were reached.
LEMMA ReachedKept ==
  ASSUME TypeOK, TypeOK', Grows, NEW r \in Rollouts, NEW f \in Fingerprint \cup {None},
         Reached(rollout, r, f)
  PROVE  Reached(rollout', r, f)
<1>1. f # None => f.version \in Nat
  BY DEF Fingerprint, Version
<1>2. rollout[r].version \in Nat /\ rollout'[r].version \in Nat
  BY DEF TypeOK, Version
<1> QED
  BY <1>1, <1>2 DEF Reached, Grows

LEMMA DatedKept ==
  ASSUME TypeOK, TypeOK', Grows, SpawnsDated(rollout, spawn)
  PROVE  SpawnsDated(rollout', spawn')
<1> SUFFICES ASSUME NEW c \in Rollouts, spawn'[c] # None
             PROVE  spawn'[c].at <= rollout'[spawn'[c].by].version
  BY DEF SpawnsDated
<1>1. CASE spawn'[c] = spawn[c]
  <2>1. spawn[c].by \in Rollouts /\ spawn[c].at \in Nat
    BY <1>1 DEF TypeOK, Version
  <2>2. rollout[spawn[c].by].version \in Nat /\ rollout'[spawn[c].by].version \in Nat
    BY <2>1 DEF TypeOK, Version
  <2> QED
    BY <1>1, <2>1, <2>2 DEF SpawnsDated, Grows
<1>2. CASE spawn'[c] # spawn[c]
  BY <1>2 DEF Grows
<1> QED
  BY <1>1, <1>2

\* Everything the agent does keeps the invariant.
LEMMA AgentKeeps ==
  ASSUME CoverInv, TypeOK', Grows, UNCHANGED <<cache, stored, scan>>
  PROVE  CoverInv'
<1>1. SpawnsDated(rollout', spawn')
  BY DatedKept DEF CoverInv
<1>2. ASSUME NEW r \in Rollouts
      PROVE  Covers(rollout', spawn', r, cache'[r]) /\ Reached(rollout', r, stored'[r])
  <2>1. cache[r] \in CacheEntry \cup {None} /\ stored[r] \in Fingerprint \cup {None}
    BY DEF CoverInv, TypeOK
  <2>2. Covers(rollout, spawn, r, cache[r]) /\ Reached(rollout, r, stored[r]) /\ TypeOK
    BY DEF CoverInv
  <2> QED
    BY <2>1, <2>2, CoversKept, ReachedKept
<1>3. ASSUME NEW p \in Processes, NEW r \in Rollouts
      PROVE  Covers(rollout', spawn', r, scan'[p].cache[r]) /\ Reached(rollout', r, scan'[p].known[r])
  <2>1. scan[p].cache[r] \in CacheEntry \cup {None} /\ scan[p].known[r] \in Fingerprint \cup {None}
    BY DEF CoverInv, TypeOK, ScanType
  <2>2. Covers(rollout, spawn, r, scan[p].cache[r]) /\ Reached(rollout, r, scan[p].known[r]) /\ TypeOK
    BY DEF CoverInv
  <2> QED
    BY <2>1, <2>2, CoversKept, ReachedKept
<1> QED
  BY <1>1, <1>2, <1>3 DEF CoverInv

LEMMA BeginGrows ==
  ASSUME CoverInv, NEW r \in Rollouts, Begin(r)
  PROVE  TypeOK' /\ Grows
<1>1. [version |-> 1, there |-> TRUE, broken |-> FALSE]
        \in [version : Version, there : BOOLEAN, broken : BOOLEAN]
  BY CodexAssumption DEF Begin, Version
<1>2. TypeOK'
  BY <1>1 DEF CoverInv, TypeOK, Begin
<1>3. Grows
  BY DEF CoverInv, TypeOK, Begin, Grows, Version
<1> QED
  BY <1>2, <1>3

\* The rollout that an append leaves.
LEMMA GrownFields ==
  ASSUME TypeOK, NEW r \in Rollouts, MayGrow(r)
  PROVE  /\ Grown(r) \in [Rollouts -> [version : Version, there : BOOLEAN, broken : BOOLEAN]]
         /\ Grown(r)[r].version = rollout[r].version + 1
         /\ Grown(r)[r].there
         /\ Grown(r)[r].broken = rollout[r].broken
         /\ \A q \in Rollouts \ {r} : Grown(r)[q] = rollout[q]
<1>1. rollout[r].version + 1 \in Version
  BY CodexAssumption DEF TypeOK, MayGrow, Version
<1>2. Grown(r) = [rollout EXCEPT ![r] = [rollout[r] EXCEPT !.version = rollout[r].version + 1]]
  BY DEF TypeOK, Grown
<1>3. [rollout[r] EXCEPT !.version = rollout[r].version + 1]
        = [version |-> rollout[r].version + 1, there |-> rollout[r].there, broken |-> rollout[r].broken]
  BY DEF TypeOK
<1>4. rollout[r].there \in BOOLEAN /\ rollout[r].broken \in BOOLEAN
  BY DEF TypeOK
<1> QED
  BY <1>1, <1>2, <1>3, <1>4 DEF TypeOK, MayGrow

LEMMA SpawnAgentGrows ==
  ASSUME CoverInv, NEW r \in Rollouts, NEW c \in Rollouts, SpawnAgent(r, c)
  PROVE  TypeOK' /\ Grows
<1>1. TypeOK /\ MayGrow(r)
  BY DEF CoverInv, SpawnAgent
<1>2. rollout[r].version \in Nat /\ rollout[r].version + 1 \in Version
  BY <1>1, CodexAssumption DEF TypeOK, MayGrow, Version
<1>3. TypeOK'
  BY <1>1, <1>2, GrownFields DEF TypeOK, SpawnAgent
<1>4. \A q \in Rollouts : rollout[q].version <= rollout'[q].version
  <2>1. rollout'[r].version = rollout[r].version + 1
    BY <1>1, GrownFields DEF SpawnAgent
  <2>2. \A q \in Rollouts \ {r} : rollout'[q] = rollout[q]
    BY <1>1, GrownFields DEF SpawnAgent
  <2>3. \A q \in Rollouts : rollout[q].version \in Nat
    BY <1>1 DEF TypeOK, Version
  <2> QED
    BY <1>2, <2>1, <2>2, <2>3
<1>5. spawn'[c] = [by |-> r, at |-> rollout[r].version + 1] /\ spawn[c] = None
      /\ \A d \in Rollouts \ {c} : spawn'[d] = spawn[d]
  BY <1>1 DEF TypeOK, SpawnAgent
<1>6. spawn'[c] # spawn[c] =>
        /\ spawn'[c] # None
        /\ rollout[spawn'[c].by].version < spawn'[c].at
        /\ spawn'[c].at <= rollout'[spawn'[c].by].version
  BY <1>1, <1>2, <1>5, GrownFields DEF SpawnAgent
<1>7. /\ rollout[r].there /\ rollout'[r].version > 0
      /\ \A q \in Rollouts \ {r} : rollout'[q] = rollout[q]
  BY <1>1, <1>2, GrownFields DEF SpawnAgent, MayGrow
<1>8. \A q \in Rollouts :
       \/ rollout'[q] = rollout[q]
       \/ /\ rollout'[q].there => rollout'[q].version > 0
          /\ rollout'[q].there => (rollout[q].there \/ rollout[q].version = 0)
  BY <1>7
<1>9. Grows
  BY <1>4, <1>5, <1>6, <1>8 DEF Grows
<1> QED
  BY <1>3, <1>9

\* A file whose mark is set, or that is gone, has the fields it had.
LEMMA MarkedFields ==
  ASSUME NEW f \in [version : Version, there : BOOLEAN, broken : BOOLEAN], NEW x \in BOOLEAN
  PROVE  /\ [f EXCEPT !.broken = x] = [version |-> f.version, there |-> f.there, broken |-> x]
         /\ [f EXCEPT !.there = x] = [version |-> f.version, there |-> x, broken |-> f.broken]
<1>1. f = [version |-> f.version, there |-> f.there, broken |-> f.broken]
  OBVIOUS
<1> QED
  BY <1>1

LEMMA MalformedGrows ==
  ASSUME CoverInv, NEW r \in Rollouts, WriteMalformed(r)
  PROVE  TypeOK' /\ Grows
<1>1. TypeOK /\ MayGrow(r)
  BY DEF CoverInv, WriteMalformed
<1>2. rollout' = [Grown(r) EXCEPT ![r] = [Grown(r)[r] EXCEPT !.broken = TRUE]]
  BY <1>1, GrownFields DEF WriteMalformed
<1>3. Grown(r)[r] \in [version : Version, there : BOOLEAN, broken : BOOLEAN]
  BY <1>1, GrownFields
<1>4. rollout[r].version + 1 \in Version /\ rollout[r].version \in Nat /\ Grown(r)[r].there \in BOOLEAN
  BY <1>1, GrownFields, CodexAssumption DEF TypeOK, MayGrow, Version
<1>5. [Grown(r)[r] EXCEPT !.broken = TRUE]
        = [version |-> rollout[r].version + 1, there |-> Grown(r)[r].there, broken |-> TRUE]
  BY <1>1, <1>3, MarkedFields, GrownFields
<1>6. [Grown(r)[r] EXCEPT !.broken = TRUE] \in [version : Version, there : BOOLEAN, broken : BOOLEAN]
  BY <1>4, <1>5
<1>7. rollout' \in [Rollouts -> [version : Version, there : BOOLEAN, broken : BOOLEAN]]
  BY <1>1, <1>2, <1>6, GrownFields
<1>8. TypeOK'
  BY <1>1, <1>7 DEF TypeOK, WriteMalformed
<1>9. Grows
  <2>1. rollout'[r].version = rollout[r].version + 1
    BY <1>1, <1>2, <1>5, GrownFields
  <2>2. \A q \in Rollouts \ {r} : rollout'[q] = rollout[q]
    BY <1>1, <1>2, GrownFields
  <2>3. \A q \in Rollouts :
         \/ rollout'[q] = rollout[q]
         \/ /\ rollout'[q].there => rollout'[q].version > 0
            /\ rollout'[q].there => (rollout[q].there \/ rollout[q].version = 0)
    BY <1>1, <1>4, <2>1, <2>2 DEF MayGrow
  <2>4. \A q \in Rollouts : rollout[q].version <= rollout'[q].version
    BY <1>1, <1>4, <2>1, <2>2 DEF TypeOK, Version
  <2> QED
    BY <2>3, <2>4 DEF WriteMalformed, Grows
<1> QED
  BY <1>8, <1>9

LEMMA DeleteGrows ==
  ASSUME CoverInv, NEW r \in Rollouts, Delete(r)
  PROVE  TypeOK' /\ Grows
<1>1. rollout' = [rollout EXCEPT ![r] = [rollout[r] EXCEPT !.there = FALSE]]
  BY DEF CoverInv, TypeOK, Delete
<1>2. [rollout[r] EXCEPT !.there = FALSE]
        = [version |-> rollout[r].version, there |-> FALSE, broken |-> rollout[r].broken]
  BY MarkedFields DEF CoverInv, TypeOK
<1>3. rollout[r].version \in Version /\ rollout[r].broken \in BOOLEAN
  BY DEF CoverInv, TypeOK
<1>4. TypeOK'
  BY <1>1, <1>2, <1>3 DEF CoverInv, TypeOK, Delete
<1>5. Grows
  BY <1>1, <1>2, <1>3 DEF CoverInv, TypeOK, Delete, Grows, Version
<1> QED
  BY <1>4, <1>5


(***************************************************************************)
(* The steps of a scan                                                     *)
(***************************************************************************)
\* A step of p's scan keeps the invariant if what it writes obeys it.
LEMMA ScanKeeps ==
  ASSUME CoverInv, TypeOK', UNCHANGED <<rollout, spawn>>, NEW p \in Processes,
         \A o \in Processes \ {p} : scan'[o] = scan[o],
         \A r \in Rollouts :
           /\ Covers(rollout, spawn, r, cache'[r])
           /\ Reached(rollout, r, stored'[r])
           /\ Covers(rollout, spawn, r, scan'[p].cache[r])
           /\ Reached(rollout, r, scan'[p].known[r])
  PROVE  CoverInv'
<1>1. SpawnsDated(rollout', spawn')
  BY DEF CoverInv
<1>2. \A r \in Rollouts : Covers(rollout', spawn', r, cache'[r]) /\ Reached(rollout', r, stored'[r])
  OBVIOUS
<1>3. ASSUME NEW o \in Processes, NEW r \in Rollouts
      PROVE  Covers(rollout', spawn', r, scan'[o].cache[r]) /\ Reached(rollout', r, scan'[o].known[r])
  <2>1. CASE o = p
    BY <2>1
  <2>2. CASE o # p
    BY <2>2 DEF CoverInv
  <2> QED
    BY <2>1, <2>2
<1> QED
  BY <1>1, <1>2, <1>3 DEF CoverInv

\* No entry and no fingerprint promise nothing.
LEMMA NothingCovers ==
  \A r \in Rollouts : Covers(rollout, spawn, r, Nothing[r]) /\ Reached(rollout, r, Nothing[r])
  BY DEF Nothing, Covers, Reached

LEMMA IdleTyped == IdleScan \in ScanType
  BY DEF IdleScan, ScanType, Nothing

LEMMA LoadHintsKeeps ==
  ASSUME CoverInv, NEW p \in Processes, LoadHints(p)
  PROVE  CoverInv'
<1> DEFINE s == [IdleScan EXCEPT !.at = "lineage", !.known = stored, !.cache = cache]
<1>1. s = [IdleScan EXCEPT !.at = "lineage", !.known = stored, !.cache = cache]
  OBVIOUS
<1>2. s \in ScanType
  <2>1. stored \in [Rollouts -> Fingerprint \cup {None}] /\ cache \in [Rollouts -> CacheEntry \cup {None}]
    BY DEF CoverInv, TypeOK
  <2> HIDE DEF s
  <2> QED
    BY <1>1, <2>1, IdleTyped DEF ScanType
<1>3. scan' = [scan EXCEPT ![p] = s]
  BY DEF LoadHints
<1> HIDE DEF s
<1>4. TypeOK'
  BY <1>2, <1>3 DEF CoverInv, TypeOK, LoadHints
<1>5. scan'[p] = s /\ \A o \in Processes \ {p} : scan'[o] = scan[o]
  BY <1>3 DEF CoverInv, TypeOK
<1>6. s.known = stored /\ s.cache = cache
  BY <1>1, IdleTyped DEF ScanType
<1>7. \A r \in Rollouts :
           /\ Covers(rollout, spawn, r, cache'[r])
           /\ Reached(rollout, r, stored'[r])
           /\ Covers(rollout, spawn, r, scan'[p].cache[r])
           /\ Reached(rollout, r, scan'[p].known[r])
  BY <1>5, <1>6 DEF CoverInv, LoadHints
<1> QED
  BY <1>4, <1>5, <1>7, ScanKeeps DEF LoadHints

\* What the pre-pass leaves in the scan.  An entry is the one that was there,
\* under the fingerprint looked for, or it was read from the file as it is.
Fresh(p, r, e) ==
  /\ e \in CacheEntry
  /\ \/ e = scan[p].cache[r]
     \/ /\ e.print = IF scan[p].known[r] # None THEN scan[p].known[r]
                     ELSE [version |-> rollout[r].version, parent |-> None]
        /\ e.edges = IF e.readable THEN SpawnedBy(r) ELSE {}

Names(live, entries, r, c) ==
  /\ {r, c} \subseteq live
  /\ entries[r].readable /\ entries[c].readable
  /\ c \in entries[r].edges

\* The edges that name a child, and the child's mark: some rollout that names it.
LEMMA MarksNamed ==
  ASSUME NEW live \in SUBSET Rollouts, NEW entries,
         NEW named, named = {r \in live : entries[r].readable},
         NEW lineage,
         lineage = [c \in Rollouts |->
            IF c \in named /\ {r \in named : c \in entries[r].edges} # {}
            THEN CHOOSE r \in {r \in named : c \in entries[r].edges} : TRUE ELSE None]
  PROVE  \A c \in Rollouts :
           /\ lineage[c] \in Rollouts => Names(live, entries, lineage[c], c)
           /\ lineage[c] \notin Rollouts =>
                /\ lineage[c] = None
                /\ \A r \in Rollouts : ~Names(live, entries, r, c)
<1> SUFFICES ASSUME NEW c \in Rollouts
             PROVE  /\ lineage[c] \in Rollouts => Names(live, entries, lineage[c], c)
                    /\ lineage[c] \notin Rollouts =>
                         /\ lineage[c] = None
                         /\ \A r \in Rollouts : ~Names(live, entries, r, c)
  BY Zenon
<1>1. \A r \in Rollouts : Names(live, entries, r, c)
                            <=> (c \in named /\ r \in {q \in named : c \in entries[q].edges})
  BY DEF Names
<1>2. CASE c \in named /\ {r \in named : c \in entries[r].edges} # {}
  <2>1. lineage[c] = CHOOSE r \in {r \in named : c \in entries[r].edges} : TRUE
    BY <1>2, Zenon
  <2>2. lineage[c] \in {r \in named : c \in entries[r].edges}
    BY <1>2, <2>1, Zenon
  <2>3. lineage[c] \in Rollouts
    BY <2>2
  <2> QED
    BY <1>1, <1>2, <2>2, <2>3
<1>3. CASE ~(c \in named /\ {r \in named : c \in entries[r].edges} # {})
  <2>1. lineage[c] = None
    BY <1>3, Zenon
  <2> QED
    BY <1>1, <1>3, <2>1, CodexAssumption
<1> QED
  BY <1>2, <1>3

\* An entry that BuildLineage leaves.
LEMMA EntryFresh ==
  ASSUME TypeOK, NEW p \in Processes, NEW r \in Rollouts, NEW print, NEW readable \in BOOLEAN,
         print = IF scan[p].known[r] # None THEN scan[p].known[r]
                 ELSE [version |-> rollout[r].version, parent |-> None]
  PROVE  Fresh(p, r, Entry(scan[p].cache[r], print, r, readable))
<1> DEFINE e == Entry(scan[p].cache[r], print, r, readable)
<1>1. scan[p] \in ScanType
  BY DEF TypeOK
<1>2. print \in Fingerprint
  <2>1. scan[p].known[r] \in Fingerprint \cup {None} /\ rollout[r].version \in Version
    BY <1>1 DEF TypeOK, ScanType
  <2> QED
    BY <2>1 DEF Fingerprint
<1>3. scan[p].cache[r] \in CacheEntry \cup {None}
  BY <1>1 DEF ScanType
<1>4. CASE scan[p].cache[r] # None /\ scan[p].cache[r].print = print
  BY <1>3, <1>4 DEF Entry, Fresh
<1>5. CASE ~(scan[p].cache[r] # None /\ scan[p].cache[r].print = print)
  <2>1. e = ReadEntry(print, r, readable)
    BY <1>5 DEF Entry
  <2>2. SpawnedBy(r) \subseteq Rollouts
    BY DEF SpawnedBy
  <2>3. ReadEntry(print, r, readable) \in CacheEntry
    BY <1>2, <2>2 DEF ReadEntry, CacheEntry
  <2>4. /\ ReadEntry(print, r, readable).print = print
        /\ ReadEntry(print, r, readable).edges = IF readable THEN SpawnedBy(r) ELSE {}
        /\ ReadEntry(print, r, readable).readable = readable
    BY DEF ReadEntry
  <2> HIDE DEF e
  <2> QED
    BY <2>1, <2>3, <2>4 DEF Fresh, e
<1> QED
  BY <1>4, <1>5

\* The step, with what it writes named.
LEMMA BuildSplit ==
  ASSUME TypeOK, NEW p \in Processes, BuildLineage(p)
  PROVE  \E live \in SUBSET Rollouts,
            entries \in [Rollouts -> CacheEntry \cup {None}],
            lineage \in [Rollouts -> Rollouts \cup {None}] :
           /\ live = {r \in Rollouts : rollout[r].there}
           /\ scan' = [scan EXCEPT ![p].at = "candidates", ![p].paths = live,
                                   ![p].cache = entries, ![p].lineage = lineage]
           /\ \A r \in live : Fresh(p, r, entries[r])
           /\ \A r \in Rollouts \ live : entries[r] = None
           /\ \A c \in Rollouts :
              /\ lineage[c] \in Rollouts => Names(live, entries, lineage[c], c)
              /\ lineage[c] \notin Rollouts =>
                   /\ lineage[c] = None
                   /\ \A r \in Rollouts : ~Names(live, entries, r, c)
<1> DEFINE live     == {r \in Rollouts : rollout[r].there}
           print(r) == IF scan[p].known[r] # None THEN scan[p].known[r]
                       ELSE [version |-> rollout[r].version, parent |-> None]
           fresh(lost) == [r \in Rollouts |-> IF r \in live
                             THEN Entry(scan[p].cache[r], print(r), r, r \notin lost) ELSE None]
           named(lost) == {r \in live : fresh(lost)[r].readable}
           parent(lost, c) == {r \in named(lost) : c \in fresh(lost)[r].edges}
           lineage(lost) == [c \in Rollouts |->
                IF c \in named(lost) /\ parent(lost, c) # {}
                THEN CHOOSE r \in parent(lost, c) : TRUE ELSE None]
<1>1. PICK lost \in SUBSET live :
        scan' = [scan EXCEPT
             ![p].at = "candidates",
             ![p].paths = live,
             ![p].cache = [r \in Rollouts |-> IF r \in live THEN fresh(lost)[r] ELSE None],
             ![p].lineage = lineage(lost)]
  BY Zenon DEF BuildLineage, LiveEntries
<1>2. \A r \in Rollouts \ live : fresh(lost)[r] = None
  BY Zenon
<1>3. \A r \in live : Fresh(p, r, fresh(lost)[r])
  <2> SUFFICES ASSUME NEW r \in live PROVE Fresh(p, r, fresh(lost)[r])
    BY Zenon
  <2>1. fresh(lost)[r] = Entry(scan[p].cache[r], print(r), r, r \notin lost)
    BY Zenon
  <2>2. (r \notin lost) \in BOOLEAN /\ r \in Rollouts
    BY Zenon
  <2>3. Fresh(p, r, Entry(scan[p].cache[r], print(r), r, r \notin lost))
    BY <2>2, EntryFresh, Zenon
  <2> QED
    BY <2>1, <2>3, Zenon
<1>4. fresh(lost) = [r \in Rollouts |-> IF r \in live THEN fresh(lost)[r] ELSE None]
  BY Zenon
<1>5. live \in SUBSET Rollouts
  BY Zenon
<1>6. named(lost) = {r \in live : fresh(lost)[r].readable}
  BY Zenon
<1>7. lineage(lost) = [c \in Rollouts |->
            IF c \in named(lost) /\ {r \in named(lost) : c \in fresh(lost)[r].edges} # {}
            THEN CHOOSE r \in {r \in named(lost) : c \in fresh(lost)[r].edges} : TRUE ELSE None]
  BY Zenon
<1>8. \A c \in Rollouts :
         /\ lineage(lost)[c] \in Rollouts => Names(live, fresh(lost), lineage(lost)[c], c)
         /\ lineage(lost)[c] \notin Rollouts =>
              /\ lineage(lost)[c] = None
              /\ \A r \in Rollouts : ~Names(live, fresh(lost), r, c)
  <2> HIDE DEF live, fresh, named, lineage
  <2> QED
    BY <1>5, <1>6, <1>7, MarksNamed, Zenon
<1>9. lineage(lost) \in [Rollouts -> Rollouts \cup {None}]
  <2>1. \A c \in Rollouts : lineage(lost)[c] \in Rollouts \cup {None}
    <3> HIDE DEF live, fresh, named, lineage
    <3> QED
      BY <1>8, Zenon
  <2> QED
    BY <2>1, Zenon
<1>10. fresh(lost) \in [Rollouts -> CacheEntry \cup {None}]
  <2>1. \A r \in Rollouts : fresh(lost)[r] \in CacheEntry \cup {None}
    <3> HIDE DEF live, fresh
    <3> QED
      BY <1>2, <1>3, Zenon DEF Fresh
  <2> QED
    BY <2>1, Zenon
<1>11. scan' = [scan EXCEPT ![p].at = "candidates", ![p].paths = live,
                            ![p].cache = fresh(lost), ![p].lineage = lineage(lost)]
  BY <1>1, <1>4, Zenon
<1>12. live = {r \in Rollouts : rollout[r].there}
  BY Zenon
<1> HIDE DEF live, fresh, named, lineage
<1> QED
  BY <1>2, <1>3, <1>5, <1>8, <1>9, <1>10, <1>11, <1>12, Zenon

LEMMA BuildFields ==
  ASSUME TypeOK, NEW p \in Processes, BuildLineage(p)
  PROVE  /\ scan'[p].at = "candidates"
         /\ scan'[p].known = scan[p].known
         /\ scan'[p].print = scan[p].print
         /\ scan'[p].pending = scan[p].pending
         /\ scan'[p].paths = {r \in Rollouts : rollout[r].there}
         /\ \A r \in scan'[p].paths : Fresh(p, r, scan'[p].cache[r])
         /\ \A r \in Rollouts \ scan'[p].paths : scan'[p].cache[r] = None
         /\ \A c \in Rollouts :
              /\ scan'[p].lineage[c] \in Rollouts =>
                   Names(scan'[p].paths, scan'[p].cache, scan'[p].lineage[c], c)
              /\ scan'[p].lineage[c] \notin Rollouts =>
                   /\ scan'[p].lineage[c] = None
                   /\ \A r \in Rollouts : ~Names(scan'[p].paths, scan'[p].cache, r, c)
         /\ \A o \in Processes \ {p} : scan'[o] = scan[o]
         /\ scan' \in [Processes -> ScanType]
         /\ faults' \in 0 .. MaxFaults
<1>1. PICK live \in SUBSET Rollouts,
            entries \in [Rollouts -> CacheEntry \cup {None}],
            lineage \in [Rollouts -> Rollouts \cup {None}] :
           /\ live = {r \in Rollouts : rollout[r].there}
           /\ scan' = [scan EXCEPT ![p].at = "candidates", ![p].paths = live,
                                   ![p].cache = entries, ![p].lineage = lineage]
           /\ \A r \in live : Fresh(p, r, entries[r])
           /\ \A r \in Rollouts \ live : entries[r] = None
           /\ \A c \in Rollouts :
              /\ lineage[c] \in Rollouts => Names(live, entries, lineage[c], c)
              /\ lineage[c] \notin Rollouts =>
                   /\ lineage[c] = None
                   /\ \A r \in Rollouts : ~Names(live, entries, r, c)
  BY BuildSplit, Zenon
<1>2. scan \in [Processes -> ScanType] /\ scan[p] \in ScanType
  BY DEF TypeOK
<1>3. /\ scan'[p] = [scan[p] EXCEPT !.at = "candidates", !.paths = live,
                                    !.cache = entries, !.lineage = lineage]
      /\ \A o \in Processes \ {p} : scan'[o] = scan[o]
      /\ scan' = [q \in Processes |-> scan'[q]]
  <2>1. scan' = [scan EXCEPT ![p].at = "candidates", ![p].paths = live,
                             ![p].cache = entries, ![p].lineage = lineage]
    BY <1>1, Zenon
  <2> QED
    BY <1>2, <2>1
<1>4. /\ scan'[p].at = "candidates" /\ scan'[p].known = scan[p].known
      /\ scan'[p].print = scan[p].print /\ scan'[p].pending = scan[p].pending
      /\ scan'[p].paths = live /\ scan'[p].cache = entries /\ scan'[p].lineage = lineage
  BY <1>2, <1>3 DEF ScanType
<1>5. entries \in [Rollouts -> CacheEntry \cup {None}] /\ lineage \in [Rollouts -> Rollouts \cup {None}]
  BY <1>1, Zenon
<1>7. scan' \in [Processes -> ScanType]
  <2>1. scan'[p] \in ScanType
    BY <1>2, <1>3, <1>5 DEF ScanType
  <2> QED
    BY <1>2, <1>3, <2>1
<1>8. faults' \in 0 .. MaxFaults
  <2>1. faults' = faults \/ (faults' = faults + 1 /\ faults < MaxFaults)
    BY Zenon DEF BuildLineage
  <2> QED
    BY <2>1, CodexAssumption DEF TypeOK
<1>9. /\ scan'[p].paths = {r \in Rollouts : rollout[r].there}
      /\ \A r \in scan'[p].paths : Fresh(p, r, scan'[p].cache[r])
      /\ \A r \in Rollouts \ scan'[p].paths : scan'[p].cache[r] = None
  BY <1>1, <1>4, Zenon
<1>10. \A c \in Rollouts :
         /\ scan'[p].lineage[c] \in Rollouts =>
              Names(scan'[p].paths, scan'[p].cache, scan'[p].lineage[c], c)
         /\ scan'[p].lineage[c] \notin Rollouts =>
              /\ scan'[p].lineage[c] = None
              /\ \A r \in Rollouts : ~Names(scan'[p].paths, scan'[p].cache, r, c)
  <2>1. \A c \in Rollouts :
              /\ lineage[c] \in Rollouts => Names(live, entries, lineage[c], c)
              /\ lineage[c] \notin Rollouts =>
                   /\ lineage[c] = None
                   /\ \A r \in Rollouts : ~Names(live, entries, r, c)
    BY <1>1, Zenon
  <2>2. live = scan'[p].paths /\ entries = scan'[p].cache /\ lineage = scan'[p].lineage
    BY <1>4, Zenon
  <2> QED
    BY <2>1, <2>2, Zenon
<1>11. /\ scan'[p].at = "candidates" /\ scan'[p].known = scan[p].known
       /\ scan'[p].print = scan[p].print /\ scan'[p].pending = scan[p].pending
  BY <1>4, Zenon
<1>12. \A o \in Processes \ {p} : scan'[o] = scan[o]
  BY <1>3, Zenon
<1> QED
  BY <1>7, <1>8, <1>9, <1>10, <1>11, <1>12, Zenon

\* An entry that the pre-pass leaves covers the rollout as it is.
LEMMA FreshCovers ==
  ASSUME CoverInv, NEW p \in Processes, NEW r \in Rollouts, NEW e, Fresh(p, r, e)
  PROVE  Covers(rollout, spawn, r, e)
<1>1. CASE e = scan[p].cache[r]
  BY <1>1 DEF CoverInv
<1>2. CASE e # scan[p].cache[r]
  <2>1. /\ e.print = IF scan[p].known[r] # None THEN scan[p].known[r]
                     ELSE [version |-> rollout[r].version, parent |-> None]
        /\ e.edges = IF e.readable THEN SpawnedBy(r) ELSE {}
    BY <1>2 DEF Fresh
  <2>2. rollout[r].version \in Nat
    BY DEF CoverInv, TypeOK, Version
  <2>3. e.print.version <= rollout[r].version
    BY <2>1, <2>2 DEF CoverInv, Reached
  <2>4. SpawnedBy(r) = Children(spawn, r)
    BY DEF SpawnedBy, Children
  <2> QED
    BY <2>1, <2>3, <2>4 DEF Covers
<1> QED
  BY <1>1, <1>2

LEMMA BuildLineageKeeps ==
  ASSUME CoverInv, NEW p \in Processes, BuildLineage(p)
  PROVE  CoverInv'
<1>1. TypeOK
  BY DEF CoverInv
<1>2. UNCHANGED <<rollout, spawn, cache, stored>>
  BY Zenon DEF BuildLineage
<1>3. scan' \in [Processes -> ScanType] /\ faults' \in 0 .. MaxFaults
  BY <1>1, BuildFields
<1>4. TypeOK'
  BY <1>1, <1>2, <1>3 DEF TypeOK
<1>5. \A o \in Processes \ {p} : scan'[o] = scan[o]
  BY <1>1, BuildFields
<1>6. scan'[p].known = scan[p].known
  BY <1>1, BuildFields
<1>7. \A r \in Rollouts : Covers(rollout, spawn, r, scan'[p].cache[r])
  <2> TAKE r \in Rollouts
  <2>1. CASE r \in scan'[p].paths
    BY <1>1, <2>1, BuildFields, FreshCovers
  <2>2. CASE r \notin scan'[p].paths
    <3>1. scan'[p].cache[r] = None
      BY <1>1, <2>2, BuildFields
    <3> QED
      BY <3>1 DEF Covers
  <2> QED
    BY <2>1, <2>2
<1>8. \A r \in Rollouts :
           /\ Covers(rollout, spawn, r, cache'[r])
           /\ Reached(rollout, r, stored'[r])
           /\ Covers(rollout, spawn, r, scan'[p].cache[r])
           /\ Reached(rollout, r, scan'[p].known[r])
  BY <1>2, <1>6, <1>7 DEF CoverInv
<1> QED
  BY <1>2, <1>4, <1>5, <1>8, ScanKeeps

\* What the loop over the paths leaves in the scan.
LEMMA DiscoverFields ==
  ASSUME TypeOK, NEW p \in Processes, Discover(p)
  PROVE  /\ scan'[p].at = "save"
         /\ scan'[p].known = scan[p].known /\ scan'[p].cache = scan[p].cache
         /\ scan'[p].paths = scan[p].paths /\ scan'[p].lineage = scan[p].lineage
         /\ \A r \in Rollouts : scan'[p].print[r] =
              IF r \in scan[p].paths /\ rollout[r].there THEN CandidatePrint(p, r) ELSE None
         /\ scan'[p].pending =
              {r \in scan[p].paths : rollout[r].there /\ scan[p].known[r] # CandidatePrint(p, r)}
         /\ \A o \in Processes \ {p} : scan'[o] = scan[o]
         /\ scan' \in [Processes -> ScanType]
<1> DEFINE here    == {r \in scan[p].paths : rollout[r].there}
           pending == {r \in here : scan[p].known[r] # CandidatePrint(p, r)}
           print   == [r \in Rollouts |-> IF r \in here THEN CandidatePrint(p, r) ELSE None]
<1>1. scan \in [Processes -> ScanType] /\ scan[p] \in ScanType
  BY DEF TypeOK
<1>2. scan' = [scan EXCEPT ![p].at = "save", ![p].print = print, ![p].pending = pending]
  BY Zenon DEF Discover
<1>3. /\ scan'[p] = [scan[p] EXCEPT !.at = "save", !.print = print, !.pending = pending]
      /\ \A o \in Processes \ {p} : scan'[o] = scan[o]
      /\ scan' = [q \in Processes |-> scan'[q]]
  <2> HIDE DEF print, pending
  <2> QED
    BY <1>1, <1>2
<1>4. \A r \in Rollouts : CandidatePrint(p, r) \in Fingerprint
  BY <1>1 DEF TypeOK, ScanType, CandidatePrint, Fingerprint
<1>5. print \in [Rollouts -> Fingerprint \cup {None}] /\ pending \in SUBSET Rollouts
  BY <1>1, <1>4 DEF ScanType
<1>6. /\ scan'[p].at = "save"
      /\ scan'[p].known = scan[p].known /\ scan'[p].cache = scan[p].cache
      /\ scan'[p].paths = scan[p].paths /\ scan'[p].lineage = scan[p].lineage
      /\ scan'[p].print = print /\ scan'[p].pending = pending
  <2> HIDE DEF print, pending
  <2> QED
    BY <1>1, <1>3 DEF ScanType
<1>7. scan' \in [Processes -> ScanType]
  <2> HIDE DEF print, pending
  <2>1. scan'[p] \in ScanType
    BY <1>1, <1>3, <1>5 DEF ScanType
  <2> QED
    BY <1>1, <1>3, <2>1
<1>8. \A r \in Rollouts : print[r] =
              IF r \in scan[p].paths /\ rollout[r].there THEN CandidatePrint(p, r) ELSE None
  OBVIOUS
<1>9. pending = {r \in scan[p].paths : rollout[r].there /\ scan[p].known[r] # CandidatePrint(p, r)}
  OBVIOUS
<1> HIDE DEF print, pending
<1> QED
  BY <1>3, <1>6, <1>7, <1>8, <1>9

LEMMA DiscoverKeeps ==
  ASSUME CoverInv, NEW p \in Processes, Discover(p)
  PROVE  CoverInv'
<1>1. TypeOK
  BY DEF CoverInv
<1>2. UNCHANGED <<rollout, spawn, cache, stored, faults>>
  BY Zenon DEF Discover
<1>3. TypeOK'
  BY <1>1, <1>2, DiscoverFields DEF TypeOK
<1>4. \A o \in Processes \ {p} : scan'[o] = scan[o]
  BY <1>1, DiscoverFields
<1>5. scan'[p].known = scan[p].known /\ scan'[p].cache = scan[p].cache
  BY <1>1, DiscoverFields
<1>6. \A r \in Rollouts :
           /\ Covers(rollout, spawn, r, cache'[r])
           /\ Reached(rollout, r, stored'[r])
           /\ Covers(rollout, spawn, r, scan'[p].cache[r])
           /\ Reached(rollout, r, scan'[p].known[r])
  BY <1>2, <1>5 DEF CoverInv
<1> QED
  BY <1>2, <1>3, <1>4, <1>6, ScanKeeps

LEMMA SaveCacheFields ==
  ASSUME TypeOK, NEW p \in Processes, SaveCache(p)
  PROVE  /\ scan'[p].at = "store"
         /\ scan'[p].known = scan[p].known /\ scan'[p].cache = scan[p].cache
         /\ scan'[p].paths = scan[p].paths /\ scan'[p].lineage = scan[p].lineage
         /\ scan'[p].print = scan[p].print /\ scan'[p].pending = scan[p].pending
         /\ \A o \in Processes \ {p} : scan'[o] = scan[o]
         /\ scan' \in [Processes -> ScanType]
         /\ cache' = scan[p].cache
         /\ cache' \in [Rollouts -> CacheEntry \cup {None}]
<1>1. scan \in [Processes -> ScanType] /\ scan[p] \in ScanType
  BY DEF TypeOK
<1>2. scan' = [scan EXCEPT ![p] = [scan[p] EXCEPT !.at = "store"]]
  BY <1>1 DEF SaveCache
<1>3. scan'[p] = [scan[p] EXCEPT !.at = "store"] /\ \A o \in Processes \ {p} : scan'[o] = scan[o]
  BY <1>1, <1>2
<1>4. scan'[p] \in ScanType
  BY <1>1, <1>3 DEF ScanType
<1>5. scan' \in [Processes -> ScanType]
  BY <1>1, <1>2, <1>3, <1>4
<1>6. /\ scan'[p].at = "store"
      /\ scan'[p].known = scan[p].known /\ scan'[p].cache = scan[p].cache
      /\ scan'[p].paths = scan[p].paths /\ scan'[p].lineage = scan[p].lineage
      /\ scan'[p].print = scan[p].print /\ scan'[p].pending = scan[p].pending
  BY <1>1, <1>3 DEF ScanType
<1>7. cache' = scan[p].cache /\ cache' \in [Rollouts -> CacheEntry \cup {None}]
  BY <1>1 DEF SaveCache, ScanType
<1> QED
  BY <1>3, <1>5, <1>6, <1>7

LEMMA SaveCacheKeeps ==
  ASSUME CoverInv, NEW p \in Processes, SaveCache(p)
  PROVE  CoverInv'
<1>1. TypeOK
  BY DEF CoverInv
<1>2. UNCHANGED <<rollout, spawn, stored, faults>>
  BY DEF SaveCache
<1>3. TypeOK'
  BY <1>1, <1>2, SaveCacheFields DEF TypeOK
<1>4. \A o \in Processes \ {p} : scan'[o] = scan[o]
  BY <1>1, SaveCacheFields
<1>5. scan'[p].known = scan[p].known /\ scan'[p].cache = scan[p].cache /\ cache' = scan[p].cache
  BY <1>1, SaveCacheFields
<1>6. \A r \in Rollouts :
           /\ Covers(rollout, spawn, r, cache'[r])
           /\ Reached(rollout, r, stored'[r])
           /\ Covers(rollout, spawn, r, scan'[p].cache[r])
           /\ Reached(rollout, r, scan'[p].known[r])
  BY <1>2, <1>5 DEF CoverInv
<1> QED
  BY <1>2, <1>3, <1>4, <1>6, ScanKeeps

\* A session that is done with, stored or not.
DoneWith(p, r) == scan' = [scan EXCEPT ![p].pending = @ \ {r}]

LEMMA DoneFields ==
  ASSUME TypeOK, NEW p \in Processes, NEW r \in Rollouts, DoneWith(p, r)
  PROVE  /\ scan'[p].at = scan[p].at
         /\ scan'[p].known = scan[p].known /\ scan'[p].cache = scan[p].cache
         /\ scan'[p].paths = scan[p].paths /\ scan'[p].lineage = scan[p].lineage
         /\ scan'[p].print = scan[p].print /\ scan'[p].pending = scan[p].pending \ {r}
         /\ \A o \in Processes \ {p} : scan'[o] = scan[o]
         /\ scan' \in [Processes -> ScanType]
<1>1. scan \in [Processes -> ScanType] /\ scan[p] \in ScanType
  BY DEF TypeOK
<1>2. scan' = [scan EXCEPT ![p] = [scan[p] EXCEPT !.pending = scan[p].pending \ {r}]]
  BY <1>1 DEF DoneWith
<1>3. /\ scan'[p] = [scan[p] EXCEPT !.pending = scan[p].pending \ {r}]
      /\ \A o \in Processes \ {p} : scan'[o] = scan[o]
  BY <1>1, <1>2
<1>4. scan'[p] \in ScanType
  <2>1. scan[p].pending \ {r} \in SUBSET Rollouts
    BY <1>1 DEF ScanType
  <2> DEFINE rest == scan[p].pending \ {r}
  <2> HIDE DEF rest
  <2>2. rest \in SUBSET Rollouts /\ scan'[p] = [scan[p] EXCEPT !.pending = rest]
    BY <1>3, <2>1 DEF rest
  <2> QED
    BY <1>1, <2>2 DEF ScanType
<1>5. scan' \in [Processes -> ScanType]
  BY <1>1, <1>2, <1>3, <1>4
<1>6. /\ scan'[p].at = scan[p].at
      /\ scan'[p].known = scan[p].known /\ scan'[p].cache = scan[p].cache
      /\ scan'[p].paths = scan[p].paths /\ scan'[p].lineage = scan[p].lineage
      /\ scan'[p].print = scan[p].print /\ scan'[p].pending = scan[p].pending \ {r}
  BY <1>1, <1>3 DEF ScanType
<1> QED
  BY <1>3, <1>5, <1>6

LEMMA StoreKeeps ==
  ASSUME CoverInv, NEW p \in Processes, NEW r \in Rollouts, Store(p, r)
  PROVE  CoverInv'
<1>1. TypeOK /\ DoneWith(p, r)
  BY DEF CoverInv, Store, DoneWith
<1>2. UNCHANGED <<rollout, spawn, cache, faults>>
  BY DEF Store
<1>3. scan[p].print[r] \in Fingerprint \cup {None}
  BY <1>1 DEF TypeOK, ScanType
<1>4. stored' \in [Rollouts -> Fingerprint \cup {None}]
  BY <1>1, <1>3 DEF Store, TypeOK
<1>5. TypeOK'
  BY <1>1, <1>2, <1>4, DoneFields DEF TypeOK
<1>6. \A o \in Processes \ {p} : scan'[o] = scan[o]
  BY <1>1, DoneFields
<1>7. scan'[p].known = scan[p].known /\ scan'[p].cache = scan[p].cache
  BY <1>1, DoneFields
<1>8. \A q \in Rollouts : Reached(rollout, q, stored'[q])
  <2> TAKE q \in Rollouts
  <2>1. CASE q = r
    <3>1. stored'[r] = scan[p].print[r] /\ rollout[r].version = scan[p].print[r].version
      BY <1>1 DEF Store, Storable, TypeOK
    <3>2. rollout[r].version \in Nat
      BY <1>1 DEF TypeOK, Version
    <3> QED
      BY <2>1, <3>1, <3>2 DEF Reached
  <2>2. CASE q # r
    <3>1. stored'[q] = stored[q]
      BY <1>1, <2>2 DEF Store, TypeOK
    <3> QED
      BY <3>1 DEF CoverInv
  <2> QED
    BY <2>1, <2>2
<1>9. \A q \in Rollouts :
           /\ Covers(rollout, spawn, q, cache'[q])
           /\ Reached(rollout, q, stored'[q])
           /\ Covers(rollout, spawn, q, scan'[p].cache[q])
           /\ Reached(rollout, q, scan'[p].known[q])
  BY <1>2, <1>7, <1>8 DEF CoverInv
<1> QED
  BY <1>2, <1>5, <1>6, <1>9, ScanKeeps

LEMMA StoreFailsKeeps ==
  ASSUME CoverInv, NEW p \in Processes, NEW r \in Rollouts, StoreFails(p, r)
  PROVE  CoverInv'
<1>1. TypeOK /\ DoneWith(p, r)
  BY DEF CoverInv, StoreFails, DoneWith
<1>2. UNCHANGED <<rollout, spawn, cache, stored, faults>>
  BY DEF StoreFails
<1>3. TypeOK'
  BY <1>1, <1>2, DoneFields DEF TypeOK
<1>4. \A o \in Processes \ {p} : scan'[o] = scan[o]
  BY <1>1, DoneFields
<1>5. scan'[p].known = scan[p].known /\ scan'[p].cache = scan[p].cache
  BY <1>1, DoneFields
<1>6. \A q \in Rollouts :
           /\ Covers(rollout, spawn, q, cache'[q])
           /\ Reached(rollout, q, stored'[q])
           /\ Covers(rollout, spawn, q, scan'[p].cache[q])
           /\ Reached(rollout, q, scan'[p].known[q])
  BY <1>2, <1>5 DEF CoverInv
<1> QED
  BY <1>2, <1>3, <1>4, <1>6, ScanKeeps

\* A scan that is over has forgotten everything.
LEMMA IdleKeeps ==
  ASSUME CoverInv, NEW p \in Processes, UNCHANGED <<rollout, spawn, cache, stored>>,
         scan' = [scan EXCEPT ![p] = IdleScan], faults' \in 0 .. MaxFaults
  PROVE  CoverInv'
<1>1. TypeOK
  BY DEF CoverInv
<1>2. /\ scan'[p] = IdleScan /\ \A o \in Processes \ {p} : scan'[o] = scan[o]
      /\ scan' \in [Processes -> ScanType]
  BY <1>1, IdleTyped DEF TypeOK
<1>3. TypeOK'
  BY <1>1, <1>2 DEF TypeOK
<1>4. scan'[p].cache = Nothing /\ scan'[p].known = Nothing
  BY <1>2 DEF IdleScan
<1>5. \A r \in Rollouts :
           /\ Covers(rollout, spawn, r, cache'[r])
           /\ Reached(rollout, r, stored'[r])
           /\ Covers(rollout, spawn, r, scan'[p].cache[r])
           /\ Reached(rollout, r, scan'[p].known[r])
  BY <1>4, NothingCovers DEF CoverInv
<1> QED
  BY <1>2, <1>3, <1>5, ScanKeeps

LEMMA CoverInit == Init => CoverInv
<1> SUFFICES ASSUME Init PROVE CoverInv
  OBVIOUS
<1>1. Nothing \in [Rollouts -> {None}] /\ \A r \in Rollouts : Nothing[r] = None
  BY DEF Nothing
<1>2. [version |-> 0, there |-> FALSE, broken |-> FALSE]
        \in [version : Version, there : BOOLEAN, broken : BOOLEAN]
  BY CodexAssumption DEF Version
<1>3. TypeOK
  BY <1>1, <1>2, IdleTyped, CodexAssumption DEF Init, TypeOK
<1>4. SpawnsDated(rollout, spawn)
  BY <1>1 DEF Init, SpawnsDated
<1>5. \A p \in Processes : scan[p].cache = Nothing /\ scan[p].known = Nothing
  BY DEF Init, IdleScan
<1>6. cache = Nothing /\ stored = Nothing
  BY DEF Init
<1> QED
  BY <1>3, <1>4, <1>5, <1>6, NothingCovers DEF CoverInv

LEMMA CoverStep == CoverInv /\ [Next]_vars => CoverInv'
<1> SUFFICES ASSUME CoverInv, [Next]_vars PROVE CoverInv'
  OBVIOUS
<1>1. ASSUME NEW r \in Rollouts, Begin(r) PROVE CoverInv'
  BY <1>1, BeginGrows, AgentKeeps DEF Begin
<1>2. ASSUME NEW r \in Rollouts, NEW c \in Rollouts, SpawnAgent(r, c) PROVE CoverInv'
  BY <1>2, SpawnAgentGrows, AgentKeeps DEF SpawnAgent
<1>3. ASSUME NEW r \in Rollouts, WriteMalformed(r) PROVE CoverInv'
  BY <1>3, MalformedGrows, AgentKeeps DEF WriteMalformed
<1>4. ASSUME NEW r \in Rollouts, Delete(r) PROVE CoverInv'
  BY <1>4, DeleteGrows, AgentKeeps DEF Delete
<1>5. ASSUME NEW p \in Processes, Proceed(p) PROVE CoverInv'
  <2>1. CASE LoadHints(p)
    BY <2>1, LoadHintsKeeps
  <2>2. CASE BuildLineage(p)
    BY <2>2, BuildLineageKeeps
  <2>3. CASE Discover(p)
    BY <2>3, DiscoverKeeps
  <2>4. CASE SaveCache(p)
    BY <2>4, SaveCacheKeeps
  <2>5. ASSUME NEW r \in Rollouts, Store(p, r) PROVE CoverInv'
    BY <2>5, StoreKeeps
  <2>6. ASSUME NEW r \in Rollouts, StoreFails(p, r) PROVE CoverInv'
    BY <2>6, StoreFailsKeeps
  <2>7. CASE Finish(p)
    BY <2>7, IdleKeeps DEF Finish, CoverInv, TypeOK
  <2> QED
    BY <1>5, <2>1, <2>2, <2>3, <2>4, <2>5, <2>6, <2>7 DEF Proceed
<1>6. ASSUME NEW p \in Processes, Crash(p) PROVE CoverInv'
  <2>1. faults' \in 0 .. MaxFaults
    BY <1>6, CodexAssumption DEF Crash, CoverInv, TypeOK
  <2> QED
    BY <1>6, <2>1, IdleKeeps DEF Crash
<1>7. CASE UNCHANGED vars
  BY <1>7 DEF vars, CoverInv, TypeOK
<1> QED
  BY <1>1, <1>2, <1>3, <1>4, <1>5, <1>6, <1>7 DEF Next

LEMMA CoverInvAlways == Spec => []CoverInv
<1> QED
  BY CoverInit, CoverStep, PTL DEF Spec

\* What the cache will answer for an archived session is all that was spawned
\* up to the archived version: a later scan that trusts the entry instead of
\* reading the rollout again loses no child (build_lineage_with_cache), with
\* any number of processes that save their caches over each other.
THEOREM CacheCoversArchivedAlways == Spec => []CacheCoversArchived
<1>1. CoverInv => CacheCoversArchived
  <2> SUFFICES ASSUME CoverInv, NEW r \in Rollouts, stored[r] # None, cache[r] # None,
                      cache[r].readable, cache[r].print = stored[r],
                      NEW c \in Rollouts, spawn[c] # None, spawn[c].by = r,
                      spawn[c].at <= stored[r].version
               PROVE  c \in cache[r].edges
    BY DEF CacheCoversArchived, CoverInv
  <2>1. Covers(rollout, spawn, r, cache[r]) /\ c \in Children(spawn, r)
    BY DEF CoverInv, Children
  <2> QED
    BY <2>1 DEF Covers
<1> QED
  BY <1>1, CoverInvAlways, PTL

(***************************************************************************)
(* A session keeps its parent                                              *)
(*                                                                         *)
(* LinkKept is about one write of a session, but the mark that is written  *)
(* was derived three steps before, from entries some of which are older    *)
(* than the link.  With one process the invariant follows the link through *)
(* the scan: the saved entry of an archived parent names the child as long *)
(* as it can be read, so do the entries the scan derives its marks from,   *)
(* and a rollout that is there now was there when the scan looked.         *)
(***************************************************************************)
Linked(archive, c, q) == archive[c] # None /\ archive[c].parent = q

Holds(entries, c, q) ==
  (entries[q] # None /\ entries[q].readable) => c \in entries[q].edges

LinksHeld(files, spawns, entries, archive) ==
  \A c, q \in Rollouts :
    Linked(archive, c, q) =>
      /\ files[q].version > 0
      /\ c \in Children(spawns, q)
      /\ Holds(entries, c, q)

\* What a scan s knows once the pre-pass is over.
PrePassed(files, spawns, archive, s) ==
  /\ \A c, q \in Rollouts : Linked(archive, c, q) => Holds(s.cache, c, q)
  /\ \A c, q \in Rollouts :
       s.lineage[c] = q => /\ Names(s.paths, s.cache, q, c)
                           /\ files[q].version > 0
                           /\ c \in Children(spawns, q)
  /\ \A c, q \in Rollouts : Names(s.paths, s.cache, q, c) => s.lineage[c] = q
  /\ \A q \in s.paths : s.cache[q] # None
  /\ \A c, q \in Rollouts : (Linked(archive, c, q) /\ files[q].there) => q \in s.paths

\* What it knows once it has chosen what to store.
Chosen(s) ==
  /\ s.pending \subseteq s.paths
  /\ \A c \in s.pending : s.print[c].parent = s.lineage[c]

LinkInv(p) ==
  /\ CoverInv
  /\ \A r \in Rollouts : rollout[r].there => rollout[r].version > 0
  /\ LinksHeld(rollout, spawn, cache, stored)
  /\ scan[p].at \in {"lineage", "store"} => scan[p].cache = cache
  /\ scan[p].at \in {"candidates", "save", "store"} =>
       PrePassed(rollout, spawn, stored, scan[p])
  /\ scan[p].at \in {"save", "store"} => Chosen(scan[p])

\* What the agent writes breaks no link.
LEMMA AgentKeepsLinks ==
  ASSUME NEW p \in Processes, LinkInv(p), CoverInv', TypeOK', Grows, UNCHANGED <<cache, stored, scan>>
  PROVE  LinkInv(p)'
<1>1. TypeOK
  BY DEF LinkInv, CoverInv
<1>2. \A r \in Rollouts : /\ rollout[r].version \in Nat /\ rollout'[r].version \in Nat
                          /\ rollout[r].version <= rollout'[r].version
  BY <1>1 DEF TypeOK, Version, Grows
<1>3. \A r \in Rollouts : rollout'[r].there => rollout'[r].version > 0
  BY DEF Grows, LinkInv
<1>4. \A r \in Rollouts : (rollout[r].version > 0 /\ rollout'[r].there) => rollout[r].there
  BY <1>2 DEF Grows
<1>5. \A c, q \in Rollouts : c \in Children(spawn, q) => c \in Children(spawn', q)
  BY DEF Grows, Children
<1>6. \A q \in Rollouts : rollout[q].version > 0 => rollout'[q].version > 0
  BY <1>2
<1>7. LinksHeld(rollout', spawn', cache', stored')
  BY <1>5, <1>6 DEF LinkInv, LinksHeld
<1>8. PrePassed(rollout, spawn, stored, scan[p]) => PrePassed(rollout', spawn', stored', scan'[p])
  <2> SUFFICES ASSUME PrePassed(rollout, spawn, stored, scan[p])
               PROVE  PrePassed(rollout', spawn', stored', scan'[p])
    OBVIOUS
  <2>1. \A c, q \in Rollouts : (Linked(stored, c, q) /\ rollout'[q].there) => q \in scan[p].paths
    BY <1>4 DEF LinkInv, LinksHeld, PrePassed
  <2> QED
    BY <1>5, <1>6, <2>1 DEF PrePassed
<1> QED
  BY <1>3, <1>7, <1>8 DEF LinkInv

LEMMA LoadHintsKeepsLinks ==
  ASSUME NEW p \in Processes, LinkInv(p), CoverInv', LoadHints(p)
  PROVE  LinkInv(p)'
<1>1. scan'[p] = [IdleScan EXCEPT !.at = "lineage", !.known = stored, !.cache = cache]
  BY DEF LoadHints, LinkInv, CoverInv, TypeOK
<1>2. scan'[p].at = "lineage" /\ scan'[p].cache = cache
  BY <1>1, IdleTyped DEF ScanType
<1>3. UNCHANGED <<rollout, spawn, cache, stored>>
  BY DEF LoadHints
<1> QED
  BY <1>2, <1>3 DEF LinkInv

LEMMA BuildLineageKeepsLinks ==
  ASSUME NEW p \in Processes, LinkInv(p), CoverInv', BuildLineage(p)
  PROVE  LinkInv(p)'
<1>1. TypeOK /\ scan[p].at = "lineage" /\ scan[p].cache = cache
  BY Zenon DEF LinkInv, CoverInv, BuildLineage, At
<1>2. UNCHANGED <<rollout, spawn, cache, stored>>
  BY Zenon DEF BuildLineage
<1> DEFINE s == scan'[p]
<1>3. s.at = "candidates" /\ s.paths = {r \in Rollouts : rollout[r].there}
  BY <1>1, BuildFields
<1>4. \A r \in s.paths : Fresh(p, r, s.cache[r])
  BY <1>1, BuildFields
<1>5. \A r \in Rollouts \ s.paths : s.cache[r] = None
  BY <1>1, BuildFields
<1>6. \A c \in Rollouts :
              /\ s.lineage[c] \in Rollouts =>
                   Names(s.paths, s.cache, s.lineage[c], c)
              /\ s.lineage[c] \notin Rollouts =>
                   \A r \in Rollouts : ~Names(s.paths, s.cache, r, c)
  BY <1>1, BuildFields, Zenon
<1> HIDE DEF s
<1>7. \A r \in s.paths : s.cache[r] # None /\ r \in Rollouts
  BY <1>3, <1>4, NoEntry DEF Fresh
<1>8. \A r \in s.paths : s.cache[r].edges \subseteq Children(spawn, r)
  <2> TAKE r \in s.paths
  <2>1. Covers(rollout', spawn', r, s.cache[r])
    BY <1>7 DEF CoverInv, s
  <2> QED
    BY <1>2, <1>7, <2>1 DEF Covers
<1>9. \A c, q \in Rollouts : Names(s.paths, s.cache, q, c) => c \in Children(spawn, q)
  BY <1>8 DEF Names
<1>10. \A c, q \in Rollouts : Linked(stored, c, q) => Holds(s.cache, c, q)
  <2> SUFFICES ASSUME NEW c \in Rollouts, NEW q \in Rollouts, Linked(stored, c, q),
                      s.cache[q] # None, s.cache[q].readable
               PROVE  c \in s.cache[q].edges
    BY DEF Holds
  <2>1. Fresh(p, q, s.cache[q])
    BY <1>4, <1>5
  <2>2. c \in Children(spawn, q) /\ Holds(cache, c, q)
    BY DEF LinkInv, LinksHeld
  <2>3. CASE s.cache[q] = scan[p].cache[q]
    BY <1>1, <2>2, <2>3 DEF Holds
  <2>4. CASE s.cache[q] # scan[p].cache[q]
    BY <2>1, <2>2, <2>4 DEF Fresh, SpawnedBy, Children
  <2> QED
    BY <2>3, <2>4
<1>11. \A c, q \in Rollouts : Names(s.paths, s.cache, q, c) => s.lineage[c] = q
  <2> SUFFICES ASSUME NEW c \in Rollouts, NEW q \in Rollouts, Names(s.paths, s.cache, q, c)
               PROVE  s.lineage[c] = q
    OBVIOUS
  <2>1. s.lineage[c] \in Rollouts /\ Names(s.paths, s.cache, s.lineage[c], c)
    BY <1>6
  <2> QED
    BY <1>9, <2>1 DEF Children
<1>12. \A c, q \in Rollouts :
         s.lineage[c] = q => /\ Names(s.paths, s.cache, q, c)
                             /\ rollout[q].version > 0
                             /\ c \in Children(spawn, q)
  <2> SUFFICES ASSUME NEW c \in Rollouts, NEW q \in Rollouts, s.lineage[c] = q
               PROVE  /\ Names(s.paths, s.cache, q, c)
                      /\ rollout[q].version > 0
                      /\ c \in Children(spawn, q)
    OBVIOUS
  <2>1. Names(s.paths, s.cache, q, c)
    BY <1>6
  <2>2. rollout[q].there
    BY <1>3, <2>1 DEF Names
  <2> QED
    BY <1>9, <2>1, <2>2 DEF LinkInv
<1>13. \A q \in Rollouts : rollout[q].there => q \in s.paths
  BY <1>3
<1>14. PrePassed(rollout, spawn, stored, s)
  BY <1>7, <1>10, <1>11, <1>12, <1>13 DEF PrePassed
<1> QED
  BY <1>2, <1>3, <1>14 DEF LinkInv, s

LEMMA DiscoverKeepsLinks ==
  ASSUME NEW p \in Processes, LinkInv(p), CoverInv', Discover(p)
  PROVE  LinkInv(p)'
<1>1. TypeOK /\ scan[p].at = "candidates"
  BY Zenon DEF LinkInv, CoverInv, Discover, At
<1>2. UNCHANGED <<rollout, spawn, cache, stored>>
  BY Zenon DEF Discover
<1>3. /\ scan'[p].at = "save" /\ scan'[p].cache = scan[p].cache
      /\ scan'[p].paths = scan[p].paths /\ scan'[p].lineage = scan[p].lineage
  BY <1>1, DiscoverFields
<1>4. PrePassed(rollout', spawn', stored', scan'[p])
  BY <1>1, <1>2, <1>3 DEF LinkInv, PrePassed
<1>5. Chosen(scan'[p])
  <2>1. \A r \in Rollouts : scan'[p].print[r] =
              IF r \in scan[p].paths /\ rollout[r].there THEN CandidatePrint(p, r) ELSE None
    BY <1>1, DiscoverFields
  <2>2. scan'[p].pending =
              {r \in scan[p].paths : rollout[r].there /\ scan[p].known[r] # CandidatePrint(p, r)}
    BY <1>1, DiscoverFields
  <2>3. scan[p].paths \subseteq Rollouts
    BY <1>1 DEF TypeOK, ScanType
  <2>4. \A r \in Rollouts : CandidatePrint(p, r).parent = scan[p].lineage[r]
    BY DEF CandidatePrint
  <2> QED
    BY <1>3, <2>1, <2>2, <2>3, <2>4 DEF Chosen
<1> QED
  BY <1>2, <1>3, <1>4, <1>5 DEF LinkInv

LEMMA SaveCacheKeepsLinks ==
  ASSUME NEW p \in Processes, LinkInv(p), CoverInv', SaveCache(p)
  PROVE  LinkInv(p)'
<1>1. TypeOK /\ scan[p].at = "save"
  BY DEF LinkInv, CoverInv, SaveCache, At
<1>2. UNCHANGED <<rollout, spawn, stored>>
  BY DEF SaveCache
<1>3. /\ scan'[p].at = "store" /\ scan'[p].cache = scan[p].cache /\ cache' = scan[p].cache
      /\ scan'[p].paths = scan[p].paths /\ scan'[p].lineage = scan[p].lineage
      /\ scan'[p].print = scan[p].print /\ scan'[p].pending = scan[p].pending
  BY <1>1, SaveCacheFields
<1>4. PrePassed(rollout, spawn, stored, scan[p]) /\ Chosen(scan[p])
  BY <1>1 DEF LinkInv
<1>5. PrePassed(rollout', spawn', stored', scan'[p]) /\ Chosen(scan'[p])
  BY <1>2, <1>3, <1>4 DEF PrePassed, Chosen
<1>6. LinksHeld(rollout', spawn', cache', stored')
  BY <1>2, <1>3, <1>4 DEF LinkInv, LinksHeld, PrePassed
<1> QED
  BY <1>2, <1>3, <1>5, <1>6 DEF LinkInv

LEMMA StoreKeepsLinks ==
  ASSUME NEW p \in Processes, LinkInv(p), CoverInv', NEW r \in Rollouts, Store(p, r)
  PROVE  LinkInv(p)'
<1>1. TypeOK /\ scan[p].at = "store" /\ DoneWith(p, r) /\ r \in scan[p].pending
  BY DEF LinkInv, CoverInv, Store, At, DoneWith
<1>2. UNCHANGED <<rollout, spawn, cache>>
  BY DEF Store
<1>3. /\ scan'[p].at = "store" /\ scan'[p].cache = scan[p].cache
      /\ scan'[p].paths = scan[p].paths /\ scan'[p].lineage = scan[p].lineage
      /\ scan'[p].print = scan[p].print /\ scan'[p].pending = scan[p].pending \ {r}
  BY <1>1, DoneFields
<1>4. PrePassed(rollout, spawn, stored, scan[p]) /\ Chosen(scan[p]) /\ scan[p].cache = cache
  BY <1>1 DEF LinkInv
<1>5. /\ stored'[r].parent = scan[p].lineage[r]
      /\ \A c \in Rollouts \ {r} : stored'[c] = stored[c]
  BY <1>1, <1>4 DEF Store, TypeOK, Chosen
<1>6. ASSUME NEW c \in Rollouts, NEW q \in Rollouts, Linked(stored', c, q)
      PROVE  /\ rollout[q].version > 0
             /\ c \in Children(spawn, q)
             /\ Holds(cache, c, q)
             /\ rollout[q].there => q \in scan[p].paths
  <2>1. CASE c = r
    <3>1. scan[p].lineage[c] = q
      BY <1>5, <1>6, <2>1 DEF Linked
    <3>2. Names(scan[p].paths, scan[p].cache, q, c) /\ rollout[q].version > 0 /\ c \in Children(spawn, q)
      BY <1>4, <3>1 DEF PrePassed
    <3> QED
      BY <1>4, <3>2 DEF Names, Holds
  <2>2. CASE c # r
    <3>1. Linked(stored, c, q)
      BY <1>5, <1>6, <2>2 DEF Linked
    <3> QED
      BY <1>4, <3>1 DEF PrePassed, LinkInv, LinksHeld
  <2> QED
    BY <2>1, <2>2
<1>7. LinksHeld(rollout', spawn', cache', stored')
  BY <1>2, <1>6 DEF LinksHeld
<1>8. PrePassed(rollout', spawn', stored', scan'[p])
  BY <1>2, <1>3, <1>4, <1>6 DEF PrePassed
<1>9. Chosen(scan'[p])
  BY <1>3, <1>4 DEF Chosen
<1> QED
  BY <1>2, <1>3, <1>4, <1>7, <1>8, <1>9 DEF LinkInv

LEMMA StoreFailsKeepsLinks ==
  ASSUME NEW p \in Processes, LinkInv(p), CoverInv', NEW r \in Rollouts, StoreFails(p, r)
  PROVE  LinkInv(p)'
<1>1. TypeOK /\ scan[p].at = "store" /\ DoneWith(p, r)
  BY DEF LinkInv, CoverInv, StoreFails, At, DoneWith
<1>2. UNCHANGED <<rollout, spawn, cache, stored>>
  BY DEF StoreFails
<1>3. /\ scan'[p].at = "store" /\ scan'[p].cache = scan[p].cache
      /\ scan'[p].paths = scan[p].paths /\ scan'[p].lineage = scan[p].lineage
      /\ scan'[p].print = scan[p].print /\ scan'[p].pending = scan[p].pending \ {r}
  BY <1>1, DoneFields
<1>4. PrePassed(rollout, spawn, stored, scan[p]) /\ Chosen(scan[p]) /\ scan[p].cache = cache
  BY <1>1 DEF LinkInv
<1>5. PrePassed(rollout', spawn', stored', scan'[p]) /\ Chosen(scan'[p])
  BY <1>2, <1>3, <1>4 DEF PrePassed, Chosen
<1> QED
  BY <1>2, <1>3, <1>4, <1>5 DEF LinkInv

LEMMA IdleKeepsLinks ==
  ASSUME NEW p \in Processes, LinkInv(p), CoverInv', UNCHANGED <<rollout, spawn, cache, stored>>,
         scan' = [scan EXCEPT ![p] = IdleScan]
  PROVE  LinkInv(p)'
<1>1. scan'[p] = IdleScan
  BY DEF LinkInv, CoverInv, TypeOK
<1>2. scan'[p].at = "idle"
  BY <1>1 DEF IdleScan
<1> QED
  BY <1>2 DEF LinkInv

LEMMA LinkStep ==
  ASSUME NEW p, Processes = {p}, LinkInv(p), [Next]_vars
  PROVE  LinkInv(p)'
<1>1. p \in Processes /\ CoverInv /\ CoverInv' /\ TypeOK /\ TypeOK'
  BY CoverStep DEF LinkInv, CoverInv
<1>2. ASSUME NEW r \in Rollouts, Begin(r) PROVE LinkInv(p)'
  BY <1>1, <1>2, BeginGrows, AgentKeepsLinks DEF Begin
<1>3. ASSUME NEW r \in Rollouts, NEW c \in Rollouts, SpawnAgent(r, c) PROVE LinkInv(p)'
  BY <1>1, <1>3, SpawnAgentGrows, AgentKeepsLinks DEF SpawnAgent
<1>4. ASSUME NEW r \in Rollouts, WriteMalformed(r) PROVE LinkInv(p)'
  BY <1>1, <1>4, MalformedGrows, AgentKeepsLinks DEF WriteMalformed
<1>5. ASSUME NEW r \in Rollouts, Delete(r) PROVE LinkInv(p)'
  BY <1>1, <1>5, DeleteGrows, AgentKeepsLinks DEF Delete
<1>6. ASSUME Proceed(p) PROVE LinkInv(p)'
  <2>1. CASE LoadHints(p)
    BY <1>1, <2>1, LoadHintsKeepsLinks
  <2>2. CASE BuildLineage(p)
    BY <1>1, <2>2, BuildLineageKeepsLinks
  <2>3. CASE Discover(p)
    BY <1>1, <2>3, DiscoverKeepsLinks
  <2>4. CASE SaveCache(p)
    BY <1>1, <2>4, SaveCacheKeepsLinks
  <2>5. ASSUME NEW r \in Rollouts, Store(p, r) PROVE LinkInv(p)'
    BY <1>1, <2>5, StoreKeepsLinks
  <2>6. ASSUME NEW r \in Rollouts, StoreFails(p, r) PROVE LinkInv(p)'
    BY <1>1, <2>6, StoreFailsKeepsLinks
  <2>7. CASE Finish(p)
    BY <1>1, <2>7, IdleKeepsLinks DEF Finish
  <2> QED
    BY <1>6, <2>1, <2>2, <2>3, <2>4, <2>5, <2>6, <2>7 DEF Proceed
<1>7. CASE Crash(p)
  BY <1>1, <1>7, IdleKeepsLinks DEF Crash
<1>8. CASE UNCHANGED vars
  BY <1>1, <1>8 DEF vars, LinkInv
<1> QED
  BY <1>1, <1>2, <1>3, <1>4, <1>5, <1>6, <1>7, <1>8 DEF Next

LEMMA LinkInit == \A p \in Processes : Init => LinkInv(p)
<1> SUFFICES ASSUME NEW p \in Processes, Init PROVE LinkInv(p)
  OBVIOUS
<1>1. scan[p].at = "idle"
  BY DEF Init, IdleScan
<1>2. LinksHeld(rollout, spawn, cache, stored)
  BY DEF Init, Nothing, LinksHeld, Linked
<1> QED
  BY <1>1, <1>2, CoverInit DEF Init, LinkInv

\* With one process, the write of a session never takes its parent away while
\* the parent's rollout is there and neither rollout is cached as unreadable:
\* not through appends, a cached answer, a crash between the pre-pass and the
\* write, or a rollout that vanished in between.
THEOREM LinkKeptAlways ==
  ASSUME NEW p, Processes = {p}
  PROVE  Spec => LinkKept
<1> DEFINE Kept == \A c \in Rollouts :
       (/\ stored[c] # None
        /\ stored[c].parent # None
        /\ ~Misread(c)
        /\ rollout[stored[c].parent].there /\ ~Misread(stored[c].parent))
       => stored'[c].parent = stored[c].parent
<1>1. Init => LinkInv(p)
  BY LinkInit
<1>2. LinkInv(p) /\ [Next]_vars => LinkInv(p)'
  BY LinkStep
<1>3. LinkInv(p) /\ Next => Kept
  <2> SUFFICES ASSUME LinkInv(p), Next, NEW c \in Rollouts,
                      stored[c] # None, stored[c].parent # None, ~Misread(c),
                      rollout[stored[c].parent].there, ~Misread(stored[c].parent)
               PROVE  stored'[c].parent = stored[c].parent
    OBVIOUS
  <2> DEFINE q == stored[c].parent
  <2>1. TypeOK /\ p \in Processes
    BY DEF LinkInv, CoverInv
  <2>2. q \in Rollouts
    BY <2>1 DEF TypeOK, Fingerprint
  <2>3. CASE Store(p, c)
    <3>1. scan[p].at = "store" /\ c \in scan[p].pending
      BY <2>3 DEF Store, At
    <3>2. PrePassed(rollout, spawn, stored, scan[p]) /\ Chosen(scan[p]) /\ scan[p].cache = cache
      BY <3>1 DEF LinkInv
    <3>3. Linked(stored, c, q)
      BY DEF Linked
    <3> HIDE DEF q
    <3>4. rollout[q].there /\ ~Misread(q)
      BY DEF q
    <3>5. c \in scan[p].paths /\ q \in scan[p].paths
      BY <2>2, <3>1, <3>2, <3>3, <3>4 DEF PrePassed, Chosen
    <3>6. cache[c] # None /\ cache[q] # None
      BY <3>2, <3>5 DEF PrePassed
    <3>7. cache[c].readable /\ cache[q].readable
      BY <3>4, <3>6 DEF Misread
    <3>8. c \in cache[q].edges
      BY <2>2, <3>2, <3>3, <3>6, <3>7 DEF PrePassed, Holds
    <3>9. scan[p].lineage[c] = q
      BY <2>2, <3>2, <3>5, <3>7, <3>8 DEF PrePassed, Names
    <3>10. stored'[c] = scan[p].print[c]
      BY <2>1, <2>3 DEF Store, TypeOK
    <3> QED
      BY <3>1, <3>2, <3>9, <3>10 DEF Chosen, q
  <2>4. CASE ~Store(p, c)
    <3>1. stored'[c] = stored[c]
      <4>1. CASE \E r \in Rollouts : Store(p, r)
        BY <2>1, <2>4, <4>1 DEF Store, TypeOK
      <4>2. CASE ~(\E r \in Rollouts : Store(p, r))
        <5>1. stored' = stored
          BY <4>2, Zenon DEF Next, Proceed, Begin, SpawnAgent, WriteMalformed, Delete, LoadHints,
                             BuildLineage, Discover, SaveCache, StoreFails, Finish, Crash
        <5> QED
          BY <5>1
      <4> QED
        BY <4>1, <4>2
    <3> QED
      BY <3>1
  <2> QED
    BY <2>3, <2>4
<1>4. LinkInv(p) /\ [Next]_vars => [Kept]_vars
  BY <1>3
<1> QED
  BY <1>1, <1>2, <1>4, PTL DEF Spec, LinkKept

=============================================================================
