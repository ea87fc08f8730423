-------------------------- MODULE ArchiveStoreProofs --------------------------
(***************************************************************************)
(* Theorems about ArchiveStore for every set of sessions, locators,        *)
(* batches and connections.                                                *)
(*                                                                         *)
(* The invariant is stated for the committed archive, for the last backup  *)
(* and for every open transaction's working copy: a commit publishes the   *)
(* working copy, an import merges the backup, so the committed archive is  *)
(* only as good as those two.                                              *)
(***************************************************************************)
EXTENDS ArchiveStore, FiniteSetTheorems, TLAPS

Sound(a) ==
  /\ CountsExact(a)
  /\ ReferencesObjects(a)
  /\ OneSnapshot(a)
  /\ ProjectionsFresh(a)

\* The inductive invariant of the archive's contents.
SoundInv ==
  /\ TypeOK
  /\ Sound(db)
  /\ Sound(backup)
  /\ \A c \in Connections : Sound(work[c])

\* Counting the children of a session gives a natural number.
LEMMA ChildrenCountable ==
  ASSUME NEW a \in ArchiveValue, NEW s
  PROVE  Cardinality(Children(a, s)) \in Nat
<1>1. Children(a, s) \subseteq Sessions
  BY DEF Children, ArchiveValue
<1>2. IsFiniteSet(Children(a, s))
  BY <1>1, SessionsFinite, FS_Subset
<1> QED
  BY <1>2, FS_CardinalityType

\* An archive without rows is well formed and sound.
LEMMA EmptyArchiveSound == EmptyArchive \in ArchiveValue /\ Sound(EmptyArchive)
<1>1. EmptyArchive \in ArchiveValue
  BY DEF EmptyArchive, ArchiveValue
<1>2. Sound(EmptyArchive)
  BY DEF EmptyArchive, Sound, CountsExact, ReferencesObjects, OneSnapshot, ProjectionsFresh
<1> QED
  BY <1>1, <1>2

\* Refreshing child counts keeps the type and every other column.
LEMMA RefreshFields ==
  ASSUME NEW a \in ArchiveValue, NEW which
  PROVE  LET r == RefreshChildCount(a, which)
         IN  /\ r \in ArchiveValue
             /\ r.ids = a.ids /\ r.parent = a.parent /\ r.print = a.print
             /\ r.aggregates = a.aggregates /\ r.tokens = a.tokens
             /\ r.sources = a.sources /\ r.objects = a.objects
             /\ r.events = a.events /\ r.spans = a.spans
             /\ \A s \in Sessions :
                  r.childCount[s] = IF s \in which \cap a.ids
                                      THEN Cardinality(Children(a, s))
                                      ELSE a.childCount[s]
<1> DEFINE counts == [s \in Sessions |-> IF s \in which \cap a.ids
                                           THEN Cardinality(Children(a, s))
                                           ELSE a.childCount[s]]
           r == [a EXCEPT !.childCount = counts]
<1>1. counts \in [Sessions -> Nat]
  <2>1. a.childCount \in [Sessions -> Nat]
    BY DEF ArchiveValue
  <2> QED
    BY <2>1, ChildrenCountable
<1>2. r = RefreshChildCount(a, which)
  BY DEF RefreshChildCount
<1>3. /\ r.ids = a.ids /\ r.parent = a.parent /\ r.print = a.print
      /\ r.aggregates = a.aggregates /\ r.tokens = a.tokens
      /\ r.sources = a.sources /\ r.objects = a.objects
      /\ r.events = a.events /\ r.spans = a.spans
      /\ r.childCount = counts
  BY DEF ArchiveValue
<1> HIDE DEF counts
<1>4. r \in ArchiveValue
  BY <1>1 DEF ArchiveValue
<1>5. \A s \in Sessions :
        counts[s] = IF s \in which \cap a.ids
                      THEN Cardinality(Children(a, s)) ELSE a.childCount[s]
  BY DEF counts
<1> HIDE DEF r
<1> QED
  BY <1>2, <1>3, <1>4, <1>5

\* What each column of the archive is after one session has been written.
LEMMA WriteSessionFields ==
  ASSUME NEW a \in ArchiveValue, NEW p \in ParsedSession
  PROVE  LET w == WriteSession(a, p)
             affected == {a.parent[p.id], p.parent, p.id}
         IN  /\ w \in ArchiveValue
             /\ w.ids = a.ids \cup {p.id}
             /\ w.parent = [a.parent EXCEPT ![p.id] = p.parent]
             /\ w.print = [a.print EXCEPT ![p.id] = p.print]
             /\ w.aggregates = [a.aggregates EXCEPT ![p.id] = p.stream]
             /\ w.events = [a.events EXCEPT ![p.id] = p.stream]
             /\ w.spans = [a.spans EXCEPT ![p.id] = p.stream]
             /\ w.sources = {r \in a.sources : r[1] = p.id => r[2] \notin {x[1] : x \in p.sources}}
                              \cup {<<p.id, x[1], x[2]>> : x \in p.sources}
             /\ w.objects = a.objects \cup {x[2] : x \in p.sources}
             /\ \A s \in Sessions :
                  w.childCount[s] = IF s \in affected \cap w.ids
                                      THEN Cardinality(Children(w, s))
                                      ELSE a.childCount[s]
<1> DEFINE affected == {a.parent[p.id], p.parent, p.id}
           u == UpsertRow(a, p)
           r == RefreshChildCount(u, affected)
           k == CaptureSources(r, p)
           w == ReplaceStream(k, p)
<1>0. w = WriteSession(a, p)
  BY DEF WriteSession
<1>1. /\ u \in ArchiveValue
      /\ u.ids = a.ids \cup {p.id}
      /\ u.parent = [a.parent EXCEPT ![p.id] = p.parent]
      /\ u.print = [a.print EXCEPT ![p.id] = p.print]
      /\ u.aggregates = [a.aggregates EXCEPT ![p.id] = p.stream]
      /\ u.sources = a.sources /\ u.objects = a.objects
      /\ u.events = a.events /\ u.spans = a.spans
      /\ u.childCount = a.childCount
  BY DEF UpsertRow, ArchiveValue, ParsedSession
<1> HIDE DEF u
<1>2. /\ r \in ArchiveValue
      /\ r.ids = u.ids /\ r.parent = u.parent /\ r.print = u.print
      /\ r.aggregates = u.aggregates /\ r.tokens = u.tokens
      /\ r.sources = u.sources /\ r.objects = u.objects
      /\ r.events = u.events /\ r.spans = u.spans
      /\ \A s \in Sessions :
           r.childCount[s] = IF s \in affected \cap u.ids
                               THEN Cardinality(Children(u, s))
                               ELSE u.childCount[s]
  BY <1>1, RefreshFields
<1> HIDE DEF r, affected
<1> DEFINE srcs == {q \in r.sources : q[1] = p.id => q[2] \notin {x[1] : x \in p.sources}}
                     \cup {<<p.id, x[1], x[2]>> : x \in p.sources}
           objs == r.objects \cup {x[2] : x \in p.sources}
<1>3. /\ k \in ArchiveValue
      /\ k.ids = r.ids /\ k.parent = r.parent /\ k.print = r.print
      /\ k.aggregates = r.aggregates /\ k.childCount = r.childCount
      /\ k.events = r.events /\ k.spans = r.spans
      /\ k.sources = srcs
      /\ k.objects = objs
  <2>1. srcs \in SUBSET (Sessions \X Locators \X Contents)
    <3>1. \A x \in p.sources : <<p.id, x[1], x[2]>> \in Sessions \X Locators \X Contents
      BY DEF ParsedSession
    <3>2. r.sources \in SUBSET (Sessions \X Locators \X Contents)
      BY <1>2 DEF ArchiveValue
    <3> QED
      BY <3>1, <3>2
  <2>2. objs \in SUBSET Contents
    BY <1>2 DEF ArchiveValue, ParsedSession
  <2>3. k = [r EXCEPT !.sources = srcs, !.objects = objs]
    BY DEF CaptureSources
  <2> HIDE DEF srcs, objs, k
  <2> QED
    BY <1>2, <2>1, <2>2, <2>3 DEF ArchiveValue
<1> HIDE DEF k
<1>4. /\ w \in ArchiveValue
      /\ w.ids = k.ids /\ w.parent = k.parent /\ w.print = k.print
      /\ w.aggregates = k.aggregates /\ w.childCount = k.childCount
      /\ w.sources = k.sources /\ w.objects = k.objects
      /\ w.events = [k.events EXCEPT ![p.id] = p.stream]
      /\ w.spans = [k.spans EXCEPT ![p.id] = p.stream]
  BY <1>3 DEF ReplaceStream, ArchiveValue, ParsedSession
<1> HIDE DEF w
<1>5. \A s : Children(w, s) = Children(u, s)
  BY <1>2, <1>3, <1>4 DEF Children
<1>6. affected = {a.parent[p.id], p.parent, p.id}
  BY DEF affected
<1> QED
  BY <1>0, <1>1, <1>2, <1>3, <1>4, <1>5, <1>6

\* Writing one session keeps an archive sound, whatever the order of parents
\* and children: the sessions whose children may change are exactly those whose
\* counts write_session derives again.
LEMMA WriteSessionSound ==
  ASSUME NEW a \in ArchiveValue, NEW p \in ParsedSession,
         UniqueLocators(p), Sound(a)
  PROVE  Sound(WriteSession(a, p))
<1> DEFINE w == WriteSession(a, p)
           affected == {a.parent[p.id], p.parent, p.id}
<1>1. /\ w \in ArchiveValue
      /\ w.ids = a.ids \cup {p.id}
      /\ w.parent = [a.parent EXCEPT ![p.id] = p.parent]
      /\ w.aggregates = [a.aggregates EXCEPT ![p.id] = p.stream]
      /\ w.events = [a.events EXCEPT ![p.id] = p.stream]
      /\ w.spans = [a.spans EXCEPT ![p.id] = p.stream]
      /\ w.sources = {r \in a.sources : r[1] = p.id => r[2] \notin {x[1] : x \in p.sources}}
                       \cup {<<p.id, x[1], x[2]>> : x \in p.sources}
      /\ w.objects = a.objects \cup {x[2] : x \in p.sources}
      /\ \A s \in Sessions :
           w.childCount[s] = IF s \in affected \cap w.ids
                               THEN Cardinality(Children(w, s))
                               ELSE a.childCount[s]
  BY WriteSessionFields
<1> HIDE DEF w
<1>2. CountsExact(w)
  <2> SUFFICES ASSUME NEW s \in w.ids
               PROVE  w.childCount[s] = Cardinality(Children(w, s))
    BY DEF CountsExact
  <2>1. s \in Sessions
    BY <1>1 DEF ArchiveValue
  <2>2. CASE s \in affected
    BY <1>1, <2>1, <2>2
  <2>3. CASE s \notin affected
    <3>1. s \in a.ids /\ s # p.id
      BY <1>1, <2>3
    <3>2. Children(w, s) = Children(a, s)
      BY <1>1, <2>3 DEF Children, ArchiveValue, ParsedSession
    <3>3. w.childCount[s] = a.childCount[s]
      BY <1>1, <2>1, <2>3
    <3> QED
      BY <3>1, <3>2, <3>3 DEF Sound, CountsExact
  <2> QED
    BY <2>2, <2>3
<1>3. ReferencesObjects(w)
  <2> SUFFICES ASSUME NEW r \in w.sources
               PROVE  r[1] \in w.ids /\ r[3] \in w.objects
    BY DEF ReferencesObjects
  <2>1. CASE r \in a.sources
    BY <1>1, <2>1 DEF Sound, ReferencesObjects
  <2>2. CASE r \in {<<p.id, x[1], x[2]>> : x \in p.sources}
    BY <1>1, <2>2
  <2> QED
    BY <1>1, <2>1, <2>2
<1>4. OneSnapshot(w)
  <2> SUFFICES ASSUME NEW x \in w.sources, NEW y \in w.sources,
                      x[1] = y[1], x[2] = y[2]
               PROVE  x[3] = y[3]
    BY DEF OneSnapshot
  <2> DEFINE written == {<<p.id, q[1], q[2]>> : q \in p.sources}
             kept == {r \in a.sources : r[1] = p.id => r[2] \notin {q[1] : q \in p.sources}}
  <2>1. x \in kept \cup written /\ y \in kept \cup written
    BY <1>1
  <2>2. CASE x \in kept /\ y \in kept
    BY <2>2 DEF Sound, OneSnapshot
  <2>3. CASE x \in written /\ y \in written
    BY <2>3 DEF UniqueLocators
  <2>4. ~(x \in written /\ y \in kept) /\ ~(x \in kept /\ y \in written)
    OBVIOUS
  <2> QED
    BY <2>1, <2>2, <2>3, <2>4
<1>5. ProjectionsFresh(w)
  <2>1. p.stream \in Streams /\ p.id \in Sessions
    BY DEF ParsedSession
  <2> QED
    BY <1>1, <2>1, NoneDistinct DEF Sound, ProjectionsFresh, ArchiveValue
<1> QED
  BY <1>2, <1>3, <1>4, <1>5 DEF Sound, w

\* What each column of the archive is after an import.
LEMMA MergeFields ==
  ASSUME NEW a \in ArchiveValue, NEW src \in ArchiveValue
  PROVE  LET m == MergeArchive(a, src)
             new == src.ids \ a.ids
             held == {<<x[1], x[2]>> : x \in a.sources}
         IN  /\ m \in ArchiveValue
             /\ m.ids = a.ids \cup src.ids
             /\ m.parent = [s \in Sessions |-> IF s \in new THEN src.parent[s] ELSE a.parent[s]]
             /\ m.print = [s \in Sessions |-> IF s \in new THEN src.print[s] ELSE a.print[s]]
             /\ m.events = [s \in Sessions |-> IF s \in new THEN src.events[s] ELSE a.events[s]]
             /\ m.spans = [s \in Sessions |-> IF s \in new THEN src.spans[s] ELSE a.spans[s]]
             /\ m.aggregates = m.events
             /\ m.sources = a.sources \cup {y \in src.sources : <<y[1], y[2]>> \notin held}
             /\ m.objects = a.objects \cup src.objects
             /\ \A s \in m.ids : m.childCount[s] = Cardinality(Children(m, s))
<1> DEFINE new == src.ids \ a.ids
           adopt(mine, theirs) == [s \in Sessions |-> IF s \in new THEN theirs[s] ELSE mine[s]]
           held == {<<x[1], x[2]>> : x \in a.sources}
           srcs == a.sources \cup {y \in src.sources : <<y[1], y[2]>> \notin held}
           i == [a EXCEPT !.ids = @ \cup src.ids,
                          !.parent = adopt(@, src.parent),
                          !.print = adopt(@, src.print),
                          !.events = adopt(@, src.events),
                          !.spans = adopt(@, src.spans),
                          !.objects = @ \cup src.objects,
                          !.sources = srcs]
           j == [i EXCEPT !.aggregates = i.events]
           m == RefreshChildCount(j, j.ids)
<1>0. m = MergeArchive(a, src)
  BY DEF MergeArchive
<1>1. /\ adopt(a.parent, src.parent) \in [Sessions -> Sessions \cup {None}]
      /\ adopt(a.print, src.print) \in [Sessions -> Prints \cup {None}]
      /\ adopt(a.events, src.events) \in [Sessions -> Streams \cup {None}]
      /\ adopt(a.spans, src.spans) \in [Sessions -> Streams \cup {None}]
  BY DEF ArchiveValue
<1>2. /\ srcs \in SUBSET (Sessions \X Locators \X Contents)
      /\ a.objects \cup src.objects \in SUBSET Contents
      /\ a.ids \cup src.ids \in SUBSET Sessions
  BY DEF ArchiveValue
<1>3. /\ i.ids = a.ids \cup src.ids
      /\ i.parent = adopt(a.parent, src.parent)
      /\ i.print = adopt(a.print, src.print)
      /\ i.events = adopt(a.events, src.events)
      /\ i.spans = adopt(a.spans, src.spans)
      /\ i.objects = a.objects \cup src.objects
      /\ i.sources = srcs
  BY DEF ArchiveValue
<1> HIDE DEF srcs, adopt
<1>4. i \in ArchiveValue
  BY <1>1, <1>2 DEF ArchiveValue
<1> HIDE DEF i
<1>5. /\ j \in ArchiveValue
      /\ j.ids = i.ids /\ j.parent = i.parent /\ j.events = i.events /\ j.spans = i.spans
      /\ j.print = i.print
      /\ j.sources = i.sources /\ j.objects = i.objects /\ j.aggregates = i.events
  BY <1>4 DEF ArchiveValue
<1> HIDE DEF j
<1>6. /\ m \in ArchiveValue
      /\ m.ids = j.ids /\ m.parent = j.parent /\ m.aggregates = j.aggregates
      /\ m.print = j.print
      /\ m.sources = j.sources /\ m.objects = j.objects
      /\ m.events = j.events /\ m.spans = j.spans
      /\ \A s \in Sessions :
           m.childCount[s] = IF s \in j.ids \cap j.ids
                               THEN Cardinality(Children(j, s)) ELSE j.childCount[s]
  BY <1>5, RefreshFields
<1> HIDE DEF m
<1>7. \A s : Children(m, s) = Children(j, s)
  BY <1>6 DEF Children
<1>8. m.ids \subseteq Sessions
  BY <1>6 DEF ArchiveValue
<1>9. \A s \in m.ids : m.childCount[s] = Cardinality(Children(m, s))
  BY <1>6, <1>7, <1>8
<1>10. /\ m.parent = [s \in Sessions |-> IF s \in new THEN src.parent[s] ELSE a.parent[s]]
       /\ m.print = [s \in Sessions |-> IF s \in new THEN src.print[s] ELSE a.print[s]]
       /\ m.events = [s \in Sessions |-> IF s \in new THEN src.events[s] ELSE a.events[s]]
       /\ m.spans = [s \in Sessions |-> IF s \in new THEN src.spans[s] ELSE a.spans[s]]
       /\ m.sources = a.sources \cup {y \in src.sources : <<y[1], y[2]>> \notin held}
  BY <1>3, <1>5, <1>6 DEF adopt, srcs
<1> QED
  BY <1>0, <1>3, <1>5, <1>6, <1>9, <1>10

\* Merging two sound archives that passed the compatibility check gives a sound
\* archive: counts describe the union, and no snapshot is overwritten.
LEMMA MergeSound ==
  ASSUME NEW a \in ArchiveValue, NEW src \in ArchiveValue, Sound(a), Sound(src)
  PROVE  Sound(MergeArchive(a, src))
<1> DEFINE m == MergeArchive(a, src)
           new == src.ids \ a.ids
           held == {<<x[1], x[2]>> : x \in a.sources}
<1>1. /\ m \in ArchiveValue
      /\ m.ids = a.ids \cup src.ids
      /\ m.events = [s \in Sessions |-> IF s \in new THEN src.events[s] ELSE a.events[s]]
      /\ m.spans = [s \in Sessions |-> IF s \in new THEN src.spans[s] ELSE a.spans[s]]
      /\ m.aggregates = m.events
      /\ m.sources = a.sources \cup {y \in src.sources : <<y[1], y[2]>> \notin held}
      /\ m.objects = a.objects \cup src.objects
      /\ \A s \in m.ids : m.childCount[s] = Cardinality(Children(m, s))
  BY MergeFields
<1> HIDE DEF m
<1>2. CountsExact(m)
  BY <1>1 DEF CountsExact
<1>3. ReferencesObjects(m)
  BY <1>1 DEF Sound, ReferencesObjects
<1>4. OneSnapshot(m)
  BY <1>1 DEF Sound, OneSnapshot
<1>5. ProjectionsFresh(m)
  BY <1>1 DEF Sound, ProjectionsFresh, ArchiveValue
<1> QED
  BY <1>2, <1>3, <1>4, <1>5 DEF Sound, m

-------------------------------------------------------------------------------
(***************************************************************************)
(* The invariant                                                           *)
(***************************************************************************)
LEMMA SoundInit == Init => SoundInv
<1> SUFFICES ASSUME Init PROVE SoundInv
  OBVIOUS
<1>1. TypeOK
  BY EmptyArchiveSound DEF Init, TypeOK
<1>2. Sound(db) /\ Sound(backup) /\ \A c \in Connections : Sound(work[c])
  BY EmptyArchiveSound DEF Init
<1> QED
  BY <1>1, <1>2 DEF SoundInv

LEMMA SoundStep == SoundInv /\ [Next]_vars => SoundInv'
<1> SUFFICES ASSUME SoundInv, [Next]_vars PROVE SoundInv'
  OBVIOUS
<1> USE DEF SoundInv
<1>1. ASSUME NEW c \in Connections, NEW b \in Batches, BeginBatch(c, b)
      PROVE  SoundInv'
  <2>1. TypeOK'
    BY <1>1, BatchesTyped DEF BeginBatch, TypeOK
  <2>2. \A d \in Connections : Sound(work'[d])
    BY <1>1 DEF BeginBatch, TypeOK
  <2> QED
    BY <1>1, <2>1, <2>2 DEF BeginBatch
<1>2. ASSUME NEW c \in Connections, WriteNext(c)
      PROVE  SoundInv'
  <2> DEFINE p == Head(todo[c])
  <2>1. /\ todo[c] \in Seq(ParsedSession) /\ todo[c] # <<>>
        /\ work[c] \in ArchiveValue /\ UniqueLocators(p)
    BY <1>2 DEF WriteNext, TypeOK
  <2>2. p \in ParsedSession /\ Tail(todo[c]) \in Seq(ParsedSession)
    BY <2>1
  <2>3. WriteSession(work[c], p) \in ArchiveValue
    BY <2>1, <2>2, WriteSessionFields
  <2>4. Sound(WriteSession(work[c], p))
    BY <2>1, <2>2, WriteSessionSound
  <2>5. TypeOK'
    BY <1>2, <2>2, <2>3 DEF WriteNext, TypeOK
  <2>6. \A d \in Connections : Sound(work'[d])
    BY <1>2, <2>4 DEF WriteNext, TypeOK
  <2> QED
    BY <1>2, <2>5, <2>6 DEF WriteNext
<1>3. ASSUME NEW c \in Connections, Commit(c)
      PROVE  SoundInv'
  <2>1. TypeOK'
    BY <1>3, EmptyArchiveSound DEF Commit, Publish, TypeOK
  <2>2. Sound(db') /\ \A d \in Connections : Sound(work'[d])
    BY <1>3, EmptyArchiveSound DEF Commit, Publish, TypeOK
  <2> QED
    BY <1>3, <2>1, <2>2 DEF Commit
<1>4. ASSUME NEW c \in Connections, Abort(c)
      PROVE  SoundInv'
  <2>1. TypeOK'
    BY <1>4, EmptyArchiveSound DEF Abort, TypeOK
  <2>2. \A d \in Connections : Sound(work'[d])
    BY <1>4, EmptyArchiveSound DEF Abort, TypeOK
  <2> QED
    BY <1>4, <2>1, <2>2 DEF Abort
<1>5. ASSUME NEW c \in Connections, Import(c)
      PROVE  SoundInv'
  <2>1. MergeArchive(db, backup) \in ArchiveValue
    BY MergeFields DEF TypeOK
  <2>2. Sound(MergeArchive(db, backup))
    BY MergeSound DEF TypeOK
  <2>3. TypeOK'
    BY <1>5, <2>1 DEF Import, Publish, TypeOK
  <2> QED
    BY <1>5, <2>2, <2>3 DEF Import, Publish
<1>6. ASSUME Backup PROVE SoundInv'
  BY <1>6 DEF Backup, TypeOK
<1>7. ASSUME Rebuild PROVE SoundInv'
  BY <1>7, EmptyArchiveSound DEF Rebuild, TypeOK
<1>8. CASE UNCHANGED vars
  BY <1>8 DEF vars, TypeOK
<1> QED
  BY <1>1, <1>2, <1>3, <1>4, <1>5, <1>6, <1>7, <1>8 DEF Next

\* Every reachable archive, backup and working copy is sound.
LEMMA SoundAlways == Spec => []SoundInv
  BY SoundInit, SoundStep, PTL DEF Spec

\* The archive, the backup and the transactions always have their types.
THEOREM TypeCorrect == Spec => []TypeOK
<1>1. SoundInv => TypeOK
  BY DEF SoundInv
<1> QED
  BY <1>1, SoundAlways, PTL

\* child_count is the number of children at every commit: for any order of
\* ingest, any re-parenting, any number of writers, backups and imports.
THEOREM ChildCountCorrect == Spec => []ChildCountExact
<1>1. SoundInv => ChildCountExact
  BY DEF SoundInv, Sound, ChildCountExact
<1> QED
  BY <1>1, SoundAlways, PTL

\* Every source row of a committed archive leads to its captured object.
THEOREM SnapshotsRestorableAlways == Spec => []SnapshotsRestorable
<1>1. SoundInv => SnapshotsRestorable
  BY DEF SoundInv, Sound, SnapshotsRestorable
<1> QED
  BY <1>1, SoundAlways, PTL

\* A session never holds two snapshots of one locator.
THEOREM SnapshotsUnambiguousAlways == Spec => []SnapshotsUnambiguous
<1>1. SoundInv => SnapshotsUnambiguous
  BY DEF SoundInv, Sound, SnapshotsUnambiguous
<1> QED
  BY <1>1, SoundAlways, PTL

\* Events, aggregates and spans of a committed session come from one stream.
THEOREM ProjectionsAgreeAlways == Spec => []ProjectionsAgree
<1>1. SoundInv => ProjectionsAgree
  BY DEF SoundInv, Sound, ProjectionsAgree
<1> QED
  BY <1>1, SoundAlways, PTL

-------------------------------------------------------------------------------
(***************************************************************************)
(* Nothing captured is forgotten                                           *)
(***************************************************************************)
\* At most one connection writes, and a transaction that still may commit
\* knows every snapshot of the archive it will replace.
KnowsCommitted ==
  /\ \A c, d \in Writers : c = d
  /\ \A c \in Connections :
       phase[c] = "writing" \/ (phase[c] = "reading" /\ ~stale[c]) =>
         Held(db) \subseteq Held(work[c])

\* Writing a session keeps every (session, locator) pair that had a snapshot.
LEMMA WriteSessionHolds ==
  ASSUME NEW a \in ArchiveValue, NEW p \in ParsedSession
  PROVE  Held(a) \subseteq Held(WriteSession(a, p))
<1> DEFINE w == WriteSession(a, p)
           named == {x[1] : x \in p.sources}
<1>1. w.sources = {r \in a.sources : r[1] = p.id => r[2] \notin named}
                    \cup {<<p.id, x[1], x[2]>> : x \in p.sources}
  BY WriteSessionFields
<1> HIDE DEF w
<1> SUFFICES ASSUME NEW r \in a.sources
             PROVE  \E q \in w.sources : <<q[1], q[2]>> = <<r[1], r[2]>>
  BY DEF Held, w
<1>2. CASE r[1] = p.id /\ r[2] \in named
  <2>1. PICK x \in p.sources : x[1] = r[2]
    BY <1>2
  <2>2. <<p.id, x[1], x[2]>> \in w.sources
    BY <1>1
  <2> QED
    BY <1>2, <2>1, <2>2
<1>3. CASE ~(r[1] = p.id /\ r[2] \in named)
  BY <1>1, <1>3
<1> QED
  BY <1>2, <1>3

LEMMA KnowsCommittedStep ==
  SoundInv /\ KnowsCommitted /\ [Next]_vars => KnowsCommitted'
<1> SUFFICES ASSUME SoundInv, KnowsCommitted, [Next]_vars PROVE KnowsCommitted'
  OBVIOUS
<1>0. TypeOK
  BY DEF SoundInv
<1> USE <1>0 DEF KnowsCommitted, Writers
<1>1. ASSUME NEW c \in Connections, NEW b \in Batches, BeginBatch(c, b)
      PROVE  KnowsCommitted'
  BY <1>1 DEF BeginBatch, TypeOK
<1>2. ASSUME NEW c \in Connections, WriteNext(c)
      PROVE  KnowsCommitted'
  <2>1. /\ Head(todo[c]) \in ParsedSession
        /\ work[c] \in ArchiveValue
    BY <1>2 DEF WriteNext, TypeOK
  <2>2. Held(work[c]) \subseteq Held(WriteSession(work[c], Head(todo[c])))
    BY <2>1, WriteSessionHolds
  <2>3. Held(db) \subseteq Held(work[c])
    BY <1>2 DEF WriteNext, MayWrite
  <2>4. \A x, y \in Connections : phase'[x] = "writing" /\ phase'[y] = "writing" => x = y
    BY <1>2 DEF WriteNext, MayWrite, TypeOK
  <2>5. \A d \in Connections :
          phase'[d] = "writing" \/ (phase'[d] = "reading" /\ ~stale'[d]) =>
            Held(db') \subseteq Held(work'[d])
    BY <1>2, <2>2, <2>3 DEF WriteNext, TypeOK
  <2> QED
    BY <2>4, <2>5
<1>3. ASSUME NEW c \in Connections, Commit(c)
      PROVE  KnowsCommitted'
  <2>1. ~\E d \in Connections : phase'[d] = "writing"
    BY <1>3 DEF Commit, TypeOK
  <2>2. \A d \in Connections : phase'[d] = "reading" => d # c /\ phase[d] = "reading"
    BY <1>3 DEF Commit, TypeOK
  <2>3. \A d \in Connections : phase'[d] = "reading" => stale'[d]
    BY <1>3, <2>2, Zenon DEF Commit, Publish
  <2> QED
    BY <2>1, <2>3
<1>4. ASSUME NEW c \in Connections, Abort(c)
      PROVE  KnowsCommitted'
  BY <1>4 DEF Abort, TypeOK
<1>5. ASSUME NEW c \in Connections, Import(c)
      PROVE  KnowsCommitted'
  BY <1>5 DEF Import, Publish, TypeOK
<1>6. ASSUME Backup PROVE KnowsCommitted'
  BY <1>6 DEF Backup
<1>7. ASSUME Rebuild PROVE KnowsCommitted'
  BY <1>7 DEF Rebuild
<1>8. CASE UNCHANGED vars
  BY <1>8 DEF vars
<1> QED
  BY <1>1, <1>2, <1>3, <1>4, <1>5, <1>6, <1>7, <1>8 DEF Next

\* Short of a rebuild, no committed step loses a captured (session, locator):
\* neither a later parse that no longer names it, nor a concurrent writer.
THEOREM SnapshotsRetainedAlways == Spec => SnapshotsRetained
<1>1. Init => KnowsCommitted
  BY DEF Init, KnowsCommitted, Writers
<1>2. SoundInv /\ KnowsCommitted /\ [Next]_vars
        => [Held(db) \subseteq Held(db') \/ db' = EmptyArchive]_vars
  <2> SUFFICES ASSUME SoundInv, KnowsCommitted, Next
               PROVE  Held(db) \subseteq Held(db') \/ db' = EmptyArchive
    BY DEF vars
  <2>1. ASSUME NEW c \in Connections, Commit(c)
        PROVE  Held(db) \subseteq Held(db')
    BY <2>1 DEF Commit, Publish, KnowsCommitted
  <2>2. ASSUME NEW c \in Connections, Import(c)
        PROVE  Held(db) \subseteq Held(db')
    <3>1. db \in ArchiveValue /\ backup \in ArchiveValue
      BY DEF SoundInv, TypeOK
    <3>2. db.sources \subseteq MergeArchive(db, backup).sources
      <4> DEFINE more == {y \in backup.sources : <<y[1], y[2]>> \notin {<<x[1], x[2]>> : x \in db.sources}}
      <4>1. MergeArchive(db, backup).sources = db.sources \cup more
        BY <3>1, MergeFields
      <4> HIDE DEF more
      <4> QED
        BY <4>1
    <3> QED
      BY <2>2, <3>2 DEF Import, Publish, Held
  <2>3. ASSUME Rebuild PROVE db' = EmptyArchive
    BY <2>3 DEF Rebuild
  <2>4. ASSUME Backup \/ (\E c \in Connections : WriteNext(c) \/ Abort(c))
                \/ (\E c \in Connections, b \in Batches : BeginBatch(c, b))
        PROVE  db' = db
    BY <2>4 DEF Backup, WriteNext, Abort, BeginBatch
  <2> QED
    BY <2>1, <2>2, <2>3, <2>4 DEF Next
<1> QED
  BY <1>1, <1>2, SoundAlways, KnowsCommittedStep, PTL DEF Spec, SnapshotsRetained

-------------------------------------------------------------------------------
(***************************************************************************)
(* The transactions implement Archive.tla                                  *)
(*                                                                         *)
(* A transaction writes its batch one session at a time into a private     *)
(* copy; what the promise says of the whole batch is true of the part      *)
(* already written, relative to the committed archive, for as long as the  *)
(* transaction may still commit.                                           *)
(***************************************************************************)
Names(p, s, l) == p.id = s /\ \E o \in Contents : <<l, o>> \in p.sources

SnapshotIn(p, l) == CHOOSE o \in Contents : <<l, o>> \in p.sources

\* w is archive a with the first n parses of b accepted: by session, the facts
\* of the last of them; by session and locator, the bytes it was last captured as.
FactsWritten(a, w, b, n, s) ==
  \/ /\ \A i \in 1..n : b[i].id # s
     /\ LatestOf(w)[s] = LatestOf(a)[s]
  \/ \E i \in 1..n :
       /\ b[i].id = s
       /\ \A j \in 1..n : b[j].id = s => j <= i
       /\ LatestOf(w)[s] = {Promise!FactsOf(b[i])}

SnapshotWritten(a, w, b, n, s, l) ==
  \/ /\ \A i \in 1..n : ~Names(b[i], s, l)
     /\ CapturedOf(w)[s][l] = CapturedOf(a)[s][l]
  \/ \E i \in 1..n :
       /\ Names(b[i], s, l)
       /\ \A j \in 1..n : Names(b[j], s, l) => j <= i
       /\ CapturedOf(w)[s][l] = SnapshotIn(b[i], l)

Written(a, w, b, n) ==
  /\ \A s \in Sessions : FactsWritten(a, w, b, n, s)
  /\ \A s \in Sessions, l \in Locators : SnapshotWritten(a, w, b, n, s, l)

\* t is what remains of batch b after its first n parses.
Remains(b, n, t) ==
  /\ n \in Nat
  /\ Len(t) + n = Len(b)
  /\ \A i \in 1..Len(t) : t[i] = b[n + i]

\* One connection's transaction, given the committed archive.
Explained(at, archive, copy, rest, behind) ==
  at # "idle" =>
    \E b \in Batches : \E n \in 0..Len(b) :
      /\ Remains(b, n, rest)
      /\ at = "writing" \/ ~behind => Written(archive, copy, b, n)

WorkExplained ==
  \A c \in Connections : Explained(phase[c], db, work[c], todo[c], stale[c])

\* The abstract captured bytes are the object of the one source row, if any.
LEMMA CapturedIs ==
  ASSUME NEW a \in ArchiveValue, OneSnapshot(a), NEW s \in Sessions, NEW l \in Locators
  PROVE  /\ \A o \in Contents : <<s, l, o>> \in a.sources => CapturedOf(a)[s][l] = o
         /\ (\A o \in Contents : <<s, l, o>> \notin a.sources) => CapturedOf(a)[s][l] = None
         /\ CapturedOf(a)[s][l] # None =>
              /\ CapturedOf(a)[s][l] \in Contents
              /\ <<s, l, CapturedOf(a)[s][l]>> \in a.sources
<1>1. <<s, l>> \in Held(a) <=> \E o \in Contents : <<s, l, o>> \in a.sources
  <2>1. ASSUME <<s, l>> \in Held(a)
        PROVE  \E o \in Contents : <<s, l, o>> \in a.sources
    <3>1. PICK r \in a.sources : <<s, l>> = <<r[1], r[2]>>
      BY <2>1 DEF Held
    <3>2. r[3] \in Contents /\ r = <<r[1], r[2], r[3]>>
      BY DEF ArchiveValue
    <3>3. r = <<s, l, r[3]>>
      BY <3>1, <3>2
    <3> QED
      BY <3>2, <3>3
  <2>2. ASSUME NEW o \in Contents, <<s, l, o>> \in a.sources
        PROVE  <<s, l>> \in Held(a)
    BY <2>2 DEF Held
  <2> QED
    BY <2>1, <2>2
<1>2. CapturedOf(a)[s][l] = IF <<s, l>> \in Held(a)
                              THEN CHOOSE o \in Contents : <<s, l, o>> \in a.sources
                              ELSE None
  BY DEF CapturedOf
<1>3. \A o, q \in Contents : <<s, l, o>> \in a.sources /\ <<s, l, q>> \in a.sources => o = q
  <2> SUFFICES ASSUME NEW o \in Contents, NEW q \in Contents,
                      <<s, l, o>> \in a.sources, <<s, l, q>> \in a.sources
               PROVE  o = q
    OBVIOUS
  <2> DEFINE x == <<s, l, o>>
             y == <<s, l, q>>
  <2>1. x[1] = y[1] /\ x[2] = y[2] /\ x[3] = o /\ y[3] = q
    OBVIOUS
  <2>2. x \in a.sources /\ y \in a.sources
    OBVIOUS
  <2> HIDE DEF x, y
  <2> QED
    BY <2>1, <2>2 DEF OneSnapshot
<1>4. CASE \E o \in Contents : <<s, l, o>> \in a.sources
  <2> DEFINE z == CHOOSE o \in Contents : <<s, l, o>> \in a.sources
  <2>1. z \in Contents /\ <<s, l, z>> \in a.sources
    BY <1>4
  <2>2. CapturedOf(a)[s][l] = z
    BY <1>1, <1>2, <1>4
  <2> HIDE DEF z
  <2> QED
    BY <1>3, <1>4, <2>1, <2>2
<1>5. CASE ~\E o \in Contents : <<s, l, o>> \in a.sources
  BY <1>1, <1>2, <1>5
<1> QED
  BY <1>4, <1>5

\* What writing one session does to the abstract facts and snapshots.
LEMMA LatestWritten ==
  ASSUME NEW a \in ArchiveValue, NEW p \in ParsedSession, NEW s \in Sessions
  PROVE  LatestOf(WriteSession(a, p))[s] =
           IF s = p.id THEN {Promise!FactsOf(p)} ELSE LatestOf(a)[s]
<1> DEFINE w == WriteSession(a, p)
<1>1. /\ w.ids = a.ids \cup {p.id}
      /\ w.parent = [a.parent EXCEPT ![p.id] = p.parent]
      /\ w.print = [a.print EXCEPT ![p.id] = p.print]
      /\ w.events = [a.events EXCEPT ![p.id] = p.stream]
  BY WriteSessionFields
<1> HIDE DEF w
<1>2. s = p.id => w.parent[s] = p.parent /\ w.print[s] = p.print /\ w.events[s] = p.stream
  BY <1>1 DEF ArchiveValue
<1>3. s # p.id => /\ w.parent[s] = a.parent[s] /\ w.print[s] = a.print[s]
                  /\ w.events[s] = a.events[s] /\ (s \in w.ids <=> s \in a.ids)
  BY <1>1 DEF ArchiveValue
<1>4. \A v : LatestOf(v)[s] =
               IF s \in v.ids
                 THEN {[parent |-> v.parent[s], print |-> v.print[s], stream |-> v.events[s]]}
                 ELSE {}
  BY DEF LatestOf
<1>5. CASE s = p.id
  BY <1>1, <1>2, <1>4, <1>5 DEF Promise!FactsOf, w
<1>6. CASE s # p.id
  BY <1>3, <1>4, <1>6 DEF w
<1> QED
  BY <1>5, <1>6

LEMMA CapturedWritten ==
  ASSUME NEW a \in ArchiveValue, NEW p \in ParsedSession, UniqueLocators(p), Sound(a),
         NEW s \in Sessions, NEW l \in Locators
  PROVE  CapturedOf(WriteSession(a, p))[s][l] =
           IF Names(p, s, l) THEN SnapshotIn(p, l) ELSE CapturedOf(a)[s][l]
<1> DEFINE w == WriteSession(a, p)
           named == {x[1] : x \in p.sources}
<1>1. /\ w \in ArchiveValue
      /\ w.sources = {r \in a.sources : r[1] = p.id => r[2] \notin named}
                       \cup {<<p.id, x[1], x[2]>> : x \in p.sources}
  BY WriteSessionFields
<1>2. OneSnapshot(w) /\ OneSnapshot(a)
  BY WriteSessionSound DEF Sound
<1>3. \A x \in p.sources : /\ x[1] \in Locators /\ x[2] \in Contents
                           /\ x = <<x[1], x[2]>>
  BY DEF ParsedSession
<1>4. l \in named <=> \E o \in Contents : <<l, o>> \in p.sources
  BY <1>3
<1> HIDE DEF w, named
<1>5. CASE Names(p, s, l)
  <2> DEFINE z == SnapshotIn(p, l)
  <2>1. z \in Contents /\ <<l, z>> \in p.sources /\ s = p.id
    BY <1>5 DEF Names, SnapshotIn
  <2> HIDE DEF z
  <2>2. <<s, l, z>> \in {<<p.id, x[1], x[2]>> : x \in p.sources}
    BY <2>1
  <2>3. <<s, l, z>> \in w.sources
    BY <1>1, <2>2
  <2>4. CapturedOf(w)[s][l] = z
    BY <1>1, <1>2, <2>1, <2>3, CapturedIs
  <2> QED
    BY <1>5, <2>4 DEF w, z
<1>6. CASE ~Names(p, s, l)
  <2>1. \A o \in Contents : <<s, l, o>> \in w.sources <=> <<s, l, o>> \in a.sources
    <3> SUFFICES ASSUME NEW o \in Contents
                 PROVE  <<s, l, o>> \in w.sources <=> <<s, l, o>> \in a.sources
      OBVIOUS
    <3>1. s = p.id => l \notin named
      BY <1>4, <1>6 DEF Names
    <3>2. <<s, l, o>> \notin {<<p.id, x[1], x[2]>> : x \in p.sources}
      BY <1>3, <1>6 DEF Names
    <3> QED
      BY <1>1, <3>1, <3>2
  <2>2. CASE \E o \in Contents : <<s, l, o>> \in a.sources
    <3>1. PICK o \in Contents : <<s, l, o>> \in a.sources
      BY <2>2
    <3>2. CapturedOf(a)[s][l] = o
      BY <1>2, <3>1, CapturedIs
    <3>3. CapturedOf(w)[s][l] = o
      BY <1>1, <1>2, <2>1, <3>1, CapturedIs
    <3> QED
      BY <1>6, <3>2, <3>3 DEF w
  <2>3. CASE \A o \in Contents : <<s, l, o>> \notin a.sources
    <3>1. CapturedOf(a)[s][l] = None
      BY <1>2, <2>3, CapturedIs
    <3>2. CapturedOf(w)[s][l] = None
      BY <1>1, <1>2, <2>1, <2>3, CapturedIs
    <3> QED
      BY <1>6, <3>1, <3>2 DEF w
  <2> QED
    BY <2>2, <2>3
<1> QED
  BY <1>5, <1>6

\* A transaction that has written nothing leaves the archive as it found it,
\* and each session written extends the accepted part of the batch by one.
LEMMA NothingWritten ==
  ASSUME NEW a, NEW b
  PROVE  Written(a, a, b, 0)
BY DEF Written, FactsWritten, SnapshotWritten

LEMMA OneMoreWritten ==
  ASSUME NEW a, NEW w \in ArchiveValue, Sound(w), NEW b, NEW n \in Nat,
         NEW p \in ParsedSession, b[n + 1] = p, UniqueLocators(p), Written(a, w, b, n)
  PROVE  Written(a, WriteSession(w, p), b, n + 1)
<1> DEFINE v == WriteSession(w, p)
<1>1. \A i : i \in 1..(n + 1) <=> (i \in 1..n \/ i = n + 1)
  OBVIOUS
<1>2. n + 1 \in 1..(n + 1) /\ \A i \in 1..n : i <= n + 1 /\ i <= n
  OBVIOUS
<1>3. ASSUME NEW s \in Sessions
      PROVE  FactsWritten(a, v, b, n + 1, s)
  <2>1. LatestOf(v)[s] = IF s = p.id THEN {Promise!FactsOf(p)} ELSE LatestOf(w)[s]
    BY LatestWritten
  <2>2. FactsWritten(a, w, b, n, s)
    BY DEF Written
  <2> HIDE DEF v
  <2>3. CASE s = p.id
    <3>1. \A j \in 1..(n + 1) : j <= n + 1
      OBVIOUS
    <3> QED
      BY <1>2, <2>1, <2>3, <3>1 DEF FactsWritten
  <2>4. CASE s # p.id
    <3>1. CASE \A i \in 1..n : b[i].id # s
      <4>1. LatestOf(w)[s] = LatestOf(a)[s]
        BY <2>2, <3>1 DEF FactsWritten
      <4> QED
        BY <1>1, <2>1, <2>4, <3>1, <4>1 DEF FactsWritten
    <3>2. CASE ~\A i \in 1..n : b[i].id # s
      <4>1. PICK i \in 1..n : /\ b[i].id = s
                              /\ \A j \in 1..n : b[j].id = s => j <= i
                              /\ LatestOf(w)[s] = {Promise!FactsOf(b[i])}
        BY <2>2, <3>2 DEF FactsWritten
      <4>2. i \in 1..(n + 1) /\ \A j \in 1..(n + 1) : b[j].id = s => j <= i
        BY <1>1, <2>4, <4>1
      <4> QED
        BY <2>1, <2>4, <4>1, <4>2 DEF FactsWritten
    <3> QED
      BY <3>1, <3>2
  <2> QED
    BY <2>3, <2>4
<1>4. ASSUME NEW s \in Sessions, NEW l \in Locators
      PROVE  SnapshotWritten(a, v, b, n + 1, s, l)
  <2>1. CapturedOf(v)[s][l] = IF Names(p, s, l) THEN SnapshotIn(p, l) ELSE CapturedOf(w)[s][l]
    BY CapturedWritten
  <2>2. SnapshotWritten(a, w, b, n, s, l)
    BY DEF Written
  <2> HIDE DEF v
  <2>3. CASE Names(p, s, l)
    <3>1. \A j \in 1..(n + 1) : j <= n + 1
      OBVIOUS
    <3> QED
      BY <1>2, <2>1, <2>3, <3>1 DEF SnapshotWritten
  <2>4. CASE ~Names(p, s, l)
    <3>1. CASE \A i \in 1..n : ~Names(b[i], s, l)
      <4>1. CapturedOf(w)[s][l] = CapturedOf(a)[s][l]
        BY <2>2, <3>1 DEF SnapshotWritten
      <4> QED
        BY <1>1, <2>1, <2>4, <3>1, <4>1 DEF SnapshotWritten
    <3>2. CASE ~\A i \in 1..n : ~Names(b[i], s, l)
      <4>1. PICK i \in 1..n : /\ Names(b[i], s, l)
                              /\ \A j \in 1..n : Names(b[j], s, l) => j <= i
                              /\ CapturedOf(w)[s][l] = SnapshotIn(b[i], l)
        BY <2>2, <3>2 DEF SnapshotWritten
      <4>2. i \in 1..(n + 1) /\ \A j \in 1..(n + 1) : Names(b[j], s, l) => j <= i
        BY <1>1, <2>4, <4>1
      <4> QED
        BY <2>1, <2>4, <4>1, <4>2 DEF SnapshotWritten
    <3> QED
      BY <3>1, <3>2
  <2> QED
    BY <2>3, <2>4
<1> QED
  BY <1>3, <1>4 DEF Written

LEMMA WorkExplainedStep ==
  SoundInv /\ KnowsCommitted /\ WorkExplained /\ [Next]_vars => WorkExplained'
<1> SUFFICES ASSUME SoundInv, KnowsCommitted, WorkExplained, [Next]_vars
             PROVE  \A d \in Connections :
                      Explained(phase'[d], db', work'[d], todo'[d], stale'[d])
  BY DEF WorkExplained
<1>0. TypeOK
  BY DEF SoundInv
<1>1. ASSUME NEW c \in Connections, NEW b \in Batches, BeginBatch(c, b), NEW d \in Connections
      PROVE  Explained(phase'[d], db', work'[d], todo'[d], stale'[d])
  <2>1. CASE d = c
    <3>1. b \in Seq(ParsedSession)
      BY BatchesTyped
    <3>2. todo'[d] = b /\ work'[d] = db /\ db' = db
      BY <1>0, <1>1, <2>1 DEF BeginBatch, TypeOK
    <3>3. Remains(b, 0, b) /\ 0 \in 0..Len(b)
      BY <3>1 DEF Remains
    <3>4. Written(db', work'[d], b, 0)
      BY <3>2, NothingWritten
    <3> QED
      BY <3>2, <3>3, <3>4 DEF Explained
  <2>2. CASE d # c
    <3>1. /\ phase'[d] = phase[d] /\ work'[d] = work[d] /\ todo'[d] = todo[d] /\ db' = db
          /\ stale'[d] = stale[d]
      BY <1>0, <1>1, <2>2 DEF BeginBatch, TypeOK
    <3> QED
      BY <3>1 DEF WorkExplained
  <2> QED
    BY <2>1, <2>2
<1>2. ASSUME NEW c \in Connections, WriteNext(c), NEW d \in Connections
      PROVE  Explained(phase'[d], db', work'[d], todo'[d], stale'[d])
  <2>1. CASE d = c
    <3> DEFINE t == todo[c]
    <3>1. /\ t \in Seq(ParsedSession) /\ t # <<>> /\ UniqueLocators(Head(t))
          /\ work[c] \in ArchiveValue /\ Sound(work[c])
          /\ work'[c] = WriteSession(work[c], Head(t))
          /\ todo'[c] = Tail(t) /\ db' = db /\ phase'[c] = "writing"
      BY <1>0, <1>2 DEF WriteNext, TypeOK, SoundInv
    <3>2. phase[c] # "idle" /\ (phase[c] = "writing" \/ ~stale[c])
      BY <1>2 DEF WriteNext, MayWrite
    <3>3. Explained(phase[c], db, work[c], t, stale[c])
      BY DEF WorkExplained
    <3> HIDE DEF t
    <3>4. PICK b \in Batches : \E n \in 0..Len(b) : Remains(b, n, t) /\ Written(db, work[c], b, n)
      BY <3>2, <3>3 DEF Explained
    <3>5. PICK n \in 0..Len(b) : Remains(b, n, t) /\ Written(db, work[c], b, n)
      BY <3>4
    <3>6. b \in Seq(ParsedSession)
      BY BatchesTyped
    <3>7. /\ n \in Nat /\ n + 1 \in 0..Len(b) /\ Head(t) = b[n + 1] /\ Head(t) \in ParsedSession
          /\ Len(Tail(t)) = Len(t) - 1 /\ \A i \in 1..Len(Tail(t)) : Tail(t)[i] = t[i + 1]
      BY <3>1, <3>5, <3>6 DEF Remains
    <3>8. Remains(b, n + 1, Tail(t))
      <4>1. Len(Tail(t)) + (n + 1) = Len(b)
        BY <3>1, <3>5, <3>6, <3>7 DEF Remains
      <4>2. ASSUME NEW i \in 1..Len(Tail(t))
            PROVE  Tail(t)[i] = b[(n + 1) + i]
        <5>1. i + 1 \in 1..Len(t) /\ n + (i + 1) = (n + 1) + i
          BY <3>1, <3>7
        <5> QED
          BY <3>5, <3>7, <5>1 DEF Remains
      <4>3. \A i \in 1..Len(Tail(t)) : Tail(t)[i] = b[(n + 1) + i]
        BY <4>2
      <4>4. n + 1 \in Nat
        <5>1. n \in Nat
          BY <3>7
        <5> QED
          BY <5>1
      <4> QED
        BY <4>1, <4>3, <4>4, Zenon DEF Remains
    <3>9. Written(db, WriteSession(work[c], Head(t)), b, n + 1)
      BY <3>1, <3>5, <3>7, OneMoreWritten
    <3> QED
      BY <2>1, <3>1, <3>7, <3>8, <3>9 DEF Explained
  <2>2. CASE d # c
    <3>1. /\ phase'[d] = phase[d] /\ work'[d] = work[d] /\ todo'[d] = todo[d] /\ db' = db
          /\ stale'[d] = stale[d]
      BY <1>0, <1>2, <2>2 DEF WriteNext, TypeOK
    <3> QED
      BY <3>1 DEF WorkExplained
  <2> QED
    BY <2>1, <2>2
<1>3. ASSUME NEW c \in Connections, Commit(c) \/ Import(c), NEW d \in Connections
      PROVE  Explained(phase'[d], db', work'[d], todo'[d], stale'[d])
  <2>1. phase'[d] # "writing"
    <3>1. Commit(c) => ~(d # c /\ phase[d] = "writing")
      BY DEF Commit, KnowsCommitted, Writers
    <3> QED
      BY <1>0, <1>3, <3>1 DEF Commit, Import, Writers, TypeOK
  <2>2. CASE phase'[d] = "idle"
    BY <2>2 DEF Explained
  <2>3. CASE phase'[d] = "reading"
    <3>1. phase[d] = "reading" /\ d # c
      BY <1>0, <1>3, <2>3 DEF Commit, Import, TypeOK
    <3>2. stale'[d]
      BY <1>3, <3>1, Zenon DEF Commit, Import, Publish
    <3>3. todo'[d] = todo[d]
      BY <1>3 DEF Commit, Import
    <3>4. \E b \in Batches : \E n \in 0..Len(b) : Remains(b, n, todo[d])
      BY <3>1 DEF WorkExplained, Explained
    <3> QED
      BY <2>3, <3>2, <3>3, <3>4 DEF Explained
  <2>4. phase'[d] \in {"idle", "reading", "writing"}
    BY <1>0, <1>3 DEF Commit, Import, TypeOK
  <2> QED
    BY <2>1, <2>2, <2>3, <2>4
<1>4. ASSUME NEW c \in Connections, Abort(c), NEW d \in Connections
      PROVE  Explained(phase'[d], db', work'[d], todo'[d], stale'[d])
  <2>1. CASE d = c
    BY <1>0, <1>4, <2>1 DEF Abort, TypeOK, Explained
  <2>2. CASE d # c
    <3>1. /\ phase'[d] = phase[d] /\ work'[d] = work[d] /\ todo'[d] = todo[d] /\ db' = db
          /\ stale'[d] = stale[d]
      BY <1>0, <1>4, <2>2 DEF Abort, TypeOK
    <3> QED
      BY <3>1 DEF WorkExplained
  <2> QED
    BY <2>1, <2>2
<1>5. ASSUME Rebuild, NEW d \in Connections
      PROVE  Explained(phase'[d], db', work'[d], todo'[d], stale'[d])
  BY <1>5 DEF Rebuild, Explained
<1>6. CASE Backup \/ UNCHANGED vars
  BY <1>6 DEF Backup, vars, WorkExplained
<1> QED
  BY <1>1, <1>2, <1>3, <1>4, <1>5, <1>6 DEF Next

\* A commit accepts the whole batch on top of the archive it replaces.
LEMMA CommitAccepts ==
  ASSUME SoundInv, KnowsCommitted, WorkExplained, NEW c \in Connections, Commit(c)
  PROVE  \E b \in Batches : Promise!Accept(b)
<1>1. /\ phase[c] = "writing" /\ todo[c] = <<>> /\ db' = work[c] /\ backup' = backup
  BY DEF Commit, Publish
<1>2. PICK b \in Batches : \E n \in 0..Len(b) : Remains(b, n, todo[c]) /\ Written(db, work[c], b, n)
  BY <1>1 DEF WorkExplained, Explained
<1>3. b \in Seq(ParsedSession) /\ DOMAIN b = 1..Len(b)
  BY BatchesTyped
<1>4. Written(db, db', b, Len(b))
  <2>1. PICK n \in 0..Len(b) : Remains(b, n, todo[c]) /\ Written(db, work[c], b, n)
    BY <1>2
  <2>2. n = Len(b)
    BY <1>1, <1>3, <2>1 DEF Remains
  <2> QED
    BY <1>1, <2>1, <2>2
<1>5. ASSUME NEW s \in Sessions
      PROVE  LatestOf(db')[s] =
               LET i == Promise!LastIn(b, LAMBDA p : p.id = s)
               IN  IF i = 0 THEN LatestOf(db)[s] ELSE {Promise!FactsOf(b[i])}
  <2> DEFINE k == Promise!LastIn(b, LAMBDA p : p.id = s)
  <2>1. k = IF \E i \in DOMAIN b : b[i].id = s
              THEN CHOOSE i \in DOMAIN b :
                     b[i].id = s /\ \A j \in DOMAIN b : b[j].id = s => j <= i
              ELSE 0
    BY DEF Promise!LastIn
  <2>2. FactsWritten(db, db', b, Len(b), s)
    BY <1>4 DEF Written
  <2> HIDE DEF k
  <2>3. CASE \A i \in 1..Len(b) : b[i].id # s
    <3>1. k = 0
      BY <1>3, <2>1, <2>3
    <3> QED
      BY <2>2, <2>3, <3>1 DEF FactsWritten, k
  <2>4. CASE ~\A i \in 1..Len(b) : b[i].id # s
    <3>1. PICK i \in 1..Len(b) : /\ b[i].id = s
                                 /\ \A j \in 1..Len(b) : b[j].id = s => j <= i
                                 /\ LatestOf(db')[s] = {Promise!FactsOf(b[i])}
      BY <2>2, <2>4 DEF FactsWritten
    <3>2. k \in 1..Len(b) /\ b[k].id = s /\ \A j \in 1..Len(b) : b[j].id = s => j <= k
      BY <1>3, <2>1, <3>1
    <3>3. k = i /\ k # 0
      BY <3>1, <3>2
    <3> QED
      BY <3>1, <3>3 DEF k
  <2> QED
    BY <2>3, <2>4
<1>6. ASSUME NEW s \in Sessions, NEW l \in Locators
      PROVE  CapturedOf(db')[s][l] =
               LET i == Promise!LastIn(b, LAMBDA p : p.id = s /\ \E o \in Contents : <<l, o>> \in p.sources)
               IN  IF i = 0 THEN CapturedOf(db)[s][l]
                   ELSE CHOOSE o \in Contents : <<l, o>> \in b[i].sources
  <2> DEFINE k == Promise!LastIn(b, LAMBDA p : p.id = s /\ \E o \in Contents : <<l, o>> \in p.sources)
  <2>1. k = IF \E i \in DOMAIN b : Names(b[i], s, l)
              THEN CHOOSE i \in DOMAIN b :
                     Names(b[i], s, l) /\ \A j \in DOMAIN b : Names(b[j], s, l) => j <= i
              ELSE 0
    BY DEF Promise!LastIn, Names
  <2>2. SnapshotWritten(db, db', b, Len(b), s, l)
    BY <1>4 DEF Written
  <2> HIDE DEF k
  <2>3. CASE \A i \in 1..Len(b) : ~Names(b[i], s, l)
    <3>1. k = 0
      BY <1>3, <2>1, <2>3
    <3> QED
      BY <2>2, <2>3, <3>1 DEF SnapshotWritten, k
  <2>4. CASE ~\A i \in 1..Len(b) : ~Names(b[i], s, l)
    <3>1. PICK i \in 1..Len(b) : /\ Names(b[i], s, l)
                                 /\ \A j \in 1..Len(b) : Names(b[j], s, l) => j <= i
                                 /\ CapturedOf(db')[s][l] = SnapshotIn(b[i], l)
      BY <2>2, <2>4 DEF SnapshotWritten
    <3>2. k \in 1..Len(b) /\ Names(b[k], s, l) /\ \A j \in 1..Len(b) : Names(b[j], s, l) => j <= k
      BY <1>3, <2>1, <3>1
    <3>3. k = i /\ k # 0
      BY <3>1, <3>2
    <3> QED
      BY <3>1, <3>3 DEF k, SnapshotIn
  <2> QED
    BY <2>3, <2>4
<1>7. LatestOf(db)' = LatestOf(db') /\ CapturedOf(db)' = CapturedOf(db')
  BY DEF LatestOf, CapturedOf, Held
<1>8. LatestOf(db)' = [s \in Sessions |->
        LET i == Promise!LastIn(b, LAMBDA p : p.id = s)
        IN  IF i = 0 THEN LatestOf(db)[s] ELSE {Promise!FactsOf(b[i])}]
  <2>1. LatestOf(db') = [s \in Sessions |-> LatestOf(db')[s]]
    BY DEF LatestOf
  <2> QED
    BY <1>5, <1>7, <2>1
<1>9. CapturedOf(db)' = [s \in Sessions |-> [l \in Locators |->
        LET i == Promise!LastIn(b, LAMBDA p : p.id = s /\ \E o \in Contents : <<l, o>> \in p.sources)
        IN  IF i = 0 THEN CapturedOf(db)[s][l]
            ELSE CHOOSE o \in Contents : <<l, o>> \in b[i].sources]]
  <2>1. CapturedOf(db') = [s \in Sessions |-> [l \in Locators |-> CapturedOf(db')[s][l]]]
    BY DEF CapturedOf
  <2> QED
    BY <1>6, <1>7, <2>1
<1>10. <<LatestOf(backup), CapturedOf(backup)>>' = <<LatestOf(backup), CapturedOf(backup)>>
  BY <1>1 DEF LatestOf, CapturedOf, Held
<1>11. Promise!Accept(b)
  BY <1>8, <1>9, <1>10 DEF Promise!Accept
<1> QED
  BY <1>11

\* An import that passes the compatibility check adds what the backup knows and
\* the archive does not, and changes nothing the archive knew.
LEMMA LatestMerged ==
  ASSUME NEW a \in ArchiveValue, NEW src \in ArchiveValue, ImportCompatible(a, src),
         NEW s \in Sessions
  PROVE  /\ LatestOf(MergeArchive(a, src))[s] = LatestOf(a)[s] \cup LatestOf(src)[s]
         /\ LatestOf(a)[s] # {} /\ LatestOf(src)[s] # {} => LatestOf(a)[s] = LatestOf(src)[s]
<1> DEFINE m == MergeArchive(a, src)
           new == src.ids \ a.ids
<1>1. /\ m.ids = a.ids \cup src.ids
      /\ m.parent = [x \in Sessions |-> IF x \in new THEN src.parent[x] ELSE a.parent[x]]
      /\ m.print = [x \in Sessions |-> IF x \in new THEN src.print[x] ELSE a.print[x]]
      /\ m.events = [x \in Sessions |-> IF x \in new THEN src.events[x] ELSE a.events[x]]
  BY MergeFields
<1> HIDE DEF m
<1>2. \A v : LatestOf(v)[s] =
               IF s \in v.ids
                 THEN {[parent |-> v.parent[s], print |-> v.print[s], stream |-> v.events[s]]}
                 ELSE {}
  BY DEF LatestOf
<1>3. CASE s \in a.ids /\ s \in src.ids
  <2>1. /\ a.parent[s] = src.parent[s] /\ a.print[s] = src.print[s] /\ a.events[s] = src.events[s]
    BY <1>3 DEF ImportCompatible
  <2>2. m.parent[s] = a.parent[s] /\ m.print[s] = a.print[s] /\ m.events[s] = a.events[s] /\ s \in m.ids
    BY <1>1, <1>3
  <2> QED
    BY <1>2, <1>3, <2>1, <2>2 DEF m
<1>4. CASE s \in a.ids /\ s \notin src.ids
  <2>1. m.parent[s] = a.parent[s] /\ m.print[s] = a.print[s] /\ m.events[s] = a.events[s] /\ s \in m.ids
    BY <1>1, <1>4
  <2> QED
    BY <1>2, <1>4, <2>1 DEF m
<1>5. CASE s \notin a.ids /\ s \in src.ids
  <2>1. m.parent[s] = src.parent[s] /\ m.print[s] = src.print[s] /\ m.events[s] = src.events[s] /\ s \in m.ids
    BY <1>1, <1>5
  <2> QED
    BY <1>2, <1>5, <2>1 DEF m
<1>6. CASE s \notin a.ids /\ s \notin src.ids
  BY <1>1, <1>2, <1>6 DEF m
<1> QED
  BY <1>3, <1>4, <1>5, <1>6

LEMMA CapturedMerged ==
  ASSUME NEW a \in ArchiveValue, NEW src \in ArchiveValue, Sound(a), Sound(src),
         ImportCompatible(a, src), NEW s \in Sessions, NEW l \in Locators
  PROVE  /\ CapturedOf(MergeArchive(a, src))[s][l] =
              IF CapturedOf(a)[s][l] = None THEN CapturedOf(src)[s][l] ELSE CapturedOf(a)[s][l]
         /\ CapturedOf(a)[s][l] # None /\ CapturedOf(src)[s][l] # None =>
              CapturedOf(a)[s][l] = CapturedOf(src)[s][l]
<1> DEFINE m == MergeArchive(a, src)
           held == {<<x[1], x[2]>> : x \in a.sources}
           more == {y \in src.sources : <<y[1], y[2]>> \notin held}
<1>1. m.sources = a.sources \cup more
  BY MergeFields
<1>2. OneSnapshot(m) /\ OneSnapshot(a) /\ OneSnapshot(src) /\ m \in ArchiveValue
  BY MergeSound, MergeFields DEF Sound
<1> HIDE DEF m
<1>3. /\ a.sources \subseteq Sessions \X Locators \X Contents
      /\ src.sources \subseteq Sessions \X Locators \X Contents
  BY DEF ArchiveValue
<1>4. <<s, l>> \in held => \E o \in Contents : <<s, l, o>> \in a.sources
  <2> SUFFICES ASSUME <<s, l>> \in held
               PROVE  \E o \in Contents : <<s, l, o>> \in a.sources
    OBVIOUS
  <2>1. PICK r \in a.sources : <<s, l>> = <<r[1], r[2]>>
    OBVIOUS
  <2>2. r[3] \in Contents /\ r = <<r[1], r[2], r[3]>>
    BY <1>3
  <2>3. r = <<s, l, r[3]>>
    BY <2>1, <2>2
  <2> QED
    BY <2>2, <2>3
<1> HIDE DEF held, more
<1>5. CASE CapturedOf(a)[s][l] # None
  <2> DEFINE o == CapturedOf(a)[s][l]
  <2>1. o \in Contents /\ <<s, l, o>> \in a.sources
    BY <1>2, <1>5, CapturedIs
  <2> HIDE DEF o
  <2>2. CapturedOf(m)[s][l] = o
    BY <1>1, <1>2, <2>1, CapturedIs
  <2>3. ASSUME CapturedOf(src)[s][l] # None
        PROVE  o = CapturedOf(src)[s][l]
    <3> DEFINE q == CapturedOf(src)[s][l]
               x == <<s, l, o>>
               y == <<s, l, q>>
    <3>1. <<s, l, q>> \in src.sources
      BY <1>2, <2>3, CapturedIs
    <3>2. x[1] = y[1] /\ x[2] = y[2] /\ x[3] = o /\ y[3] = q /\ x \in a.sources /\ y \in src.sources
      BY <2>1, <3>1
    <3> HIDE DEF q, x, y
    <3>3. o = q
      BY <3>2 DEF ImportCompatible
    <3> QED
      BY <3>3 DEF q
  <2> QED
    BY <1>5, <2>2, <2>3 DEF m, o
<1>6. CASE CapturedOf(a)[s][l] = None
  <2>1. \A o \in Contents : <<s, l, o>> \notin a.sources
    BY <1>2, <1>6, CapturedIs, NoneDistinct
  <2>2. <<s, l>> \notin held
    BY <1>4, <2>1
  <2>3. \A o \in Contents : <<s, l, o>> \in more <=> <<s, l, o>> \in src.sources
    BY <2>2 DEF more
  <2>4. CapturedOf(m)[s][l] = CapturedOf(src)[s][l]
    <3>1. CASE \E o \in Contents : <<s, l, o>> \in src.sources
      <4>1. PICK o \in Contents : <<s, l, o>> \in src.sources
        BY <3>1
      <4>2. CapturedOf(src)[s][l] = o
        BY <1>2, <4>1, CapturedIs
      <4>3. CapturedOf(m)[s][l] = o
        BY <1>1, <1>2, <2>3, <4>1, CapturedIs
      <4> QED
        BY <4>2, <4>3
    <3>2. CASE \A o \in Contents : <<s, l, o>> \notin src.sources
      <4>1. CapturedOf(src)[s][l] = None
        BY <1>2, <3>2, CapturedIs
      <4>2. CapturedOf(m)[s][l] = None
        BY <1>1, <1>2, <2>1, <2>3, <3>2, CapturedIs
      <4> QED
        BY <4>1, <4>2
    <3> QED
      BY <3>1, <3>2
  <2> QED
    BY <1>6, <2>4 DEF m
<1> QED
  BY <1>5, <1>6

LEMMA ImportMerges ==
  ASSUME SoundInv, NEW c \in Connections, Import(c)
  PROVE  Promise!MergeBackup
<1>1. /\ db \in ArchiveValue /\ backup \in ArchiveValue /\ Sound(db) /\ Sound(backup)
      /\ ImportCompatible(db, backup) /\ db' = MergeArchive(db, backup) /\ backup' = backup
  BY DEF SoundInv, TypeOK, Import, Publish
<1>2. \A s \in Sessions :
        /\ LatestOf(db')[s] = LatestOf(db)[s] \cup LatestOf(backup)[s]
        /\ LatestOf(db)[s] # {} /\ LatestOf(backup)[s] # {} => LatestOf(db)[s] = LatestOf(backup)[s]
  BY <1>1, LatestMerged
<1>3. \A s \in Sessions, l \in Locators :
        /\ CapturedOf(db')[s][l] = IF CapturedOf(db)[s][l] = None
                                     THEN CapturedOf(backup)[s][l] ELSE CapturedOf(db)[s][l]
        /\ CapturedOf(db)[s][l] # None /\ CapturedOf(backup)[s][l] # None =>
             CapturedOf(db)[s][l] = CapturedOf(backup)[s][l]
  BY <1>1, CapturedMerged
<1>4. LatestOf(db') = [s \in Sessions |-> LatestOf(db)[s] \cup LatestOf(backup)[s]]
  <2>1. LatestOf(db') = [s \in Sessions |-> LatestOf(db')[s]]
    BY DEF LatestOf
  <2> QED
    BY <1>2, <2>1
<1>5. CapturedOf(db') = [s \in Sessions |-> [l \in Locators |->
        IF CapturedOf(db)[s][l] = None THEN CapturedOf(backup)[s][l] ELSE CapturedOf(db)[s][l]]]
  <2>1. CapturedOf(db') = [s \in Sessions |-> [l \in Locators |-> CapturedOf(db')[s][l]]]
    BY DEF CapturedOf
  <2> QED
    BY <1>3, <2>1
<1>6. LatestOf(db)' = LatestOf(db') /\ CapturedOf(db)' = CapturedOf(db')
  BY DEF LatestOf, CapturedOf, Held
<1>7. <<LatestOf(backup), CapturedOf(backup)>>' = <<LatestOf(backup), CapturedOf(backup)>>
  BY <1>1 DEF LatestOf, CapturedOf, Held
<1>8. Promise!Compatible(<<LatestOf(backup), CapturedOf(backup)>>)
  BY <1>2, <1>3 DEF Promise!Compatible
<1> QED
  BY <1>4, <1>5, <1>6, <1>7, <1>8 DEF Promise!MergeBackup

\* The archive file, seen only through what sessions it knows by which facts
\* and which bytes it can give back, behaves as Archive.tla promises: batches
\* of concurrent transactions become visible whole, one after the other, each on
\* top of the state it replaces; imports only add; a backup is a committed state.
THEOREM ArchiveImplemented == Spec => ImplementsArchive
<1>1. Init => Promise!AInit
  <2> SUFFICES ASSUME Init PROVE Promise!AInit
    OBVIOUS
  <2>1. LatestOf(EmptyArchive) = Promise!Unknown
    BY DEF LatestOf, EmptyArchive, Promise!Unknown
  <2>2. CapturedOf(EmptyArchive) = Promise!Nothing
    BY DEF CapturedOf, Held, EmptyArchive, Promise!Nothing
  <2>3. LatestOf(db) = Promise!Unknown /\ CapturedOf(db) = Promise!Nothing
    BY <2>1, <2>2 DEF Init
  <2>4. LatestOf(backup) = Promise!Unknown /\ CapturedOf(backup) = Promise!Nothing
    BY <2>1, <2>2 DEF Init
  <2> QED
    BY <2>3, <2>4 DEF Promise!AInit
<1>2. Init => KnowsCommitted /\ WorkExplained
  BY DEF Init, KnowsCommitted, Writers, WorkExplained, Explained
<1>3. SoundInv /\ KnowsCommitted /\ WorkExplained /\ [Next]_vars
        => [Promise!ANext]_(Promise!avars)
  <2> SUFFICES ASSUME SoundInv, KnowsCommitted, WorkExplained, [Next]_vars
               PROVE  Promise!ANext \/ UNCHANGED Promise!avars
    OBVIOUS
  <2>1. ASSUME NEW c \in Connections, Commit(c)
        PROVE  Promise!ANext
    BY <2>1, CommitAccepts DEF Promise!ANext
  <2>2. ASSUME NEW c \in Connections, Import(c)
        PROVE  Promise!ANext
    BY <2>2, ImportMerges DEF Promise!ANext
  <2>3. ASSUME Backup
        PROVE  Promise!ANext
    <3>1. LatestOf(db)' = LatestOf(db) /\ CapturedOf(db)' = CapturedOf(db)
      BY <2>3 DEF Backup, LatestOf, CapturedOf, Held
    <3>2. LatestOf(backup)' = LatestOf(db) /\ CapturedOf(backup)' = CapturedOf(db)
      BY <2>3 DEF Backup, LatestOf, CapturedOf, Held
    <3> QED
      BY <3>1, <3>2 DEF Promise!ANext, Promise!TakeBackup
  <2>4. ASSUME Rebuild
        PROVE  Promise!ANext
    <3>1. LatestOf(db)' = Promise!Unknown
      BY <2>4 DEF Rebuild, LatestOf, EmptyArchive, Promise!Unknown
    <3>2. CapturedOf(db)' = Promise!Nothing
      BY <2>4 DEF Rebuild, CapturedOf, Held, EmptyArchive, Promise!Nothing
    <3>3. LatestOf(backup)' = LatestOf(backup) /\ CapturedOf(backup)' = CapturedOf(backup)
      BY <2>4 DEF Rebuild, LatestOf, CapturedOf, Held
    <3> QED
      BY <3>1, <3>2, <3>3 DEF Promise!ANext, Promise!Discard
  <2>5. ASSUME \/ \E c \in Connections : WriteNext(c) \/ Abort(c)
               \/ \E c \in Connections, b \in Batches : BeginBatch(c, b)
               \/ UNCHANGED vars
        PROVE  UNCHANGED Promise!avars
    <3>1. db' = db /\ backup' = backup
      BY <2>5 DEF WriteNext, Abort, BeginBatch, vars
    <3>2. LatestOf(db)' = LatestOf(db) /\ CapturedOf(db)' = CapturedOf(db)
      BY <3>1 DEF LatestOf, CapturedOf, Held
    <3>3. LatestOf(backup)' = LatestOf(backup) /\ CapturedOf(backup)' = CapturedOf(backup)
      BY <3>1 DEF LatestOf, CapturedOf, Held
    <3> QED
      BY <3>2, <3>3 DEF Promise!avars
  <2> QED
    BY <2>1, <2>2, <2>3, <2>4, <2>5 DEF Next
<1> QED
  BY <1>1, <1>2, <1>3, SoundAlways, KnowsCommittedStep, WorkExplainedStep, PTL
     DEF Spec, ImplementsArchive, Promise!ASpec
=============================================================================
