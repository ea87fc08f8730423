-------------------------- MODULE DerivedStateProofs --------------------------
(***************************************************************************)
(* Theorems about DerivedState for every set of sessions, streams,         *)
(* tokenizers and processes.                                               *)
(*                                                                         *)
(* Why counting documents detects an incomplete index: the index may lose  *)
(* rows (a dropped table, a fill that was cut short) but never holds one   *)
(* that is not a searchable event.  A set of searchable events as large as *)
(* the set of all of them is that set.                                     *)
(***************************************************************************)
EXTENDS DerivedState, FiniteSetTheorems, TLAPS

\* The events of a stream in a session are event rows.
LEMMA RowsTyped ==
  ASSUME NEW s \in Sessions, NEW st \in Streams \cup {None}
  PROVE  /\ Rows(s, st) \subseteq EventRows
         /\ Indexed(s, st) \subseteq Rows(s, st)
<1>1. CASE st = None
  BY <1>1 DEF Rows, Indexed
<1>2. CASE st \in Streams
  BY <1>2 DEF EventRows, Indexed
<1> QED
  BY <1>1, <1>2

\* What is searchable is the union of what is indexed of every session.
LEMMA SearchableBySession ==
  /\ Searchable = UNION {Indexed(s, events[s]) : s \in Sessions}
  /\ \A s \in Sessions : Indexed(s, events[s]) \subseteq Searchable
BY DEF Searchable, StoredRows, Indexed

LEMMA SearchableTyped ==
  ASSUME TypeOK
  PROVE  Searchable \subseteq EventRows
BY RowsTyped, SearchableBySession DEF TypeOK

\* The values a function takes on a finite set are finitely many.
LEMMA ImageFinite ==
  ASSUME NEW S, IsFiniteSet(S), NEW T, NEW f \in [S -> T], \A t \in T : \E x \in S : f[x] = t
  PROVE  IsFiniteSet(T)
<1>1. f \in Surjection(S, T)
  BY DEF Surjection
<1> QED
  BY <1>1, FS_Surjection

\* A stored session has finitely many rows, and so has the archive.
LEMMA SearchableFinite ==
  ASSUME TypeOK
  PROVE  IsFiniteSet(Searchable)
<1> DEFINE rowsOf(s) == Rows(s, events[s])
<1>1. ASSUME NEW s \in Sessions
      PROVE  IsFiniteSet(rowsOf(s))
  <2>1. CASE events[s] = None
    BY <2>1, FS_EmptySet DEF Rows
  <2>2. CASE events[s] # None
    <3> DEFINE kinds == KindsOf[events[s]]
               row == [k \in kinds |-> <<s, events[s], k>>]
    <3>1. events[s] \in Streams
      BY <2>2 DEF TypeOK
    <3>2. IsFiniteSet(kinds)
      BY <3>1, DerivedAssumption
    <3>3. rowsOf(s) = {<<s, events[s], k>> : k \in kinds}
      BY <2>2 DEF Rows
    <3>4. row \in [kinds -> rowsOf(s)] /\ \A r \in rowsOf(s) : \E k \in kinds : row[k] = r
      BY <3>3
    <3> HIDE DEF kinds, row, rowsOf
    <3> QED
      BY <3>2, <3>4, ImageFinite
  <2> QED
    BY <2>1, <2>2
<1>2. IsFiniteSet({rowsOf(s) : s \in Sessions})
  <2> DEFINE rowsBySession == [s \in Sessions |-> rowsOf(s)]
             T == {rowsOf(s) : s \in Sessions}
  <2>1. rowsBySession \in [Sessions -> T] /\ \A t \in T : \E s \in Sessions : rowsBySession[s] = t
    OBVIOUS
  <2> HIDE DEF rowsBySession
  <2> QED
    BY <2>1, DerivedAssumption, ImageFinite
<1>3. IsFiniteSet(UNION {rowsOf(s) : s \in Sessions})
  <2>1. \A S \in {rowsOf(s) : s \in Sessions} : IsFiniteSet(S)
    BY <1>1
  <2> HIDE DEF rowsOf
  <2> QED
    BY <1>2, <2>1, FS_UNION
<1>4. Searchable \subseteq StoredRows /\ StoredRows = UNION {rowsOf(s) : s \in Sessions}
  BY DEF Searchable, StoredRows
<1> QED
  BY <1>3, <1>4, FS_Subset

(***************************************************************************)
(* Types                                                                   *)
(***************************************************************************)
Kinds == {"schema", "write"}

LEMMA ContinueTyped ==
  ASSUME TypeOK, NEW p \in Processes, NEW next \in CallValue, NEW kind \in SUBSET Kinds,
         Continue(p, next, kind)
  PROVE  call' \in [Processes -> CallValue]
<1>1. ASSUME NEW q \in Processes
      PROVE  /\ call[q] \in CallValue
             /\ [call[q] EXCEPT !.met = @ \cup kind] \in CallValue
  BY DEF TypeOK, CallValue, Kinds
<1> QED
  BY <1>1 DEF Continue

\* What a call continues as is well typed.
LEMMA LocalsTyped ==
  ASSUME TypeOK, NEW p \in Processes
  PROVE  /\ call[p] \in CallValue
         /\ Closed \in CallValue
         /\ \A place \in Places : GoTo(p, place) \in CallValue
         /\ \A place \in Places : Return(p, place) \in CallValue
<1>1. call[p] \in CallValue
  BY DEF TypeOK
<1>2. Closed \in CallValue
  BY DEF Closed, CallValue, Places
<1>3. \A place \in Places : GoTo(p, place) \in CallValue
  BY <1>1 DEF GoTo, CallValue
<1>4. \A place \in Places : Return(p, place) \in CallValue
  BY <1>1, <1>2 DEF Return, CallValue
<1> QED
  BY <1>1, <1>2, <1>3, <1>4

LEMMA InitTyped == Init => TypeOK
<1>1. Closed \in CallValue
  BY DEF Closed, CallValue, Places
<1> SUFFICES ASSUME Init PROVE TypeOK
  OBVIOUS
<1>2. call \in [Processes -> CallValue]
  BY <1>1 DEF Init
<1>3. /\ events \in [Sessions -> Streams \cup {None}]
      /\ preview \in [Sessions -> PreviewValue \cup {None}]
      /\ fts \in [tokenizer : Tokenizers \cup {None}, rows : SUBSET EventRows]
  BY DEF Init, NoTable
<1>4. contract \in Tokenizers \cup {None} /\ torn \in BOOLEAN
  BY Zenon DEF Init
<1>5. faults \in 0 .. MaxFaults
  BY DerivedAssumption DEF Init
<1> QED
  BY <1>2, <1>3, <1>4, <1>5 DEF TypeOK

\* Every action leaves the variables well typed.
LEMMA StepTyped ==
  ASSUME TypeOK, NEW p \in Processes, Step(p)
  PROVE  TypeOK'
<1> USE DEF Opening, Reindexing
<1>1. ASSUME NEW t \in Tokenizers, OpenRead(p, t)
      PROVE  TypeOK'
  <2>1. [Closed EXCEPT !.at = "schema", !.tokenizer = t, !.previous = contract] \in CallValue
    BY LocalsTyped DEF CallValue, Places, TypeOK, Closed
  <2>2. call' \in [Processes -> CallValue]
    BY <1>1, <2>1, ContinueTyped DEF OpenRead, Kinds
  <2> QED
    BY <1>1, <2>2 DEF OpenRead, TypeOK
<1>2. CASE CreateSchema(p)
  <2>1. call' \in [Processes -> CallValue]
    <3>1. GoTo(p, IF Switching(p) THEN "drop" ELSE "record") \in CallValue
      BY LocalsTyped DEF Places
    <3> QED
      BY <1>2, <3>1, ContinueTyped DEF CreateSchema, Kinds
  <2>2. fts' \in [tokenizer : Tokenizers \cup {None}, rows : SUBSET EventRows]
    BY <1>2 DEF CreateSchema, TypeOK, CallValue
  <2> QED
    BY <1>2, <2>1, <2>2 DEF CreateSchema, TypeOK
<1>3. CASE DropIndex(p)
  <2>1. call' \in [Processes -> CallValue]
    BY <1>3, LocalsTyped, ContinueTyped DEF DropIndex, Kinds, Places
  <2> QED
    BY <1>3, <2>1 DEF DropIndex, TypeOK, NoTable
<1>4. CASE CreateIndex(p)
  <2>1. call' \in [Processes -> CallValue]
    BY <1>4, LocalsTyped, ContinueTyped DEF CreateIndex, Kinds, Places
  <2>2. call[p].tokenizer \in Tokenizers \cup {None}
    BY DEF TypeOK, CallValue
  <2> QED
    BY <1>4, <2>1, <2>2 DEF CreateIndex, TypeOK
<1>5. CASE FillIndex(p)
  <2>1. call' \in [Processes -> CallValue]
    BY <1>5, LocalsTyped, ContinueTyped DEF FillIndex, Kinds, Places
  <2>2. fts' \in [tokenizer : Tokenizers \cup {None}, rows : SUBSET EventRows]
    BY <1>5, SearchableTyped DEF FillIndex, TypeOK
  <2> QED
    BY <1>5, <2>1, <2>2 DEF FillIndex, TypeOK
<1>6. CASE Record(p)
  <2>1. call' \in [Processes -> CallValue]
    BY <1>6, LocalsTyped, ContinueTyped DEF Record, Kinds, Places
  <2>2. call[p].tokenizer \in Tokenizers \cup {None}
    BY DEF TypeOK, CallValue
  <2> QED
    BY <1>6, <2>1, <2>2 DEF Record, TypeOK
<1>7. ASSUME NEW s \in Sessions, NEW st \in Streams, Write(p, s, st)
      PROVE  TypeOK'
  <2>1. call' \in [Processes -> CallValue]
    BY <1>7, LocalsTyped, ContinueTyped DEF Write, Kinds
  <2>2. Reindexed(s, events[s], st) \subseteq EventRows
    BY RowsTyped DEF Reindexed, TypeOK
  <2>3. fts' \in [tokenizer : Tokenizers \cup {None}, rows : SUBSET EventRows]
    BY <1>7, <2>2 DEF Write, TypeOK
  <2>4. Preview(st) \in PreviewValue
    BY DEF Preview, PreviewValue
  <2> QED
    BY <1>7, <2>1, <2>3, <2>4 DEF Write, TypeOK
<1>8. CASE BeginReindex(p)
  <2>1. [call[p] EXCEPT !.at = "rebuild", !.previous = contract, !.met = {}] \in CallValue
    <3>1. /\ call[p] \in CallValue /\ "rebuild" \in Places
          /\ contract \in Tokenizers \cup {None}
      BY LocalsTyped DEF Places, TypeOK
    <3> QED
      BY <3>1 DEF CallValue
  <2>2. call' \in [Processes -> CallValue]
    BY <1>8, <2>1, ContinueTyped DEF BeginReindex, Kinds
  <2> QED
    BY <1>8, <2>2 DEF BeginReindex, TypeOK
<1>9. CASE RebuildFts(p)
  <2>1. call' \in [Processes -> CallValue]
    BY <1>9, LocalsTyped, ContinueTyped DEF RebuildFts, Kinds, Places
  <2>2. call[p].previous \in Tokenizers \cup {None}
    BY DEF TypeOK, CallValue
  <2> QED
    BY <1>9, <2>1, <2>2, SearchableTyped DEF RebuildFts, TypeOK
<1>10. CASE ProjectAggregates(p)
  <2>1. call' \in [Processes -> CallValue]
    BY <1>10, LocalsTyped, ContinueTyped DEF ProjectAggregates, Kinds, Places
  <2>2. \A st \in Streams : CopiedText(st) \in PreviewValue
    BY DEF CopiedText, PreviewValue
  <2>3. preview' \in [Sessions -> PreviewValue \cup {None}]
    BY <1>10, <2>2 DEF ProjectAggregates, TypeOK
  <2> QED
    BY <1>10, <2>1, <2>3 DEF ProjectAggregates, TypeOK
<1>11. CASE ListOverlong(p)
  <2> DEFINE listed == [s \in Sessions |->
                 IF preview[s] # None /\ preview[s].of \in Long THEN preview[s].of ELSE None]
  <2>1. listed \in [Sessions -> Streams \cup {None}]
    BY DerivedAssumption
  <2> HIDE DEF listed
  <2>2. [call[p] EXCEPT !.at = "truncate", !.overlong = listed] \in CallValue
    <3>1. call[p] \in CallValue /\ "truncate" \in Places
      BY LocalsTyped DEF Places
    <3> QED
      BY <2>1, <3>1 DEF CallValue
  <2>3. Continue(p, [call[p] EXCEPT !.at = "truncate", !.overlong = listed], {})
    BY <1>11 DEF ListOverlong, listed
  <2>4. call' \in [Processes -> CallValue]
    BY <2>2, <2>3, ContinueTyped DEF Kinds
  <2> QED
    BY <1>11, <2>4 DEF ListOverlong, TypeOK
<1>12. ASSUME NEW s \in Sessions, Truncate(p, s)
       PROVE  TypeOK'
  <2>1. call[p].overlong \in [Sessions -> Streams \cup {None}]
    BY DEF TypeOK, CallValue
  <2>2. [call[p] EXCEPT !.overlong[s] = None] \in CallValue
    BY <2>1, LocalsTyped DEF CallValue
  <2>3. call' \in [Processes -> CallValue]
    BY <1>12, <2>2, ContinueTyped DEF Truncate, Kinds
  <2>4. Truncated(call[p].overlong[s]) \in PreviewValue
    BY <1>12, <2>1 DEF Truncate, Truncated, Preview, PreviewValue
  <2> QED
    BY <1>12, <2>3, <2>4 DEF Truncate, TypeOK
<1>13. CASE ListSessions(p)
  <2> DEFINE stored == {s \in Sessions : events[s] # None}
  <2>1. [call[p] EXCEPT !.at = "spans", !.ids = stored] \in CallValue
    <3>1. call[p] \in CallValue /\ "spans" \in Places /\ stored \in SUBSET Sessions
      BY LocalsTyped DEF Places
    <3> HIDE DEF stored
    <3> QED
      BY <3>1 DEF CallValue
  <2>2. call' \in [Processes -> CallValue]
    BY <1>13, <2>1, ContinueTyped DEF ListSessions, Kinds
  <2> QED
    BY <1>13, <2>2 DEF ListSessions, TypeOK
<1>14. CASE RebuildSpans(p)
  <2>1. call' \in [Processes -> CallValue]
    BY <1>14, LocalsTyped, ContinueTyped DEF RebuildSpans, Kinds, Places
  <2>2. call[p].ids \subseteq Sessions
    BY DEF TypeOK, CallValue
  <2>3. UNION {Indexed(s, events[s]) : s \in call[p].ids} \subseteq EventRows
    BY <2>2, SearchableBySession, SearchableTyped
  <2>4. fts' \in [tokenizer : Tokenizers \cup {None}, rows : SUBSET EventRows]
    BY <1>14, <2>3 DEF RebuildSpans, TypeOK
  <2> QED
    BY <1>14, <2>1, <2>4 DEF RebuildSpans, TypeOK
<1>15. CASE Fail(p)
  <2>1. call' \in [Processes -> CallValue]
    BY <1>15, LocalsTyped, ContinueTyped DEF Fail, Kinds, Places
  <2>2. faults' \in 0 .. MaxFaults
    BY <1>15, DerivedAssumption DEF Fail, TypeOK
  <2> QED
    BY <1>15, <2>1, <2>2 DEF Fail, TypeOK
<1>16. CASE Crash(p)
  <2>1. call' \in [Processes -> CallValue]
    BY <1>16, LocalsTyped, ContinueTyped DEF Crash, Kinds
  <2>2. faults' \in 0 .. MaxFaults
    BY <1>16, DerivedAssumption DEF Crash, TypeOK
  <2> QED
    BY <1>16, <2>1, <2>2 DEF Crash, TypeOK
<1>17. CASE Close(p)
  <2>1. call' \in [Processes -> CallValue]
    BY <1>17, LocalsTyped, ContinueTyped DEF Close, Kinds
  <2> QED
    BY <1>17, <2>1 DEF Close, TypeOK
<1> QED
  BY <1>1, <1>2, <1>3, <1>4, <1>5, <1>6, <1>7, <1>8, <1>9, <1>10, <1>11, <1>12,
     <1>13, <1>14, <1>15, <1>16, <1>17 DEF Step

\* The variables keep their types, whoever does what when (TypeOK).
THEOREM TypeCorrect == Spec => []TypeOK
<1>1. TypeOK /\ [Next]_vars => TypeOK'
  <2> SUFFICES ASSUME TypeOK, [Next]_vars
               PROVE  TypeOK'
    OBVIOUS
  <2>1. CASE Next
    BY <2>1, StepTyped DEF Next
  <2>2. CASE UNCHANGED vars
    BY <2>2 DEF vars, TypeOK
  <2> QED
    BY <2>1, <2>2
<1> QED
  BY InitTyped, <1>1, PTL DEF Spec

(***************************************************************************)
(* The index                                                               *)
(***************************************************************************)
\* The index holds nothing but searchable events.
NoOrphans == fts.rows \subseteq Searchable

IndexInv == TypeOK /\ NoOrphans

\* Statements that change neither the events nor add a row that is not
\* searchable keep the index free of orphans.
LEMMA SameEvents ==
  ASSUME NoOrphans, UNCHANGED events, fts'.rows \subseteq fts.rows \cup Searchable
  PROVE  NoOrphans'
<1>1. Searchable' = Searchable
  BY DEF Searchable, StoredRows
<1> QED
  BY <1>1 DEF NoOrphans

\* The triggers: the old rows of a session leave the index before its new rows
\* enter, so that it follows the stored events.
LEMMA WriteKeepsIndex ==
  ASSUME IndexInv, NEW p \in Processes, NEW s \in Sessions, NEW st \in Streams, Write(p, s, st)
  PROVE  NoOrphans'
<1>1. events' = [events EXCEPT ![s] = st] /\ events \in [Sessions -> Streams \cup {None}]
  BY DEF Write, IndexInv, TypeOK
<1>2. fts'.rows = Reindexed(s, events[s], st)
  BY DEF Write, IndexInv, TypeOK
<1>3. CASE events[s] = st
  <2>1. events' = events
    BY <1>1, <1>3
  <2> QED
    BY <1>2, <1>3, <2>1, SameEvents DEF Reindexed, IndexInv
<1>4. CASE events[s] # st
  <2>1. fts'.rows \subseteq (Searchable \ Indexed(s, events[s])) \cup Indexed(s, st)
    BY <1>2, <1>4 DEF Reindexed, IndexInv, NoOrphans
  <2>2. Indexed(s, st) \subseteq Searchable'
    BY <1>1 DEF Indexed, Searchable, StoredRows
  <2>3. ASSUME NEW r \in Searchable, r \notin Indexed(s, events[s])
        PROVE  r \in Searchable'
    <3>1. PICK z \in Sessions : r \in Rows(z, events[z])
      BY <2>3 DEF Searchable, StoredRows
    <3>2. z # s
      BY <2>3, <3>1 DEF Searchable, Indexed
    <3>3. events'[z] = events[z]
      BY <1>1, <3>2
    <3> QED
      BY <2>3, <3>1, <3>3 DEF Searchable, StoredRows, Rows
  <2> QED
    BY <2>1, <2>2, <2>3 DEF NoOrphans
<1> QED
  BY <1>3, <1>4

LEMMA StepKeepsIndex ==
  ASSUME IndexInv, NEW p \in Processes, Step(p)
  PROVE  NoOrphans'
<1>1. fts \in [tokenizer : Tokenizers \cup {None}, rows : SUBSET EventRows]
  BY DEF IndexInv, TypeOK
<1>2. CASE \E s \in Sessions, st \in Streams : Write(p, s, st)
  BY <1>2, WriteKeepsIndex
<1>3. CASE FillIndex(p)
  BY <1>1, <1>3, SameEvents DEF FillIndex, IndexInv
<1>4. CASE CreateSchema(p)
  BY <1>1, <1>4, SameEvents DEF CreateSchema, IndexInv
<1>5. CASE DropIndex(p) \/ CreateIndex(p)
  BY <1>5, SameEvents DEF DropIndex, CreateIndex, NoTable, IndexInv
<1>6. CASE RebuildFts(p)
  BY <1>6, SameEvents DEF RebuildFts, IndexInv
<1>7. CASE RebuildSpans(p)
  <2>1. call[p].ids \subseteq Sessions
    BY DEF IndexInv, TypeOK, CallValue
  <2>2. UNION {Indexed(s, events[s]) : s \in call[p].ids} \subseteq Searchable
    BY <2>1, SearchableBySession
  <2>3. fts'.rows = fts.rows \cup UNION {Indexed(s, events[s]) : s \in call[p].ids}
    BY <1>1, <1>7 DEF RebuildSpans
  <2>4. UNCHANGED events
    BY <1>7 DEF RebuildSpans
  <2> QED
    BY <2>2, <2>3, <2>4, SameEvents DEF IndexInv
<1>8. CASE UNCHANGED <<events, fts>>
  BY <1>8, SameEvents DEF IndexInv
<1> QED
  BY <1>2, <1>3, <1>4, <1>5, <1>6, <1>7, <1>8
     DEF Step, OpenRead, Record, BeginReindex, ProjectAggregates, ListOverlong, Truncate,
         ListSessions, Fail, Crash, Close

\* An index with as many documents as there are searchable events is complete.
LEMMA CountingSuffices == IndexInv => IndexVerified
<1> SUFFICES ASSUME IndexInv, VerifyPasses
             PROVE  fts.rows = Searchable
  BY DEF IndexVerified
<1>1. IsFiniteSet(Searchable) /\ fts.rows \in SUBSET Searchable
  BY SearchableFinite DEF IndexInv, NoOrphans
<1>2. Cardinality(Searchable) = Cardinality(fts.rows)
  BY DEF VerifyPasses
<1> QED
  BY <1>1, <1>2, FS_Subset

\* Whatever interleaving, failure or crash came before, an index that passes
\* `verify` is the index of exactly the searchable events (IndexVerified).
THEOREM IndexVerifiedAlways == Spec => []IndexVerified
<1>1. Init => IndexInv
  BY InitTyped DEF Init, NoTable, IndexInv, NoOrphans
<1>2. IndexInv /\ [Next]_vars => IndexInv'
  <2> SUFFICES ASSUME IndexInv, [Next]_vars
               PROVE  IndexInv'
    OBVIOUS
  <2>1. CASE Next
    BY <2>1, StepTyped, StepKeepsIndex DEF Next, IndexInv
  <2>2. CASE UNCHANGED vars
    BY <2>2 DEF vars, IndexInv, TypeOK, NoOrphans, Searchable, StoredRows
  <2> QED
    BY <2>1, <2>2
<1> QED
  BY <1>1, <1>2, CountingSuffices, PTL DEF Spec

-------------------------------------------------------------------------------
(***************************************************************************)
(* What a call knows                                                       *)
(*                                                                         *)
(* A call keeps what it read (the contract, the previews that are too      *)
(* long) across steps of others.  What it knows stays true unless another  *)
(* process changed the schema, respectively the sessions, and the call has *)
(* met every such change since it began.                                   *)
(***************************************************************************)
Switches(c) == c.previous \notin {None, c.tokenizer}

\* Every stored session shows the preview of its stream.
Shown(ev, pv) == \A s \in Sessions : ev[s] # None => pv[s] = Preview(ev[s])

\* What call c knows of the table, the recorded contract and the searchable rows.
KnowsIndex(c, table, recorded, wanted) ==
  /\ c.at # "closed" => c.tokenizer \in Tokenizers
  /\ c.at \in {"open"} \cup Reindexing => recorded # None
  /\ c.at \in {"drop", "create", "fill"} => Switches(c)
  /\ c.at \in Opening \cup Reindexing /\ "schema" \notin c.met =>
       /\ c.previous = recorded
       /\ c.at = "create" => table.tokenizer = None
       /\ c.at = "fill" => table.tokenizer = c.tokenizer
       /\ c.at = "record" =>
            /\ table.tokenizer # None
            /\ Switches(c) => table.tokenizer = c.tokenizer
       /\ c.at \in {"project", "list", "truncate", "spans"} =>
            /\ table.tokenizer = recorded
            /\ table.rows = wanted

\* What call c knows of the events and the stored previews.
KnowsPreviews(c, ev, pv) ==
  "write" \notin c.met =>
    /\ c.at = "list" =>
         \A s \in Sessions : pv[s] = IF ev[s] = None THEN None ELSE CopiedText(ev[s])
    /\ c.at = "truncate" =>
         \A s \in Sessions : /\ c.overlong[s] # None => c.overlong[s] = ev[s]
                             /\ c.overlong[s] = None /\ ev[s] # None => pv[s] = Preview(ev[s])
    /\ c.at = "spans" => Shown(ev, pv)

\* A table has a tokenizer.
TableKnown(table) == table = NoTable \/ table.tokenizer \in Tokenizers

KnownInv ==
  /\ IndexInv
  /\ TableKnown(fts)
  /\ \A p \in Processes : /\ KnowsIndex(call[p], fts, contract, Searchable)
                          /\ KnowsPreviews(call[p], events, preview)

\* What a step that others meet as a change of kind `kind` may do to them.
Effect(kind) ==
  /\ contract # None => contract' # None
  /\ "schema" \notin kind =>
       /\ contract' = contract
       /\ fts'.tokenizer = fts.tokenizer
       /\ fts.rows = Searchable => fts'.rows = Searchable'
  /\ "write" \notin kind => events' = events /\ preview' = preview

\* The calls after a step of p.
LEMMA Continued ==
  ASSUME TypeOK, NEW p \in Processes, NEW next, NEW kind \in SUBSET Kinds, Continue(p, next, kind)
  PROVE  /\ call'[p] = next
         /\ \A q \in Processes : q # p =>
              /\ call'[q].at = call[q].at
              /\ call'[q].tokenizer = call[q].tokenizer
              /\ call'[q].previous = call[q].previous
              /\ call'[q].overlong = call[q].overlong
              /\ call'[q].met = IF InCall(q) THEN call[q].met \cup kind ELSE call[q].met
<1>1. call'[p] = next
  BY DEF Continue
<1>2. \A q \in Processes : q # p =>
        call'[q] = IF InCall(q) THEN [call[q] EXCEPT !.met = @ \cup kind] ELSE call[q]
  BY DEF Continue
<1>3. ASSUME NEW q \in Processes, q # p
      PROVE  /\ call'[q].at = call[q].at
             /\ call'[q].tokenizer = call[q].tokenizer
             /\ call'[q].previous = call[q].previous
             /\ call'[q].overlong = call[q].overlong
             /\ call'[q].met = IF InCall(q) THEN call[q].met \cup kind ELSE call[q].met
  <2> DEFINE c == call[q]
             d == call'[q]
  <2>1. c \in CallValue
    BY DEF TypeOK
  <2>2. CASE InCall(q)
    <3>1. d = [c EXCEPT !.met = @ \cup kind]
      BY <1>2, <1>3, <2>2
    <3> HIDE DEF c, d
    <3>2. d.at = c.at /\ d.tokenizer = c.tokenizer
      BY <2>1, <3>1 DEF CallValue
    <3>3. d.previous = c.previous /\ d.overlong = c.overlong
      BY <2>1, <3>1 DEF CallValue
    <3>4. d.met = c.met \cup kind
      BY <2>1, <3>1 DEF CallValue
    <3> QED
      BY <2>2, <3>2, <3>3, <3>4 DEF c, d
  <2>3. CASE ~InCall(q)
    BY <1>2, <1>3, <2>3
  <2> QED
    BY <2>2, <2>3
<1> QED
  BY <1>1, <1>3

\* The others still know what they knew, or have met the change.
LEMMA OthersKnow ==
  ASSUME KnownInv, NEW p \in Processes, NEW next, NEW kind \in SUBSET Kinds,
         Continue(p, next, kind), Effect(kind), NEW q \in Processes, q # p
  PROVE  /\ KnowsIndex(call'[q], fts', contract', Searchable')
         /\ KnowsPreviews(call'[q], events', preview')
<1> DEFINE c == call[q]
           d == call'[q]
<1>1. TypeOK /\ KnowsIndex(c, fts, contract, Searchable) /\ KnowsPreviews(c, events, preview)
  BY DEF KnownInv, IndexInv
<1>2. /\ d.at = c.at /\ d.tokenizer = c.tokenizer /\ d.previous = c.previous
      /\ d.overlong = c.overlong
      /\ d.met = IF c.at \in Opening \cup Reindexing THEN c.met \cup kind ELSE c.met
  <2>1. /\ call'[q].at = call[q].at
        /\ call'[q].tokenizer = call[q].tokenizer
        /\ call'[q].previous = call[q].previous
        /\ call'[q].overlong = call[q].overlong
    BY <1>1, Continued
  <2>2. call'[q].met = IF InCall(q) THEN call[q].met \cup kind ELSE call[q].met
    BY <1>1, Continued
  <2> QED
    BY <2>1, <2>2 DEF InCall
<1> HIDE DEF c, d
<1>3. KnowsIndex(d, fts', contract', Searchable')
  <2>1. /\ d.at # "closed" => d.tokenizer \in Tokenizers
        /\ d.at \in {"open"} \cup Reindexing => contract' # None
        /\ d.at \in {"drop", "create", "fill"} => Switches(d)
    BY <1>1, <1>2 DEF KnowsIndex, Effect, Switches
  <2>2. ASSUME d.at \in Opening \cup Reindexing, "schema" \notin d.met
        PROVE  /\ d.previous = contract'
               /\ d.at = "create" => fts'.tokenizer = None
               /\ d.at = "fill" => fts'.tokenizer = d.tokenizer
               /\ d.at = "record" =>
                    /\ fts'.tokenizer # None
                    /\ Switches(d) => fts'.tokenizer = d.tokenizer
               /\ d.at \in {"project", "list", "truncate", "spans"} =>
                    /\ fts'.tokenizer = contract'
                    /\ fts'.rows = Searchable'
    <3>1. "schema" \notin kind /\ "schema" \notin c.met /\ c.at \in Opening \cup Reindexing
      BY <1>2, <2>2
    <3>2. /\ contract' = contract /\ fts'.tokenizer = fts.tokenizer
          /\ fts.rows = Searchable => fts'.rows = Searchable'
      BY <3>1 DEF Effect
    <3> QED
      BY <1>1, <1>2, <3>1, <3>2 DEF KnowsIndex, Switches
  <2> QED
    BY <2>1, <2>2 DEF KnowsIndex
<1>4. KnowsPreviews(d, events', preview')
  <2> SUFFICES ASSUME "write" \notin d.met, d.at \in {"list", "truncate", "spans"}
               PROVE  KnowsPreviews(d, events', preview')
    BY DEF KnowsPreviews
  <2>1. "write" \notin kind /\ "write" \notin c.met
    BY <1>2 DEF Reindexing
  <2>2. events' = events /\ preview' = preview
    BY <2>1 DEF Effect
  <2> QED
    BY <1>1, <1>2, <2>1, <2>2 DEF KnowsPreviews
<1> QED
  BY <1>3, <1>4 DEF c, d

LEMMA AllKnow ==
  ASSUME KnownInv, IndexInv', NEW p \in Processes, NEW next, NEW kind \in SUBSET Kinds,
         Continue(p, next, kind), Effect(kind), TableKnown(fts'),
         KnowsIndex(next, fts', contract', Searchable'), KnowsPreviews(next, events', preview')
  PROVE  KnownInv'
<1>1. call'[p] = next
  BY Continued DEF KnownInv, IndexInv
<1>2. \A q \in Processes : /\ KnowsIndex(call'[q], fts', contract', Searchable')
                           /\ KnowsPreviews(call'[q], events', preview')
  BY <1>1, OthersKnow
<1> QED
  BY <1>2 DEF KnownInv

\* The triggers keep a complete index complete.
LEMMA WriteKeepsExact ==
  ASSUME IndexInv, NEW p \in Processes, NEW s \in Sessions, NEW st \in Streams, Write(p, s, st),
         fts.rows = Searchable
  PROVE  fts'.rows = Searchable'
<1>1. events' = [events EXCEPT ![s] = st] /\ events \in [Sessions -> Streams \cup {None}]
  BY DEF Write, IndexInv, TypeOK
<1>2. fts'.rows = Reindexed(s, events[s], st)
  BY DEF Write, IndexInv, TypeOK
<1>3. fts'.rows \subseteq Searchable'
  BY WriteKeepsIndex DEF NoOrphans
<1>4. ASSUME NEW r \in Searchable'
      PROVE  r \in fts'.rows
  <2>1. r[3] \notin Gated /\ \E z \in Sessions : r \in Rows(z, events'[z])
    BY DEF Searchable, StoredRows
  <2>2. PICK z \in Sessions : r \in Rows(z, events'[z])
    BY <2>1
  <2>3. CASE z = s
    <3>1. r \in Indexed(s, st)
      BY <1>1, <2>1, <2>2, <2>3 DEF Indexed
    <3>2. events[s] = st => r \in Searchable
      BY <3>1, SearchableBySession
    <3> QED
      BY <1>2, <3>1, <3>2 DEF Reindexed
  <2>4. CASE z # s
    <3>1. r \in Rows(z, events[z])
      BY <1>1, <2>2, <2>4
    <3>2. r \in Searchable
      BY <2>1, <3>1 DEF Searchable, StoredRows
    <3>3. r \notin Indexed(s, events[s])
      BY <2>4, <3>1 DEF Indexed, Rows
    <3> QED
      BY <1>2, <3>2, <3>3 DEF Reindexed
  <2> QED
    BY <2>3, <2>4
<1> QED
  BY <1>3, <1>4

\* A connection never lacks the tokenizer of a table it uses.
LEMMA UsableKnown ==
  ASSUME KnownInv, NEW p \in Processes, call[p].at # "closed"
  PROVE  Loaded(p) \subseteq Tokenizers /\ None \notin Loaded(p)
<1>1. call[p].tokenizer \in Tokenizers
  BY DEF KnownInv, KnowsIndex
<1> QED
  BY <1>1, DerivedAssumption DEF Loaded

\* While the events and the schema stay, so does what is searchable.
LEMMA SameSearchable ==
  ASSUME UNCHANGED events
  PROVE  Searchable' = Searchable
BY DEF Searchable, StoredRows

\* What a call continues as: its locals.
LEMMA GoToFields ==
  ASSUME TypeOK, NEW p \in Processes, NEW place \in Places
  PROVE  /\ GoTo(p, place).at = place
         /\ GoTo(p, place).tokenizer = call[p].tokenizer
         /\ GoTo(p, place).previous = call[p].previous
         /\ GoTo(p, place).overlong = call[p].overlong
         /\ GoTo(p, place).met = call[p].met
<1>1. call[p] \in CallValue
  BY DEF TypeOK
<1> QED
  BY <1>1 DEF GoTo, CallValue

LEMMA ReturnFields ==
  ASSUME NEW p \in Processes, NEW place
  PROVE  /\ Return(p, place).at = place
         /\ Return(p, place).tokenizer = (IF place = "open" THEN call[p].tokenizer ELSE None)
         /\ Return(p, place).met = {}
BY DEF Return, Closed

\* What a call that has just returned or ended knows.
LEMMA ReturnedKnows ==
  ASSUME NEW p \in Processes, NEW place \in {"closed", "open"}, NEW table, NEW recorded,
         NEW wanted, NEW ev, NEW pv,
         place = "open" => call[p].tokenizer \in Tokenizers /\ recorded # None
  PROVE  /\ KnowsIndex(Return(p, place), table, recorded, wanted)
         /\ KnowsPreviews(Return(p, place), ev, pv)
         /\ KnowsIndex(Closed, table, recorded, wanted)
         /\ KnowsPreviews(Closed, ev, pv)
<1> DEFINE c == Return(p, place)
<1>1. c.at = place /\ (place = "open" => c.tokenizer = call[p].tokenizer) /\ Closed.at = "closed"
  BY ReturnFields DEF Closed
<1> HIDE DEF c
<1>2. KnowsIndex(c, table, recorded, wanted) /\ KnowsPreviews(c, ev, pv)
  BY <1>1 DEF KnowsIndex, KnowsPreviews, Opening, Reindexing
<1>3. KnowsIndex(Closed, table, recorded, wanted) /\ KnowsPreviews(Closed, ev, pv)
  BY <1>1 DEF KnowsIndex, KnowsPreviews, Opening, Reindexing
<1> QED
  BY <1>2, <1>3 DEF c

\* Opening: every statement leaves the calls knowing what they should.
LEMMA OpeningKnows ==
  ASSUME KnownInv, IndexInv', NEW p \in Processes,
         \/ \E t \in Tokenizers : OpenRead(p, t)
         \/ CreateSchema(p) \/ DropIndex(p) \/ CreateIndex(p) \/ FillIndex(p) \/ Record(p)
  PROVE  KnownInv'
<1>1. /\ TypeOK /\ TableKnown(fts) /\ call[p] \in CallValue
      /\ KnowsIndex(call[p], fts, contract, Searchable)
      /\ fts \in [tokenizer : Tokenizers \cup {None}, rows : SUBSET EventRows]
  BY DEF KnownInv, IndexInv, TypeOK
<1>2. ASSUME NEW t \in Tokenizers, OpenRead(p, t)
      PROVE  KnownInv'
  <2> DEFINE c == [Closed EXCEPT !.at = "schema", !.tokenizer = t, !.previous = contract]
  <2>1. c.at = "schema" /\ c.tokenizer = t /\ c.previous = contract
    BY DEF Closed
  <2>2. Continue(p, c, {}) /\ UNCHANGED <<events, preview, fts, contract>>
    BY <1>2 DEF OpenRead
  <2> HIDE DEF c
  <2>3. Effect({})
    BY <2>2, SameSearchable DEF Effect
  <2>4. KnowsIndex(c, fts', contract', Searchable') /\ KnowsPreviews(c, events', preview')
    BY <2>1, <2>2 DEF KnowsIndex, KnowsPreviews, Reindexing
  <2>5. TableKnown(fts')
    BY <1>1, <2>2
  <2> QED
    BY <2>2, <2>3, <2>4, <2>5, AllKnow
<1>3. CASE CreateSchema(p)
  <2> DEFINE place == IF Switching(p) THEN "drop" ELSE "record"
             kind == IF fts = NoTable THEN {"schema"} ELSE {}
             c == GoTo(p, place)
  <2>1. /\ c.at = place /\ c.tokenizer = call[p].tokenizer /\ c.previous = call[p].previous
        /\ c.met = call[p].met
    BY <1>1, GoToFields DEF Places, Opening
  <2>2. /\ Continue(p, c, kind) /\ UNCHANGED <<events, preview, contract>> /\ call[p].at = "schema"
        /\ (fts = NoTable => fts' = [tokenizer |-> call[p].tokenizer, rows |-> {}])
        /\ (fts # NoTable => fts' = fts)
    BY <1>3 DEF CreateSchema, At
  <2>3. place = IF Switches(c) THEN "drop" ELSE "record"
    BY <2>1 DEF Switching, Switches
  <2>4. kind \in SUBSET Kinds /\ (fts # NoTable <=> "schema" \notin kind)
    BY DEF Kinds
  <2>5. call[p].tokenizer \in Tokenizers
    BY <1>1, <2>2 DEF KnowsIndex
  <2> HIDE DEF c, place, kind
  <2>6. Effect(kind)
    BY <2>2, <2>4, SameSearchable DEF Effect
  <2>7. TableKnown(fts') /\ fts'.tokenizer # None
    BY <1>1, <2>2, <2>5, DerivedAssumption DEF TableKnown
  <2>8. KnowsIndex(c, fts', contract', Searchable')
    BY <1>1, <2>1, <2>2, <2>3, <2>5, <2>7 DEF KnowsIndex, Opening, Reindexing
  <2>9. KnowsPreviews(c, events', preview')
    BY <2>1, <2>3 DEF KnowsPreviews
  <2> QED
    BY <2>2, <2>4, <2>6, <2>7, <2>8, <2>9, AllKnow
<1>4. CASE DropIndex(p)
  <2> DEFINE c == GoTo(p, "create")
  <2>1. /\ c.at = "create" /\ c.tokenizer = call[p].tokenizer /\ c.previous = call[p].previous
        /\ c.met = call[p].met
    BY <1>1, GoToFields DEF Places, Opening
  <2>2. /\ Continue(p, c, {"schema"}) /\ UNCHANGED <<events, preview, contract>>
        /\ call[p].at = "drop" /\ fts' = NoTable
    BY <1>4 DEF DropIndex, At
  <2> HIDE DEF c
  <2>3. Effect({"schema"}) /\ {"schema"} \in SUBSET Kinds
    BY <2>2 DEF Effect, Kinds
  <2>4. KnowsIndex(c, fts', contract', Searchable') /\ KnowsPreviews(c, events', preview')
    BY <1>1, <2>1, <2>2 DEF KnowsIndex, KnowsPreviews, Opening, Reindexing, NoTable, Switches
  <2>5. TableKnown(fts')
    BY <2>2 DEF TableKnown
  <2> QED
    BY <2>2, <2>3, <2>4, <2>5, AllKnow
<1>5. CASE CreateIndex(p)
  <2> DEFINE c == GoTo(p, "fill")
  <2>1. /\ c.at = "fill" /\ c.tokenizer = call[p].tokenizer /\ c.previous = call[p].previous
        /\ c.met = call[p].met
    BY <1>1, GoToFields DEF Places, Opening
  <2>2. /\ Continue(p, c, {"schema"}) /\ UNCHANGED <<events, preview, contract>>
        /\ call[p].at = "create" /\ fts' = [tokenizer |-> call[p].tokenizer, rows |-> {}]
    BY <1>5 DEF CreateIndex, At
  <2> HIDE DEF c
  <2>3. Effect({"schema"}) /\ {"schema"} \in SUBSET Kinds
    BY <2>2 DEF Effect, Kinds
  <2>4. KnowsIndex(c, fts', contract', Searchable') /\ KnowsPreviews(c, events', preview')
    BY <1>1, <2>1, <2>2 DEF KnowsIndex, KnowsPreviews, Opening, Reindexing, Switches
  <2>5. TableKnown(fts')
    BY <1>1, <2>2 DEF TableKnown, KnowsIndex
  <2> QED
    BY <2>2, <2>3, <2>4, <2>5, AllKnow
<1>6. CASE FillIndex(p)
  <2> DEFINE c == GoTo(p, "record")
  <2>1. /\ c.at = "record" /\ c.tokenizer = call[p].tokenizer /\ c.previous = call[p].previous
        /\ c.met = call[p].met
    BY <1>1, GoToFields DEF Places, Opening
  <2>2. /\ Continue(p, c, {"schema"}) /\ UNCHANGED <<events, preview, contract>>
        /\ call[p].at = "fill" /\ fts.tokenizer \in Loaded(p)
        /\ fts' = [fts EXCEPT !.rows = @ \cup Searchable]
    BY <1>6 DEF FillIndex, At, TableUsable
  <2>3. fts'.tokenizer = fts.tokenizer /\ fts.tokenizer \in Tokenizers
    BY <1>1, <2>2, UsableKnown
  <2> HIDE DEF c
  <2>4. Effect({"schema"}) /\ {"schema"} \in SUBSET Kinds
    BY <2>2 DEF Effect, Kinds
  <2>5. KnowsIndex(c, fts', contract', Searchable') /\ KnowsPreviews(c, events', preview')
    BY <1>1, <2>1, <2>2, <2>3, DerivedAssumption
       DEF KnowsIndex, KnowsPreviews, Opening, Reindexing, Switches
  <2>6. TableKnown(fts')
    BY <2>3 DEF TableKnown
  <2> QED
    BY <2>2, <2>4, <2>5, <2>6, AllKnow
<1>7. CASE Record(p)
  <2> DEFINE c == Return(p, "open")
             kind == IF contract = call[p].tokenizer THEN {} ELSE {"schema"}
  <2>1. /\ Continue(p, c, kind) /\ UNCHANGED <<events, preview, fts>>
        /\ call[p].at = "record" /\ contract' = call[p].tokenizer
    BY <1>7 DEF Record, At
  <2>2. call[p].tokenizer \in Tokenizers /\ contract' # None
    BY <1>1, <2>1, DerivedAssumption DEF KnowsIndex
  <2>3. KnowsIndex(c, fts', contract', Searchable') /\ KnowsPreviews(c, events', preview')
    BY <2>2, ReturnedKnows
  <2>4. kind \in SUBSET Kinds /\ ("schema" \notin kind => contract = call[p].tokenizer)
    BY DEF Kinds
  <2> HIDE DEF c, kind
  <2>5. Effect(kind)
    BY <2>1, <2>2, <2>4, SameSearchable DEF Effect
  <2>6. TableKnown(fts')
    BY <1>1, <2>1
  <2> QED
    BY <2>1, <2>3, <2>4, <2>5, <2>6, AllKnow
<1> QED
  BY <1>2, <1>3, <1>4, <1>5, <1>6, <1>7

\* Reindexing: likewise.
LEMMA ReindexingKnows ==
  ASSUME KnownInv, IndexInv', NEW p \in Processes,
         \/ BeginReindex(p) \/ RebuildFts(p) \/ ProjectAggregates(p) \/ ListOverlong(p)
         \/ \E s \in Sessions : Truncate(p, s)
         \/ ListSessions(p) \/ RebuildSpans(p)
  PROVE  KnownInv'
<1> DEFINE r == call[p]
<1>1. /\ TypeOK /\ TableKnown(fts) /\ r \in CallValue
      /\ KnowsIndex(r, fts, contract, Searchable) /\ KnowsPreviews(r, events, preview)
      /\ fts \in [tokenizer : Tokenizers \cup {None}, rows : SUBSET EventRows]
      /\ events \in [Sessions -> Streams \cup {None}]
      /\ preview \in [Sessions -> PreviewValue \cup {None}]
  BY DEF KnownInv, IndexInv, TypeOK
<1>2. {} \in SUBSET Kinds /\ {"schema"} \in SUBSET Kinds /\ {"write"} \in SUBSET Kinds
  BY DEF Kinds
<1>3. CASE BeginReindex(p)
  <2> DEFINE c == [r EXCEPT !.at = "rebuild", !.previous = contract, !.met = {}]
  <2>1. Continue(p, c, {}) /\ UNCHANGED <<events, preview, fts, contract>> /\ r.at = "open"
    BY <1>3 DEF BeginReindex, At
  <2>2. c.at = "rebuild" /\ c.previous = contract /\ c.tokenizer = r.tokenizer
    BY <1>1 DEF CallValue
  <2> HIDE DEF c, r
  <2>3. Effect({})
    BY <2>1, SameSearchable DEF Effect
  <2>4. KnowsIndex(c, fts', contract', Searchable') /\ KnowsPreviews(c, events', preview')
    BY <1>1, <2>1, <2>2 DEF KnowsIndex, KnowsPreviews, Opening, Reindexing
  <2>5. TableKnown(fts')
    BY <1>1, <2>1
  <2> QED
    BY <1>2, <2>1, <2>3, <2>4, <2>5, AllKnow
<1>4. CASE RebuildFts(p)
  <2> DEFINE c == GoTo(p, "project")
  <2>1. /\ c.at = "project" /\ c.tokenizer = r.tokenizer /\ c.previous = r.previous /\ c.met = r.met
    BY <1>1, GoToFields DEF Places, Reindexing
  <2>2. /\ Continue(p, c, {"schema"}) /\ UNCHANGED <<events, preview, contract>>
        /\ r.at = "rebuild" /\ r.previous \in Loaded(p)
        /\ fts' = [tokenizer |-> r.previous, rows |-> Searchable]
    BY <1>4 DEF RebuildFts, At
  <2>3. r.previous \in Tokenizers
    BY <2>2, UsableKnown
  <2> HIDE DEF c, r
  <2>4. Effect({"schema"})
    BY <2>2 DEF Effect
  <2>5. KnowsIndex(c, fts', contract', Searchable') /\ KnowsPreviews(c, events', preview')
    BY <1>1, <2>1, <2>2, SameSearchable DEF KnowsIndex, KnowsPreviews, Opening, Reindexing
  <2>6. TableKnown(fts')
    BY <2>2, <2>3 DEF TableKnown
  <2> QED
    BY <1>2, <2>2, <2>4, <2>5, <2>6, AllKnow
<1>5. CASE ProjectAggregates(p)
  <2> DEFINE c == GoTo(p, "list")
  <2>1. /\ c.at = "list" /\ c.tokenizer = r.tokenizer /\ c.previous = r.previous /\ c.met = r.met
    BY <1>1, GoToFields DEF Places, Reindexing
  <2>2. /\ Continue(p, c, {"write"}) /\ UNCHANGED <<events, fts, contract>> /\ r.at = "project"
        /\ preview' = [s \in Sessions |-> IF events[s] = None THEN None ELSE CopiedText(events[s])]
    BY <1>5 DEF ProjectAggregates, At
  <2> HIDE DEF c, r
  <2>3. Effect({"write"})
    BY <2>2, SameSearchable DEF Effect
  <2>4. KnowsIndex(c, fts', contract', Searchable')
    BY <1>1, <2>1, <2>2, SameSearchable DEF KnowsIndex, Opening, Reindexing
  <2>5. KnowsPreviews(c, events', preview')
    BY <2>1, <2>2 DEF KnowsPreviews
  <2>6. TableKnown(fts')
    BY <1>1, <2>2
  <2> QED
    BY <1>2, <2>2, <2>3, <2>4, <2>5, <2>6, AllKnow
<1>6. CASE ListOverlong(p)
  <2> DEFINE listed == [s \in Sessions |->
                 IF preview[s] # None /\ preview[s].of \in Long THEN preview[s].of ELSE None]
             c == [r EXCEPT !.at = "truncate", !.overlong = listed]
  <2>1. Continue(p, c, {}) /\ UNCHANGED <<events, preview, fts, contract>> /\ r.at = "list"
    BY <1>6 DEF ListOverlong, At
  <2>2. \A s \in Sessions :
          listed[s] = IF preview[s] # None /\ preview[s].of \in Long THEN preview[s].of ELSE None
    OBVIOUS
  <2> HIDE DEF listed
  <2>3. c.at = "truncate" /\ c.overlong = listed
    BY <1>1 DEF CallValue
  <2>4. c.tokenizer = r.tokenizer /\ c.previous = r.previous /\ c.met = r.met
    BY <1>1 DEF CallValue
  <2> HIDE DEF c, r
  <2>5. Effect({})
    BY <2>1, SameSearchable DEF Effect
  <2>6. KnowsIndex(c, fts', contract', Searchable')
    BY <1>1, <2>1, <2>3, <2>4, SameSearchable DEF KnowsIndex, Opening, Reindexing
  <2>7. KnowsPreviews(c, events', preview')
    <3> SUFFICES ASSUME "write" \notin r.met, NEW s \in Sessions
                 PROVE  /\ listed[s] # None => listed[s] = events[s]
                        /\ listed[s] = None /\ events[s] # None => preview[s] = Preview(events[s])
      BY <2>1, <2>3, <2>4 DEF KnowsPreviews
    <3>1. preview[s] = IF events[s] = None THEN None ELSE CopiedText(events[s])
      BY <1>1, <2>1 DEF KnowsPreviews
    <3>2. CASE events[s] = None
      BY <2>2, <3>1, <3>2
    <3>3. CASE events[s] # None
      <4>1. events[s] \in Streams
        BY <1>1, <3>3
      <4>2. preview[s] = [of |-> events[s], whole |-> TRUE]
        BY <3>1, <3>3 DEF CopiedText
      <4>3. [of |-> events[s], whole |-> TRUE] \in [of : Streams, whole : BOOLEAN]
        BY <4>1
      <4>4. preview[s] # None
        BY <4>2, <4>3, DerivedAssumption
      <4>5. preview[s].of = events[s]
        BY <4>2
      <4>6. CASE events[s] \in Long
        BY <2>2, <3>3, <4>4, <4>5, <4>6
      <4>7. CASE events[s] \notin Long
        <5>1. Preview(events[s]) = [of |-> events[s], whole |-> TRUE]
          BY <4>7 DEF Preview
        <5>2. listed[s] = None
          BY <2>2, <4>5, <4>7
        <5> QED
          BY <4>2, <5>1, <5>2
      <4> QED
        BY <4>6, <4>7
    <3> QED
      BY <3>2, <3>3
  <2>8. TableKnown(fts')
    BY <1>1, <2>1
  <2> QED
    BY <1>2, <2>1, <2>5, <2>6, <2>7, <2>8, AllKnow
<1>7. ASSUME NEW s \in Sessions, Truncate(p, s)
      PROVE  KnownInv'
  <2> DEFINE c == [r EXCEPT !.overlong[s] = None]
  <2>1. /\ Continue(p, c, {"write"}) /\ UNCHANGED <<events, fts, contract>>
        /\ r.at = "truncate" /\ r.overlong[s] # None
        /\ preview' = [preview EXCEPT ![s] = Preview(r.overlong[s])]
    BY <1>7 DEF Truncate, Truncated, At
  <2>2. c.at = r.at /\ c.tokenizer = r.tokenizer
    BY <1>1 DEF CallValue
  <2>3. c.previous = r.previous /\ c.met = r.met
    BY <1>1 DEF CallValue
  <2>4. c.overlong = [r.overlong EXCEPT ![s] = None] /\ r.overlong \in [Sessions -> Streams \cup {None}]
    BY <1>1 DEF CallValue
  <2> HIDE DEF c, r
  <2>5. Effect({"write"})
    BY <2>1, SameSearchable DEF Effect
  <2>6. KnowsIndex(c, fts', contract', Searchable')
    BY <1>1, <2>1, <2>2, <2>3, SameSearchable DEF KnowsIndex, Opening, Reindexing
  <2>7. KnowsPreviews(c, events', preview')
    <3> SUFFICES ASSUME "write" \notin r.met, NEW z \in Sessions
                 PROVE  /\ c.overlong[z] # None => c.overlong[z] = events[z]
                        /\ c.overlong[z] = None /\ events[z] # None => preview'[z] = Preview(events[z])
      BY <2>1, <2>2, <2>3 DEF KnowsPreviews
    <3>1. \A x \in Sessions :
            /\ r.overlong[x] # None => r.overlong[x] = events[x]
            /\ r.overlong[x] = None /\ events[x] # None => preview[x] = Preview(events[x])
      BY <1>1, <2>1 DEF KnowsPreviews
    <3>2. CASE z = s
      <4>1. c.overlong[s] = None /\ r.overlong[s] = events[s]
        BY <2>1, <2>4, <3>1
      <4>2. preview'[s] = Preview(r.overlong[s])
        BY <1>1, <2>1
      <4> QED
        BY <3>2, <4>1, <4>2
    <3>3. CASE z # s
      <4>1. c.overlong[z] = r.overlong[z] /\ preview'[z] = preview[z]
        BY <1>1, <2>1, <2>4, <3>3
      <4> QED
        BY <3>1, <4>1
    <3> QED
      BY <3>2, <3>3
  <2>8. TableKnown(fts')
    BY <1>1, <2>1
  <2> QED
    BY <1>2, <2>1, <2>5, <2>6, <2>7, <2>8, AllKnow
<1>8. CASE ListSessions(p)
  <2> DEFINE stored == {s \in Sessions : events[s] # None}
             c == [r EXCEPT !.at = "spans", !.ids = stored]
  <2>1. /\ Continue(p, c, {}) /\ UNCHANGED <<events, preview, fts, contract>> /\ r.at = "truncate"
        /\ \A s \in Sessions : r.overlong[s] = None
    BY <1>8 DEF ListSessions, At
  <2> HIDE DEF stored
  <2>2. c.at = "spans" /\ c.tokenizer = r.tokenizer
    BY <1>1 DEF CallValue
  <2>3. c.previous = r.previous /\ c.met = r.met
    BY <1>1 DEF CallValue
  <2> HIDE DEF c, r
  <2>4. Effect({})
    BY <2>1, SameSearchable DEF Effect
  <2>5. KnowsIndex(c, fts', contract', Searchable')
    BY <1>1, <2>1, <2>2, <2>3, SameSearchable DEF KnowsIndex, Opening, Reindexing
  <2>6. KnowsPreviews(c, events', preview')
    BY <1>1, <2>1, <2>2, <2>3 DEF KnowsPreviews, Shown
  <2>7. TableKnown(fts')
    BY <1>1, <2>1
  <2> QED
    BY <1>2, <2>1, <2>4, <2>5, <2>6, <2>7, AllKnow
<1>9. CASE RebuildSpans(p)
  <2> DEFINE c == Return(p, "open")
             more == UNION {Indexed(s, events[s]) : s \in r.ids}
  <2>1. /\ Continue(p, c, {"write"}) /\ UNCHANGED <<events, preview, contract>>
        /\ r.at = "spans" /\ fts.tokenizer \in Loaded(p)
        /\ fts' = [fts EXCEPT !.rows = @ \cup more]
    BY <1>9 DEF RebuildSpans, At, TableUsable
  <2>2. more \subseteq Searchable
    <3>1. r.ids \subseteq Sessions
      BY <1>1 DEF CallValue
    <3> QED
      BY <3>1, SearchableBySession
  <2>3. r.tokenizer \in Tokenizers /\ contract # None
    BY <1>1, <2>1 DEF KnowsIndex, Reindexing
  <2>4. KnowsIndex(c, fts', contract', Searchable') /\ KnowsPreviews(c, events', preview')
    BY <2>1, <2>3, ReturnedKnows
  <2> HIDE DEF c, r, more
  <2>5. fts'.tokenizer = fts.tokenizer /\ fts'.rows = fts.rows \cup more
    BY <1>1, <2>1
  <2>6. Effect({"write"})
    BY <2>1, <2>2, <2>5, SameSearchable DEF Effect
  <2>7. TableKnown(fts')
    BY <2>1, <2>5, UsableKnown DEF TableKnown, r
  <2> QED
    BY <1>2, <2>1, <2>4, <2>6, <2>7, AllKnow
<1> QED
  BY <1>3, <1>4, <1>5, <1>6, <1>7, <1>8, <1>9

\* Sessions are written, calls end early, connections are closed: likewise.
LEMMA OtherwiseKnows ==
  ASSUME KnownInv, IndexInv', NEW p \in Processes,
         \/ \E s \in Sessions, st \in Streams : Write(p, s, st)
         \/ Fail(p) \/ Crash(p) \/ Close(p)
  PROVE  KnownInv'
<1>1. /\ TypeOK /\ IndexInv /\ TableKnown(fts) /\ call[p] \in CallValue
      /\ KnowsIndex(call[p], fts, contract, Searchable) /\ KnowsPreviews(call[p], events, preview)
      /\ fts \in [tokenizer : Tokenizers \cup {None}, rows : SUBSET EventRows]
  BY DEF KnownInv, IndexInv, TypeOK
<1>2. {} \in SUBSET Kinds /\ {"write"} \in SUBSET Kinds
  BY DEF Kinds
<1>3. ASSUME NEW s \in Sessions, NEW st \in Streams, Write(p, s, st)
      PROVE  KnownInv'
  <2>1. /\ Continue(p, call[p], {"write"}) /\ UNCHANGED contract /\ call[p].at = "open"
        /\ fts.tokenizer \in Loaded(p)
        /\ fts' = [fts EXCEPT !.rows = Reindexed(s, events[s], st)]
    BY <1>3 DEF Write, At, TableUsable
  <2>2. fts'.tokenizer = fts.tokenizer
    BY <1>1, <2>1
  <2>3. fts.rows = Searchable => fts'.rows = Searchable'
    BY <1>1, <1>3, WriteKeepsExact
  <2>4. Effect({"write"})
    BY <2>1, <2>2, <2>3 DEF Effect
  <2>5. KnowsIndex(call[p], fts', contract', Searchable') /\ KnowsPreviews(call[p], events', preview')
    BY <1>1, <2>1 DEF KnowsIndex, KnowsPreviews, Opening, Reindexing
  <2>6. TableKnown(fts')
    BY <2>1, <2>2, UsableKnown DEF TableKnown
  <2> QED
    BY <1>2, <2>1, <2>4, <2>5, <2>6, AllKnow
<1>4. CASE Fail(p)
  <2> DEFINE place == IF call[p].at \in Opening THEN "closed" ELSE "open"
             c == Return(p, place)
  <2>1. /\ Continue(p, c, {}) /\ UNCHANGED <<events, preview, fts, contract>>
        /\ call[p].at \in Opening \cup Reindexing
    BY <1>4 DEF Fail, InCall
  <2>2. /\ place \in {"closed", "open"}
        /\ place = "open" => call[p].tokenizer \in Tokenizers /\ contract # None
    BY <1>1, <2>1 DEF KnowsIndex, Opening, Reindexing
  <2> HIDE DEF place
  <2>3. KnowsIndex(c, fts', contract', Searchable') /\ KnowsPreviews(c, events', preview')
    BY <2>1, <2>2, ReturnedKnows
  <2> HIDE DEF c
  <2>4. Effect({})
    BY <2>1, SameSearchable DEF Effect
  <2>5. TableKnown(fts')
    BY <1>1, <2>1
  <2> QED
    BY <1>2, <2>1, <2>3, <2>4, <2>5, AllKnow
<1>5. CASE Crash(p) \/ Close(p)
  <2>1. Continue(p, Closed, {}) /\ UNCHANGED <<events, preview, fts, contract>>
    BY <1>5 DEF Crash, Close
  <2>2. KnowsIndex(Closed, fts', contract', Searchable') /\ KnowsPreviews(Closed, events', preview')
    BY ReturnedKnows
  <2>3. Effect({})
    BY <2>1, SameSearchable DEF Effect
  <2>4. TableKnown(fts')
    BY <1>1, <2>1
  <2> QED
    BY <1>2, <2>1, <2>2, <2>3, <2>4, AllKnow
<1> QED
  BY <1>3, <1>4, <1>5

LEMMA KnownStep == KnownInv /\ [Next]_vars => KnownInv'
<1> SUFFICES ASSUME KnownInv, [Next]_vars
             PROVE  KnownInv'
  OBVIOUS
<1>1. ASSUME NEW p \in Processes, Step(p)
      PROVE  KnownInv'
  <2>1. IndexInv'
    BY <1>1, StepTyped, StepKeepsIndex DEF KnownInv, IndexInv
  <2> QED
    BY <1>1, <2>1, OpeningKnows, ReindexingKnows, OtherwiseKnows DEF Step
<1>2. CASE UNCHANGED vars
  <2>1. Searchable' = Searchable
    BY <1>2, SameSearchable DEF vars
  <2>2. IndexInv'
    BY <1>2, <2>1 DEF vars, KnownInv, IndexInv, TypeOK, NoOrphans
  <2> QED
    BY <1>2, <2>1, <2>2 DEF vars, KnownInv
<1> QED
  BY <1>1, <1>2 DEF Next

LEMMA KnownInit == Init => KnownInv
<1> SUFFICES ASSUME Init
             PROVE  KnownInv
  OBVIOUS
<1>1. IndexInv /\ TableKnown(fts)
  BY InitTyped DEF Init, NoTable, IndexInv, NoOrphans, TableKnown
<1>2. \A p \in Processes : call[p] = Closed
  BY DEF Init
<1>3. KnowsIndex(Closed, fts, contract, Searchable) /\ KnowsPreviews(Closed, events, preview)
  BY DEF Closed, KnowsIndex, KnowsPreviews, Opening, Reindexing
<1> QED
  BY <1>1, <1>2, <1>3 DEF KnownInv

\* The last step of a reindex that met no other change of the schema leaves an
\* exact index; if nobody wrote sessions either, exact previews.
LEMMA SpansRepair ==
  ASSUME KnownInv, NEW p \in Processes, RebuildSpans(p), "schema" \notin call[p].met
  PROVE  /\ fts'.tokenizer = contract'
         /\ fts'.rows = Searchable'
         /\ contract' # None
         /\ "write" \notin call[p].met => Shown(events', preview')
<1>1. /\ KnowsIndex(call[p], fts, contract, Searchable) /\ KnowsPreviews(call[p], events, preview)
      /\ fts \in [tokenizer : Tokenizers \cup {None}, rows : SUBSET EventRows]
      /\ call[p].ids \subseteq Sessions
  BY DEF KnownInv, IndexInv, TypeOK, CallValue
<1> DEFINE more == UNION {Indexed(s, events[s]) : s \in call[p].ids}
<1>2. more \subseteq Searchable
  BY <1>1, SearchableBySession
<1>3. /\ call[p].at = "spans" /\ fts' = [fts EXCEPT !.rows = @ \cup more]
      /\ UNCHANGED <<events, preview, contract>>
  BY DEF RebuildSpans, At
<1> HIDE DEF more
<1>4. fts'.tokenizer = fts.tokenizer /\ fts'.rows = fts.rows \cup more
  BY <1>1, <1>3
<1>5. fts.tokenizer = contract /\ fts.rows = Searchable /\ contract # None
  BY <1>1, <1>3 DEF KnowsIndex, Reindexing
<1>6. "write" \notin call[p].met => Shown(events, preview)
  BY <1>1, <1>3 DEF KnowsPreviews
<1> QED
  BY <1>2, <1>3, <1>4, <1>5, <1>6, SameSearchable

\* Whatever state it began in and whoever wrote meanwhile, a reindex that no
\* other process disturbed in the schema makes the index exact, and the previews
\* if nobody wrote sessions (ReindexRepairs).
THEOREM ReindexRepairsAlways == Spec => ReindexRepairs
<1>1. KnownInv /\ [Next]_vars =>
        [\A p \in Processes : At(p, "spans") /\ RebuildSpans(p) /\ "schema" \notin call[p].met =>
           /\ fts'.tokenizer = contract'
           /\ fts'.rows = Searchable'
           /\ "write" \notin call[p].met =>
                \A s \in Sessions : events'[s] # None => preview'[s] = Preview(events'[s])]_vars
  BY SpansRepair DEF Shown
<1> QED
  BY <1>1, KnownInit, KnownStep, PTL DEF Spec, ReindexRepairs

-------------------------------------------------------------------------------
(***************************************************************************)
(* Exact in peace                                                          *)
(*                                                                         *)
(* As long as nothing was torn, either some call has met another's change, *)
(* and its end will be recorded as torn, or at most one call has changed   *)
(* anything since it began, and the state is where that call stands.       *)
(***************************************************************************)
Busy(c) == c.at \in Opening \cup Reindexing

Untouched(table, recorded, ev) ==
  /\ table = NoTable
  /\ recorded = None
  /\ \A s \in Sessions : ev[s] = None

Matched(table, recorded, wanted, ev, pv) ==
  /\ recorded # None
  /\ table.tokenizer = recorded
  /\ table.rows = wanted
  /\ Shown(ev, pv)

\* A call between its first change and the one that makes things exact again.
Amid(c, table, wanted, ev, pv) ==
  \/ c.at \in {"create", "fill"} /\ Shown(ev, pv)
  \/ /\ c.at = "record"
     /\ c.previous = None \/ Switches(c)
     /\ table.tokenizer = c.tokenizer
     /\ table.rows = wanted
     /\ Shown(ev, pv)
  \/ c.at \in {"list", "truncate"}

Settled ==
  \/ Untouched(fts, contract, events)
  \/ Matched(fts, contract, Searchable, events, preview)
  \/ \E q \in Processes : Amid(call[q], fts, Searchable, events, preview)

Disturbed == \E q \in Processes : Busy(call[q]) /\ call[q].met # {}

PeaceInv == ~torn => Disturbed \/ Settled

\* No call but p's is under way.
Alone(p) == \A q \in Processes : q # p => ~Busy(call[q])

\* A step keeps the peace if it does so where nobody has met a change and, if
\* the step is itself a change, nobody is there to meet it.
LEMMA PeaceKept ==
  ASSUME TypeOK, NEW p \in Processes, NEW next, NEW kind \in SUBSET Kinds, Continue(p, next, kind),
         Disturbed \/ Settled,
         Busy(call[p]) /\ call[p].met # {} => Busy(next) /\ next.met # {},
         Settled /\ ~Disturbed /\ (kind = {} \/ Alone(p)) => Settled'
  PROVE  Disturbed' \/ Settled'
<1>1. call'[p] = next
  BY Continued
<1>2. ASSUME NEW q \in Processes, q # p, Busy(call[q]), call[q].met # {} \/ kind # {}
      PROVE  Disturbed'
  <2>1. call'[q].at = call[q].at
    BY <1>2, Continued
  <2>2. call'[q].met = IF InCall(q) THEN call[q].met \cup kind ELSE call[q].met
    BY <1>2, Continued
  <2>3. Busy(call'[q]) /\ call'[q].met # {}
    BY <1>2, <2>1, <2>2 DEF Busy, InCall
  <2> QED
    BY <2>3 DEF Disturbed
<1>3. CASE Disturbed
  <2>1. PICK q \in Processes : Busy(call[q]) /\ call[q].met # {}
    BY <1>3 DEF Disturbed
  <2>2. CASE q = p
    BY <1>1, <2>1, <2>2 DEF Disturbed
  <2>3. CASE q # p
    BY <1>2, <2>1, <2>3
  <2> QED
    BY <2>2, <2>3
<1>4. CASE kind # {} /\ ~Alone(p)
  BY <1>2, <1>4 DEF Alone
<1>5. CASE ~Disturbed /\ (kind = {} \/ Alone(p))
  BY <1>5
<1> QED
  BY <1>3, <1>4, <1>5

\* A step that changes no data leaves things settled unless it ends p's change.
LEMMA SameDataSettled ==
  ASSUME TypeOK, NEW p \in Processes, NEW next, Continue(p, next, {}), Settled,
         UNCHANGED <<events, preview, fts, contract>>,
         Amid(call[p], fts, Searchable, events, preview) =>
           \/ Amid(next, fts, Searchable, events, preview)
           \/ Matched(fts, contract, Searchable, events, preview)
  PROVE  Settled'
<1>1. call'[p] = next
  BY Continued DEF Kinds
<1>2. Searchable' = Searchable
  BY SameSearchable
<1>3. CASE Untouched(fts, contract, events) \/ Matched(fts, contract, Searchable, events, preview)
  BY <1>2, <1>3 DEF Settled
<1>4. ASSUME NEW q \in Processes, Amid(call[q], fts, Searchable, events, preview)
      PROVE  Settled'
  <2>1. CASE q = p
    BY <1>1, <1>2, <1>4, <2>1 DEF Settled
  <2>2. CASE q # p
    <3>1. call'[q].at = call[q].at /\ call'[q].tokenizer = call[q].tokenizer
      BY <2>2, Continued DEF Kinds
    <3>2. call'[q].previous = call[q].previous
      BY <2>2, Continued DEF Kinds
    <3>3. Amid(call'[q], fts', Searchable', events', preview')
      BY <1>2, <1>4, <3>1, <3>2 DEF Amid, Switches
    <3> QED
      BY <3>3 DEF Settled
  <2> QED
    BY <2>1, <2>2
<1> QED
  BY <1>3, <1>4 DEF Settled

\* Alone, p's call is the only one that can be in the middle of a change.
LEMMA AloneSettled ==
  ASSUME NEW p \in Processes, Alone(p), Settled
  PROVE  \/ Untouched(fts, contract, events)
         \/ Matched(fts, contract, Searchable, events, preview)
         \/ Amid(call[p], fts, Searchable, events, preview)
BY DEF Settled, Alone, Busy, Amid, Opening, Reindexing

\* Opening keeps the peace.
LEMMA OpeningPeaceful ==
  ASSUME KnownInv, Disturbed \/ Settled, NEW p \in Processes,
         \/ \E t \in Tokenizers : OpenRead(p, t)
         \/ CreateSchema(p) \/ DropIndex(p) \/ CreateIndex(p) \/ FillIndex(p)
         \/ Record(p) /\ call[p].met = {}
  PROVE  Disturbed' \/ Settled'
<1>1. /\ TypeOK /\ call[p] \in CallValue /\ TableKnown(fts) /\ NoOrphans
      /\ KnowsIndex(call[p], fts, contract, Searchable)
      /\ fts \in [tokenizer : Tokenizers \cup {None}, rows : SUBSET EventRows]
  BY DEF KnownInv, IndexInv, TypeOK
<1>2. {} \in SUBSET Kinds /\ {"schema"} \in SUBSET Kinds
  BY DEF Kinds
<1>3. ASSUME ~Disturbed, Busy(call[p])
      PROVE  call[p].met = {}
  BY <1>3 DEF Disturbed
<1>4. ASSUME NEW t \in Tokenizers, OpenRead(p, t)
      PROVE  Disturbed' \/ Settled'
  <2> DEFINE c == [Closed EXCEPT !.at = "schema", !.tokenizer = t, !.previous = contract]
  <2>1. /\ Continue(p, c, {}) /\ UNCHANGED <<events, preview, fts, contract>>
        /\ call[p].at = "closed"
    BY <1>4 DEF OpenRead, At
  <2> HIDE DEF c
  <2>2. ~Busy(call[p]) /\ ~Amid(call[p], fts, Searchable, events, preview)
    BY <2>1 DEF Busy, Amid, Opening, Reindexing
  <2>3. Settled => Settled'
    BY <1>1, <2>1, <2>2, SameDataSettled
  <2> QED
    BY <1>1, <1>2, <2>1, <2>2, <2>3, PeaceKept
<1>5. CASE CreateSchema(p)
  <2> DEFINE place == IF Switching(p) THEN "drop" ELSE "record"
             kind == IF fts = NoTable THEN {"schema"} ELSE {}
             c == GoTo(p, place)
  <2>1. /\ c.at = place /\ c.tokenizer = call[p].tokenizer /\ c.previous = call[p].previous
        /\ c.met = call[p].met
    BY <1>1, GoToFields DEF Places, Opening
  <2>2. /\ Continue(p, c, kind) /\ UNCHANGED <<events, preview, contract>> /\ call[p].at = "schema"
        /\ (fts = NoTable => fts' = [tokenizer |-> call[p].tokenizer, rows |-> {}])
        /\ (fts # NoTable => fts' = fts)
    BY <1>5 DEF CreateSchema, At
  <2>3. /\ kind \in SUBSET Kinds /\ Busy(call[p]) /\ Busy(c)
        /\ place = IF Switches(c) THEN "drop" ELSE "record"
        /\ (fts = NoTable => kind # {}) /\ (fts # NoTable => kind = {})
    BY <2>1, <2>2 DEF Kinds, Busy, Opening, Switching, Switches
  <2>4. ~Amid(call[p], fts, Searchable, events, preview)
    BY <2>2 DEF Amid
  <2> HIDE DEF c, place, kind
  <2>5. ASSUME fts # NoTable, Settled
        PROVE  Settled'
    BY <1>1, <2>2, <2>3, <2>4, <2>5, SameDataSettled
  <2>6. ASSUME fts = NoTable, Settled, ~Disturbed, Alone(p)
        PROVE  Settled'
    <3>1. fts.tokenizer = None
      BY <2>6 DEF NoTable
    <3>2. Untouched(fts, contract, events)
      BY <2>4, <2>6, <3>1, AloneSettled DEF Matched
    <3>3. call[p].previous = None
      BY <1>1, <1>3, <2>2, <2>3, <2>6, <3>2 DEF KnowsIndex, Untouched, Opening
    <3>4. Searchable' = {}
      <4>1. Searchable = {}
        BY <3>2, SearchableBySession DEF Untouched, Indexed, Rows
      <4> QED
        BY <2>2, <4>1, SameSearchable
    <3>5. Amid(c, fts', Searchable', events', preview')
      BY <2>1, <2>2, <2>3, <2>6, <3>2, <3>3, <3>4 DEF Amid, Untouched, Shown, Switches
    <3>6. call'[p] = c
      BY <1>1, <2>2, <2>3, Continued
    <3> QED
      BY <3>5, <3>6 DEF Settled
  <2> QED
    BY <1>1, <2>1, <2>2, <2>3, <2>5, <2>6, PeaceKept
<1>6. CASE DropIndex(p)
  <2> DEFINE c == GoTo(p, "create")
  <2>1. /\ c.at = "create" /\ c.tokenizer = call[p].tokenizer /\ c.previous = call[p].previous
        /\ c.met = call[p].met
    BY <1>1, GoToFields DEF Places, Opening
  <2>2. /\ Continue(p, c, {"schema"}) /\ UNCHANGED <<events, preview, contract>>
        /\ call[p].at = "drop" /\ fts' = NoTable
    BY <1>6 DEF DropIndex, At
  <2> HIDE DEF c
  <2>3. Busy(call[p]) /\ Busy(c) /\ call'[p] = c
    BY <1>1, <1>2, <2>1, <2>2, Continued DEF Busy, Opening
  <2>4. ASSUME Settled, ~Disturbed, Alone(p)
        PROVE  Settled'
    <3>1. call[p].previous = contract /\ contract # None
      BY <1>1, <1>3, <2>2, <2>3, <2>4 DEF KnowsIndex, Switches, Opening
    <3>2. Matched(fts, contract, Searchable, events, preview)
      BY <2>2, <2>4, <3>1, AloneSettled DEF Untouched, Amid
    <3>3. Amid(c, fts', Searchable', events', preview')
      BY <2>1, <2>2, <3>2 DEF Amid, Matched
    <3> QED
      BY <2>3, <3>3 DEF Settled
  <2> QED
    BY <1>1, <1>2, <2>1, <2>2, <2>3, <2>4, PeaceKept
<1>7. CASE CreateIndex(p)
  <2> DEFINE c == GoTo(p, "fill")
  <2>1. /\ c.at = "fill" /\ c.tokenizer = call[p].tokenizer /\ c.previous = call[p].previous
        /\ c.met = call[p].met
    BY <1>1, GoToFields DEF Places, Opening
  <2>2. /\ Continue(p, c, {"schema"}) /\ UNCHANGED <<events, preview, contract>>
        /\ call[p].at = "create"
    BY <1>7 DEF CreateIndex, At
  <2> HIDE DEF c
  <2>3. Busy(call[p]) /\ Busy(c) /\ call'[p] = c
    BY <1>1, <1>2, <2>1, <2>2, Continued DEF Busy, Opening
  <2>4. ASSUME Settled, ~Disturbed, Alone(p)
        PROVE  Settled'
    <3>1. call[p].previous = contract /\ contract # None /\ fts.tokenizer = None
      BY <1>1, <1>3, <2>2, <2>3, <2>4 DEF KnowsIndex, Switches, Opening
    <3>2. Shown(events, preview)
      BY <2>2, <2>4, <3>1, AloneSettled DEF Untouched, Matched, Amid
    <3>3. Amid(c, fts', Searchable', events', preview')
      BY <2>1, <2>2, <3>2 DEF Amid
    <3> QED
      BY <2>3, <3>3 DEF Settled
  <2> QED
    BY <1>1, <1>2, <2>1, <2>2, <2>3, <2>4, PeaceKept
<1>8. CASE FillIndex(p)
  <2> DEFINE c == GoTo(p, "record")
  <2>1. /\ c.at = "record" /\ c.tokenizer = call[p].tokenizer /\ c.previous = call[p].previous
        /\ c.met = call[p].met
    BY <1>1, GoToFields DEF Places, Opening
  <2>2. /\ Continue(p, c, {"schema"}) /\ UNCHANGED <<events, preview, contract>>
        /\ call[p].at = "fill" /\ fts' = [fts EXCEPT !.rows = @ \cup Searchable]
    BY <1>8 DEF FillIndex, At
  <2>3. fts'.tokenizer = fts.tokenizer /\ fts'.rows = fts.rows \cup Searchable
    BY <1>1, <2>2
  <2> HIDE DEF c
  <2>4. Busy(call[p]) /\ Busy(c) /\ call'[p] = c
    BY <1>1, <1>2, <2>1, <2>2, Continued DEF Busy, Opening
  <2>5. ASSUME Settled, ~Disturbed, Alone(p)
        PROVE  Settled'
    <3>1. /\ call[p].previous = contract /\ contract # None /\ Switches(call[p])
          /\ fts.tokenizer = call[p].tokenizer
      BY <1>1, <1>3, <2>2, <2>4, <2>5 DEF KnowsIndex, Switches, Opening
    <3>2. Shown(events, preview)
      BY <2>2, <2>5, <3>1, AloneSettled DEF Untouched, Matched, Amid
    <3>3. fts'.rows = Searchable'
      BY <1>1, <2>2, <2>3, SameSearchable DEF NoOrphans
    <3>4. Amid(c, fts', Searchable', events', preview')
      BY <2>1, <2>2, <2>3, <3>1, <3>2, <3>3 DEF Amid, Switches
    <3> QED
      BY <2>4, <3>4 DEF Settled
  <2> QED
    BY <1>1, <1>2, <2>1, <2>2, <2>4, <2>5, PeaceKept
<1>9. ASSUME Record(p), call[p].met = {}
      PROVE  Disturbed' \/ Settled'
  <2> DEFINE c == Return(p, "open")
             kind == IF contract = call[p].tokenizer THEN {} ELSE {"schema"}
  <2>1. /\ Continue(p, c, kind) /\ UNCHANGED <<events, preview, fts>>
        /\ call[p].at = "record" /\ contract' = call[p].tokenizer
    BY <1>9 DEF Record, At
  <2>2. /\ call[p].tokenizer \in Tokenizers /\ call[p].tokenizer # None
        /\ call[p].previous = contract /\ fts.tokenizer # None
        /\ (Switches(call[p]) => fts.tokenizer = call[p].tokenizer)
    BY <1>1, <1>9, <2>1, DerivedAssumption DEF KnowsIndex, Opening
  <2>3. /\ kind \in SUBSET Kinds
        /\ (kind = {} <=> contract = call[p].tokenizer)
    BY DEF Kinds
  <2> HIDE DEF c, kind
  <2>4. ASSUME Settled, kind = {}
        PROVE  Settled'
    <3>1. contract' = contract
      BY <2>1, <2>3, <2>4
    <3>2. ~Amid(call[p], fts, Searchable, events, preview)
      BY <2>1, <2>2, <2>3, <2>4 DEF Amid, Switches
    <3> QED
      BY <1>1, <2>1, <2>4, <3>1, <3>2, SameDataSettled
  <2>5. ASSUME Settled, kind # {}, Alone(p)
        PROVE  Settled'
    <3>1. ~Untouched(fts, contract, events)
      BY <2>2 DEF Untouched, NoTable
    <3>2. ~Matched(fts, contract, Searchable, events, preview)
      BY <2>2, <2>3, <2>5 DEF Matched, Switches
    <3>3. Amid(call[p], fts, Searchable, events, preview)
      BY <2>5, <3>1, <3>2, AloneSettled
    <3>4. /\ fts.tokenizer = call[p].tokenizer /\ fts.rows = Searchable
          /\ Shown(events, preview)
      BY <2>1, <3>3 DEF Amid
    <3>5. Matched(fts', contract', Searchable', events', preview')
      BY <2>1, <2>2, <3>4, SameSearchable DEF Matched
    <3> QED
      BY <3>5 DEF Settled
  <2> QED
    BY <1>1, <1>9, <2>1, <2>3, <2>4, <2>5, PeaceKept
<1> QED
  BY <1>4, <1>5, <1>6, <1>7, <1>8, <1>9

\* Reindexing keeps the peace.
LEMMA ReindexingPeaceful ==
  ASSUME KnownInv, KnownInv', Disturbed \/ Settled, NEW p \in Processes,
         \/ BeginReindex(p) \/ RebuildFts(p) \/ ProjectAggregates(p) \/ ListOverlong(p)
         \/ \E s \in Sessions : Truncate(p, s)
         \/ ListSessions(p)
  PROVE  Disturbed' \/ Settled'
<1> DEFINE r == call[p]
<1>1. /\ TypeOK /\ r \in CallValue /\ KnowsIndex(r, fts, contract, Searchable)
      /\ KnowsIndex(call'[p], fts', contract', Searchable')
      /\ KnowsPreviews(call'[p], events', preview')
  BY DEF KnownInv, IndexInv, TypeOK
<1>2. {} \in SUBSET Kinds /\ {"schema"} \in SUBSET Kinds /\ {"write"} \in SUBSET Kinds
  BY DEF Kinds
<1>3. ASSUME ~Disturbed, Busy(r)
      PROVE  r.met = {}
  BY <1>3 DEF Disturbed
<1>4. CASE BeginReindex(p)
  <2> DEFINE c == [r EXCEPT !.at = "rebuild", !.previous = contract, !.met = {}]
  <2>1. Continue(p, c, {}) /\ UNCHANGED <<events, preview, fts, contract>> /\ r.at = "open"
    BY <1>4 DEF BeginReindex, At
  <2> HIDE DEF c
  <2>2. ~Busy(r) /\ ~Amid(r, fts, Searchable, events, preview)
    BY <2>1 DEF Busy, Amid, Opening, Reindexing
  <2>3. Settled => Settled'
    BY <1>1, <2>1, <2>2, SameDataSettled
  <2> QED
    BY <1>1, <1>2, <2>1, <2>2, <2>3, PeaceKept
<1>5. CASE RebuildFts(p)
  <2> DEFINE c == GoTo(p, "project")
  <2>1. c.at = "project" /\ c.met = r.met
    BY <1>1, GoToFields DEF Places, Reindexing
  <2>2. /\ Continue(p, c, {"schema"}) /\ UNCHANGED <<events, preview, contract>>
        /\ r.at = "rebuild" /\ fts' = [tokenizer |-> r.previous, rows |-> Searchable]
    BY <1>5 DEF RebuildFts, At
  <2> HIDE DEF c
  <2>3. Busy(r) /\ Busy(c)
    BY <2>1, <2>2 DEF Busy, Reindexing
  <2>4. ASSUME Settled, ~Disturbed, Alone(p)
        PROVE  Settled'
    <3>1. r.previous = contract /\ contract # None
      BY <1>1, <1>3, <2>2, <2>3, <2>4 DEF KnowsIndex, Reindexing
    <3>2. Matched(fts, contract, Searchable, events, preview)
      BY <2>2, <2>4, <3>1, AloneSettled DEF Untouched, Amid
    <3>3. Matched(fts', contract', Searchable', events', preview')
      BY <2>2, <3>1, <3>2, SameSearchable DEF Matched
    <3> QED
      BY <3>3 DEF Settled
  <2> QED
    BY <1>1, <1>2, <2>1, <2>2, <2>3, <2>4, PeaceKept
<1>6. CASE ProjectAggregates(p)
  <2> DEFINE c == GoTo(p, "list")
  <2>1. c.at = "list" /\ c.met = r.met
    BY <1>1, GoToFields DEF Places, Reindexing
  <2>2. Continue(p, c, {"write"}) /\ r.at = "project"
    BY <1>6 DEF ProjectAggregates, At
  <2> HIDE DEF c
  <2>3. Busy(r) /\ Busy(c) /\ call'[p] = c
    BY <1>1, <1>2, <2>1, <2>2, Continued DEF Busy, Reindexing
  <2>4. Settled'
    BY <2>1, <2>3 DEF Settled, Amid
  <2> QED
    BY <2>4
<1>7. CASE ListOverlong(p)
  <2> DEFINE listed == [s \in Sessions |->
                 IF preview[s] # None /\ preview[s].of \in Long THEN preview[s].of ELSE None]
             c == [r EXCEPT !.at = "truncate", !.overlong = listed]
  <2>1. Continue(p, c, {})
    BY <1>7 DEF ListOverlong
  <2> HIDE DEF listed
  <2>2. c.at = "truncate"
    BY <1>1 DEF CallValue
  <2> HIDE DEF c
  <2>3. call'[p] = c
    BY <1>1, <1>2, <2>1, Continued
  <2> QED
    BY <2>2, <2>3 DEF Settled, Amid
<1>8. ASSUME NEW s \in Sessions, Truncate(p, s)
      PROVE  Disturbed' \/ Settled'
  <2> DEFINE c == [r EXCEPT !.overlong[s] = None]
  <2>1. Continue(p, c, {"write"}) /\ r.at = "truncate"
    BY <1>8 DEF Truncate, At
  <2>2. c.at = r.at
    BY <1>1 DEF CallValue
  <2> HIDE DEF c
  <2>3. call'[p] = c
    BY <1>1, <1>2, <2>1, Continued
  <2> QED
    BY <2>1, <2>2, <2>3 DEF Settled, Amid
<1>9. CASE ListSessions(p)
  <2> DEFINE stored == {s \in Sessions : events[s] # None}
             c == [r EXCEPT !.at = "spans", !.ids = stored]
  <2>1. Continue(p, c, {}) /\ r.at = "truncate"
    BY <1>9 DEF ListSessions, At
  <2> HIDE DEF stored
  <2>2. c.at = "spans"
    BY <1>1 DEF CallValue
  <2>3. c.met = r.met
    BY <1>1 DEF CallValue
  <2> HIDE DEF c
  <2>4. call'[p] = c /\ Busy(r) /\ Busy(c)
    BY <1>1, <1>2, <2>1, <2>2, Continued DEF Busy, Reindexing
  <2>5. ASSUME ~Disturbed
        PROVE  Matched(fts', contract', Searchable', events', preview')
    <3>1. c.met = {}
      BY <1>3, <2>3, <2>4, <2>5
    <3> QED
      BY <1>1, <2>2, <2>4, <3>1 DEF KnowsIndex, KnowsPreviews, Matched, Reindexing
  <2>6. ~Disturbed => Settled'
    BY <2>5 DEF Settled
  <2> QED
    BY <1>1, <1>2, <2>1, <2>3, <2>4, <2>6, PeaceKept
<1> QED
  BY <1>4, <1>5, <1>6, <1>7, <1>8, <1>9

\* Writing sessions and closing connections keep the peace.
LEMMA OtherwisePeaceful ==
  ASSUME KnownInv, Disturbed \/ Settled, NEW p \in Processes,
         Close(p) \/ \E s \in Sessions, st \in Streams : Write(p, s, st)
  PROVE  Disturbed' \/ Settled'
<1>1. /\ TypeOK /\ IndexInv /\ KnowsIndex(call[p], fts, contract, Searchable)
      /\ events \in [Sessions -> Streams \cup {None}]
      /\ preview \in [Sessions -> PreviewValue \cup {None}]
      /\ fts \in [tokenizer : Tokenizers \cup {None}, rows : SUBSET EventRows]
  BY DEF KnownInv, IndexInv, TypeOK
<1>2. {} \in SUBSET Kinds /\ {"write"} \in SUBSET Kinds
  BY DEF Kinds
<1>3. call[p].at = "open"
  BY DEF Close, Write, At
<1>4. ~Busy(call[p]) /\ ~Amid(call[p], fts, Searchable, events, preview)
  BY <1>3 DEF Busy, Amid, Opening, Reindexing
<1>5. CASE Close(p)
  <2>1. Continue(p, Closed, {}) /\ UNCHANGED <<events, preview, fts, contract>>
    BY <1>5 DEF Close
  <2>2. Settled => Settled'
    BY <1>1, <1>4, <2>1, SameDataSettled
  <2> QED
    BY <1>1, <1>2, <1>4, <2>1, <2>2, PeaceKept
<1>6. ASSUME NEW s \in Sessions, NEW st \in Streams, Write(p, s, st)
      PROVE  Disturbed' \/ Settled'
  <2>1. /\ Continue(p, call[p], {"write"}) /\ contract' = contract
        /\ events' = [events EXCEPT ![s] = st] /\ preview' = [preview EXCEPT ![s] = Preview(st)]
        /\ fts' = [fts EXCEPT !.rows = Reindexed(s, events[s], st)]
    BY <1>6 DEF Write
  <2>2. fts'.tokenizer = fts.tokenizer
    BY <1>1, <2>1
  <2>3. ASSUME Settled, Alone(p)
        PROVE  Settled'
    <3>1. contract # None
      BY <1>1, <1>3 DEF KnowsIndex
    <3>2. Matched(fts, contract, Searchable, events, preview)
      BY <1>4, <2>3, <3>1, AloneSettled DEF Untouched
    <3>3. fts'.rows = Searchable'
      BY <1>1, <1>6, <3>2, WriteKeepsExact DEF Matched
    <3>4. Shown(events', preview')
      BY <1>1, <2>1, <3>2 DEF Matched, Shown
    <3>5. Matched(fts', contract', Searchable', events', preview')
      BY <2>1, <2>2, <3>2, <3>3, <3>4 DEF Matched
    <3> QED
      BY <3>5 DEF Settled
  <2> QED
    BY <1>1, <1>2, <1>4, <2>1, <2>3, PeaceKept
<1> QED
  BY <1>5, <1>6

LEMMA PeaceStep == KnownInv /\ KnownInv' /\ PeaceInv /\ [Next]_vars => PeaceInv'
<1> SUFFICES ASSUME KnownInv, KnownInv', PeaceInv, [Next]_vars, ~torn'
             PROVE  Disturbed' \/ Settled'
  BY DEF PeaceInv
<1>1. ASSUME NEW p \in Processes, RebuildSpans(p)
      PROVE  Settled'
  <2>1. ~(call[p].met # {} \/ \E q \in Processes \ {p} : InCall(q))
    BY <1>1, Zenon DEF RebuildSpans
  <2>2. call[p].met = {}
    BY <2>1
  <2>3. Matched(fts', contract', Searchable', events', preview')
    BY <1>1, <2>2, SpansRepair DEF Matched
  <2> QED
    BY <2>3 DEF Settled
<1>2. ASSUME NEW p \in Processes, Fail(p) \/ Crash(p)
      PROVE  FALSE
  BY <1>2, Zenon DEF Fail, Crash
<1>3. ASSUME NEW p \in Processes, Record(p)
      PROVE  Disturbed' \/ Settled'
  <2>1. ~torn /\ ~(call[p].met # {})
    BY <1>3, Zenon DEF Record
  <2>2. Disturbed \/ Settled
    BY <2>1, Zenon DEF PeaceInv
  <2> QED
    BY <1>3, <2>1, <2>2, OpeningPeaceful
<1>4. ASSUME NEW p \in Processes, UNCHANGED torn,
             \/ \E t \in Tokenizers : OpenRead(p, t)
             \/ CreateSchema(p) \/ DropIndex(p) \/ CreateIndex(p) \/ FillIndex(p)
             \/ BeginReindex(p) \/ RebuildFts(p) \/ ProjectAggregates(p) \/ ListOverlong(p)
             \/ \E s \in Sessions : Truncate(p, s)
             \/ ListSessions(p)
             \/ Close(p) \/ \E s \in Sessions, st \in Streams : Write(p, s, st)
      PROVE  Disturbed' \/ Settled'
  <2>1. Disturbed \/ Settled
    BY <1>4, Zenon DEF PeaceInv
  <2> QED
    BY <1>4, <2>1, OpeningPeaceful, ReindexingPeaceful, OtherwisePeaceful
<1>5. ASSUME NEW p \in Processes, Step(p), ~Record(p), ~RebuildSpans(p), ~Fail(p), ~Crash(p)
      PROVE  UNCHANGED torn
  BY <1>5, Zenon DEF Step, OpenRead, CreateSchema, DropIndex, CreateIndex, FillIndex, BeginReindex, RebuildFts,
         ProjectAggregates, ListOverlong, Truncate, ListSessions, Close, Write
<1>6. ASSUME NEW p \in Processes, Step(p)
      PROVE  Disturbed' \/ Settled'
  BY <1>1, <1>2, <1>3, <1>4, <1>5, <1>6 DEF Step
<1>7. CASE UNCHANGED vars
  <2>1. Disturbed \/ Settled
    BY <1>7, Zenon DEF PeaceInv, vars
  <2>2. UNCHANGED <<events, preview, fts, contract, call>>
    BY <1>7 DEF vars
  <2>3. Searchable' = Searchable
    BY <2>2, SameSearchable
  <2> QED
    BY <2>1, <2>2, <2>3 DEF Disturbed, Settled
<1> QED
  BY <1>6, <1>7 DEF Next

\* Unless a call was cut short or ran beside another's changes, and no reindex
\* has repaired that, index and previews are exact between calls, whatever was
\* opened, switched, written and reindexed (ExactInPeace).
THEOREM ExactInPeaceAlways == Spec => []ExactInPeace
<1>1. Init => PeaceInv
  BY DEF Init, PeaceInv, Settled, Untouched
<1>2. PeaceInv => ExactInPeace
  <2> SUFFICES ASSUME PeaceInv, ~torn, fts # NoTable, \A p \in Processes : ~InCall(p)
               PROVE  Exact
    BY DEF ExactInPeace
  <2>1. Disturbed \/ Settled
    BY Zenon DEF PeaceInv
  <2>2. \A p \in Processes : ~Busy(call[p])
    BY DEF InCall, Busy
  <2>3. ~Disturbed /\ \A p \in Processes : ~Amid(call[p], fts, Searchable, events, preview)
    BY <2>2 DEF Disturbed, Busy, Amid, Opening, Reindexing
  <2>4. Matched(fts, contract, Searchable, events, preview)
    BY <2>1, <2>3 DEF Settled, Untouched
  <2> QED
    BY <2>4 DEF Matched, Exact, Shown
<1> QED
  BY <1>1, <1>2, KnownInit, KnownStep, PeaceStep, PTL DEF Spec
=============================================================================
