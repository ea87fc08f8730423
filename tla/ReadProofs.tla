------------------------------ MODULE ReadProofs ------------------------------
(***************************************************************************)
(* Theorems about what clients read: Listing, whose pages a client walks,  *)
(* for every finite set of sessions, every page size and every filter;     *)
(* ReadPool, which serves the reads, for any number of readers and         *)
(* writers, every size of the pool and every number of faults; and Search, *)
(* for every archive, every lineage and every limit.                       *)
(*                                                                         *)
(* WalkExact says nothing of what is still owed in the middle of a walk,   *)
(* nor where the sessions lie that were seen.  The invariant does: all     *)
(* that is owed is listed after the cursor, and nothing that was seen is.  *)
(* That a page keeps this rests on the order of the listing being total:   *)
(* the rows of a page are the first of what remains, so its last row       *)
(* divides what was delivered from what was not.                           *)
(*                                                                         *)
(* PoolAccounted is inductive as it stands, but only as a whole: that a    *)
(* connection may be opened while the idle list is empty is safe because   *)
(* the readers with a connection are among those with a permit.            *)
(*                                                                         *)
(* The two properties of Search speak of the states after the collapse     *)
(* and after the last statement.  The work is in what one step computes:   *)
(* the loops are unrolled by induction over their rounds, a slot being     *)
(* what every round leaves; the path that is walked is all that is above   *)
(* a session, since it ends at a session that leads nowhere or was seen    *)
(* before; and off a circle two lineages that meet have one root.          *)
(***************************************************************************)
EXTENDS Listing, ReadPool, Search, FiniteSetTheorems, WellFoundedInduction, TLAPS

(***************************************************************************)
(* The walk of a client over the pages                                     *)
(***************************************************************************)

Archived == {s \in Sessions : rows[s] # None}

\* What is owed by a walk lies after its cursor, what it has seen does not.
WalkInv(w) ==
  IF w.request = None THEN w.owed = {}
  ELSE /\ w.owed \subseteq Remaining(w.request, w.cursor)
       /\ \A s \in w.seen : rows[s] # None /\ ~After(w.cursor, s)

ListingInv == TypeOK /\ \A c \in Clients : WalkInv(walk[c])

Walk == [request : Requests \cup {None}, cursor : Cursor \cup {None},
         owed : SUBSET Sessions, seen : SUBSET Sessions]

(***************************************************************************)
(* Finite orders                                                           *)
(***************************************************************************)
\* A transitive and irreflexive relation has a minimal element in a finite set.
LEMMA MinimalExists ==
  ASSUME NEW S, IsFiniteSet(S), S # {}, NEW R,
         \A x \in S : <<x, x>> \notin R,
         \A x, y, z \in S : <<x, y>> \in R /\ <<y, z>> \in R => <<x, z>> \in R
  PROVE  \E x \in S : \A y \in S : <<y, x>> \notin R
<1> DEFINE Below(x) == {y \in S : <<y, x>> \in R}
           T == {Below(x) : x \in S}
<1>1. IsWellFoundedOn(StrictSubsetOrdering(S), FiniteSubsetsOf(S))
  BY FS_StrictSubsetOrderingWellFounded
<1>2. FiniteSubsetsOf(S) = SUBSET S
  BY FS_FiniteSubsetsOfFinite
<1>3. T \subseteq FiniteSubsetsOf(S) /\ T # {}
  <2>1. \A x \in S : Below(x) \in SUBSET S
    OBVIOUS
  <2>2. T \subseteq SUBSET S /\ T # {}
    <3> HIDE DEF Below
    <3> QED
      BY <2>1
  <2> HIDE DEF T
  <2> QED
    BY <1>2, <2>2
<1>4. \E X \in T : \A Y \in T : ~(<<Y, X>> \in StrictSubsetOrdering(S))
  <2> HIDE DEF T
  <2> QED
    BY <1>1, <1>3, WFMin
<1>5. PICK x \in S : \A Y \in T : ~(<<Y, Below(x)>> \in StrictSubsetOrdering(S))
  BY <1>4
<1>6. ASSUME NEW y \in S, <<y, x>> \in R PROVE FALSE
  <2>1. Below(y) \subseteq Below(x)
    BY <1>6
  <2>2. y \in Below(x) /\ y \notin Below(y)
    BY <1>6
  <2>3. <<Below(y), Below(x)>> \in (SUBSET S) \X (SUBSET S)
    OBVIOUS
  <2>4. <<Below(y), Below(x)>> \in StrictSubsetOrdering(S)
    BY <2>1, <2>2, <2>3 DEF StrictSubsetOrdering
  <2>5. Below(y) \in T
    OBVIOUS
  <2> QED
    BY <1>5, <2>4, <2>5
<1> QED
  BY <1>6

\* The order of the listing is a strict total order of the archived sessions.
LEMMA BeforeOrders ==
  ASSUME TypeOK
  PROVE  /\ \A s \in Archived : ~Before(s, s)
         /\ \A s, t, u \in Archived : Before(s, t) /\ Before(t, u) => Before(s, u)
         /\ \A s, t \in Archived : s = t \/ Before(s, t) \/ Before(t, s)
<1>1. \A s \in Archived : rows[s].time \in Nat /\ s \in Nat
  BY ListingAssumption DEF TypeOK, Archived, Row
<1> QED
  BY <1>1 DEF Before

LEMMA ArchivedFinite ==
  ASSUME NEW S, S \subseteq Archived
  PROVE  IsFiniteSet(S)
<1>1. S \in SUBSET Sessions
  BY DEF Archived
<1> QED
  BY <1>1, ListingAssumption, FS_Subset

\* The CHOOSE that names the last row of a page has something to choose.
LEMMA LastOfPage ==
  ASSUME TypeOK, NEW page, page \subseteq Archived, page # {}
  PROVE  /\ LastOf(page) \in page
         /\ \A t \in page : t = LastOf(page) \/ Before(t, LastOf(page))
<1> DEFINE R == {q \in page \X page : Before(q[2], q[1])}
<1>1. IsFiniteSet(page)
  BY ArchivedFinite
<1>2. \A x, y \in page : <<x, y>> \in R <=> Before(y, x)
  OBVIOUS
<1> HIDE DEF R
<1>3. \A x \in page : <<x, x>> \notin R
  BY <1>2, BeforeOrders
<1>4. \A x, y, z \in page : <<x, y>> \in R /\ <<y, z>> \in R => <<x, z>> \in R
  BY <1>2, BeforeOrders
<1>5. PICK x \in page : \A y \in page : <<y, x>> \notin R
  BY <1>1, <1>3, <1>4, MinimalExists
<1>6. \A t \in page : t = x \/ Before(t, x)
  BY <1>2, <1>5, BeforeOrders
<1> QED
  BY <1>6, Zenon DEF LastOf

\* Something is first.
LEMMA FirstExists ==
  ASSUME TypeOK, NEW S, S \subseteq Archived, S # {}
  PROVE  \E x \in S : \A y \in S : ~Before(y, x)
<1> DEFINE R == {q \in S \X S : Before(q[1], q[2])}
<1>1. IsFiniteSet(S)
  BY ArchivedFinite
<1>2. \A x, y \in S : <<x, y>> \in R <=> Before(x, y)
  OBVIOUS
<1> HIDE DEF R
<1>3. \A x \in S : <<x, x>> \notin R
  BY <1>2, BeforeOrders
<1>4. \A x, y, z \in S : <<x, y>> \in R /\ <<y, z>> \in R => <<x, z>> \in R
  BY <1>2, BeforeOrders
<1>5. PICK x \in S : \A y \in S : <<y, x>> \notin R
  BY <1>1, <1>3, <1>4, MinimalExists
<1> QED
  BY <1>2, <1>5

(***************************************************************************)
(* The page                                                                *)
(***************************************************************************)
LEMMA RemainingArchived ==
  ASSUME NEW request, NEW cursor
  PROVE  Remaining(request, cursor) \subseteq Archived
  BY DEF Remaining, Listed, Matches, Archived

\* A page is what comes first of what remains: all of it if nothing more is
\* there, and otherwise some of it, before all that it leaves out.
LEMMA PageIsFirst ==
  ASSUME TypeOK, NEW request \in Requests, NEW cursor
  PROVE  /\ Page(request, cursor) \subseteq Remaining(request, cursor)
         /\ ~HasMore(request, cursor) => Page(request, cursor) = Remaining(request, cursor)
         /\ HasMore(request, cursor) => Page(request, cursor) # {}
         /\ \A s \in Page(request, cursor), t \in Remaining(request, cursor) \ Page(request, cursor) :
              Before(s, t)
<1> DEFINE from == Remaining(request, cursor)
           ahead(s) == {t \in from : Before(t, s)}
<1>1. request.limit \in Nat \ {0}
  BY ListingAssumption
<1>2. from \subseteq Archived /\ IsFiniteSet(from)
  BY RemainingArchived, ArchivedFinite
<1>3. Page(request, cursor) = {s \in from : Cardinality(ahead(s)) < request.limit}
  BY DEF Page
<1> HIDE DEF from
<1>4. \A s \in from : ahead(s) \subseteq from \ {s}
  BY <1>2, BeforeOrders
<1>5. \A s : IsFiniteSet(ahead(s)) /\ Cardinality(ahead(s)) \in Nat
  <2> TAKE s
  <2>1. ahead(s) \in SUBSET from
    OBVIOUS
  <2>2. IsFiniteSet(ahead(s))
    BY <1>2, <2>1, FS_Subset
  <2> QED
    BY <2>2, FS_CardinalityType
<1>6. Cardinality(from) \in Nat
  BY <1>2, FS_CardinalityType
<1>7. ASSUME ~HasMore(request, cursor), NEW s \in from
      PROVE  Cardinality(ahead(s)) < request.limit
  <2>1. IsFiniteSet(from \ {s}) /\ Cardinality(from \ {s}) = Cardinality(from) - 1
    BY <1>2, FS_RemoveElement
  <2>2. ahead(s) \in SUBSET (from \ {s})
    BY <1>4
  <2>3. Cardinality(ahead(s)) <= Cardinality(from \ {s})
    BY <2>1, <2>2, FS_Subset
  <2>4. Cardinality(from) <= request.limit
    BY <1>1, <1>6, <1>7 DEF HasMore, from
  <2> QED
    BY <1>1, <1>5, <1>6, <2>1, <2>3, <2>4
<1>8. ASSUME HasMore(request, cursor) PROVE \E s \in from : Cardinality(ahead(s)) < request.limit
  <2>1. from # {}
    <3>1. Cardinality(from) > 0
      BY <1>1, <1>6, <1>8 DEF HasMore, from
    <3> QED
      BY <3>1, FS_EmptySet
  <2>2. PICK s \in from : \A t \in from : ~Before(t, s)
    BY <1>2, <2>1, FirstExists
  <2>3. ahead(s) = {}
    BY <2>2
  <2>4. Cardinality(ahead(s)) = 0
    BY <2>3, FS_EmptySet
  <2> QED
    BY <1>1, <2>4
<1>9. ASSUME NEW s \in from, NEW t \in from, Cardinality(ahead(s)) < request.limit,
             ~(Cardinality(ahead(t)) < request.limit), ~Before(s, t)
      PROVE  FALSE
  <2>1. s = t \/ Before(t, s)
    BY <1>2, <1>9, BeforeOrders
  <2>2. \A u \in ahead(t) : u \in ahead(s)
    BY <1>2, <2>1, BeforeOrders
  <2>3. ahead(t) \in SUBSET ahead(s)
    BY <2>2
  <2>4. Cardinality(ahead(t)) <= Cardinality(ahead(s))
    BY <1>5, <2>3, FS_Subset
  <2> QED
    BY <1>1, <1>5, <1>9, <2>4
<1> HIDE DEF ahead
<1> QED
  BY <1>3, <1>7, <1>8, <1>9 DEF from

(***************************************************************************)
(* The walk                                                                *)
(***************************************************************************)
\* What a client has after reading the page that follows what it has read.
LEMMA DeliveredKeeps ==
  ASSUME TypeOK, NEW w \in Walk, w.request \in Requests,
         w.owed \subseteq Remaining(w.request, w.cursor),
         \A s \in w.seen : rows[s] # None /\ ~After(w.cursor, s),
         NEW page, page = Page(w.request, w.cursor),
         NEW more, more = HasMore(w.request, w.cursor)
  PROVE  /\ Delivered(w, page, more) \in Walk
         /\ WalkInv(Delivered(w, page, more))
<1> DEFINE d == Delivered(w, page, more)
           from == Remaining(w.request, w.cursor)
           last == LastOf(page)
<1>1. from \subseteq Archived /\ page \subseteq from
  BY RemainingArchived, PageIsFirst
<1>2. page \subseteq Sessions /\ w.owed \subseteq Sessions /\ w.seen \subseteq Sessions
  BY <1>1 DEF Archived, Walk
<1>3. CASE ~more
  <2>1. page = from
    BY <1>3, PageIsFirst
  <2>2. d = [request |-> None, cursor |-> None, owed |-> w.owed \ page, seen |-> w.seen \cup page]
    BY <1>3 DEF Delivered
  <2>3. w.owed \ page = {} /\ w.seen \cup page \in SUBSET Sessions
    BY <1>2, <2>1
  <2> HIDE DEF d
  <2> QED
    BY <2>2, <2>3 DEF Walk, WalkInv, d
<1>4. CASE more
  <2>1. page # {} /\ page \subseteq Archived
    BY <1>1, <1>4, PageIsFirst
  <2>2. last \in page /\ \A t \in page : t = last \/ Before(t, last)
    BY <2>1, LastOfPage
  <2>3. d = [request |-> w.request, cursor |-> NextCursor(page),
             owed |-> w.owed \ page, seen |-> w.seen \cup page]
    BY <1>4 DEF Delivered
  <2> HIDE DEF d, from, last
  <2>4. last \in Sessions /\ rows[last] \in Row
    BY <2>1, <2>2 DEF Archived, TypeOK
  <2>5. NextCursor(page) = [time |-> rows[last].time, id |-> last]
    BY DEF NextCursor, last
  <2>6. NextCursor(page) \in Cursor /\ NextCursor(page) # None
    BY <2>4, <2>5, ListingAssumption DEF Cursor, Row
  <2>7. w.owed \ page \in SUBSET Sessions /\ w.seen \cup page \in SUBSET Sessions
    BY <1>2
  <2>8. d \in Walk
    BY <2>3, <2>6, <2>7 DEF Walk
  <2>9. \A s \in Archived : After(NextCursor(page), s) <=> Before(last, s)
    <3>1. \A s \in Archived : rows[s].time \in Nat /\ s \in Nat
      BY ListingAssumption DEF TypeOK, Archived, Row
    <3>2. last \in Archived
      BY <2>1, <2>2
    <3>3. NextCursor(page).time = rows[last].time /\ NextCursor(page).id = last
      BY <2>5
    <3> QED
      BY <2>6, <3>1, <3>2, <3>3 DEF After, Before
  <2>10. \A s \in w.owed \ page : s \in Remaining(w.request, NextCursor(page))
    <3>1. \A s \in w.owed \ page : s \in from /\ s \in Listed(w.request)
      BY DEF from, Remaining
    <3>2. \A s \in from \ page : Before(last, s)
      BY <2>2, PageIsFirst DEF from
    <3> QED
      BY <1>1, <2>9, <3>1, <3>2 DEF Remaining
  <2>11. \A s \in page : rows[s] # None /\ ~After(NextCursor(page), s)
    <3> TAKE s \in page
    <3>1. s \in Archived /\ last \in Archived
      BY <2>1, <2>2
    <3>2. ~Before(last, s)
      BY <2>2, <3>1, BeforeOrders
    <3> QED
      BY <2>9, <3>1, <3>2 DEF Archived
  <2>12. \A s \in w.seen : rows[s] # None /\ ~After(NextCursor(page), s)
    <3> SUFFICES ASSUME NEW s \in w.seen, After(NextCursor(page), s) PROVE FALSE
      OBVIOUS
    <3>1. s \in Archived /\ ~After(w.cursor, s) /\ last \in Archived
      BY <1>2, <2>1, <2>2 DEF Archived
    <3>2. Before(last, s)
      BY <2>9, <3>1
    <3>3. After(w.cursor, last)
      BY <1>1, <2>2 DEF from, Remaining
    <3>4. w.cursor # None
      BY <3>1 DEF After
    <3>5. w.cursor \in Cursor
      BY <3>4 DEF Walk
    <3>6. w.cursor.time \in Nat /\ w.cursor.id \in Nat
      BY <3>5, ListingAssumption DEF Cursor
    <3>7. rows[s].time \in Nat /\ s \in Nat /\ rows[last].time \in Nat /\ last \in Nat
      BY <3>1, ListingAssumption DEF TypeOK, Archived, Row
    <3> QED
      BY <3>1, <3>2, <3>3, <3>4, <3>6, <3>7 DEF After, Before
  <2>13. d.request = w.request /\ d.cursor = NextCursor(page)
         /\ d.owed = w.owed \ page /\ d.seen = w.seen \cup page
    BY <2>3
  <2>14. w.request # None
    BY ListingAssumption
  <2>15. WalkInv(d)
    BY <2>10, <2>11, <2>12, <2>13, <2>14 DEF WalkInv
  <2> QED
    BY <2>8, <2>15 DEF d
<1> QED
  BY <1>3, <1>4

LEMMA ListingTyped == TypeOK <=> /\ rows \in [Sessions -> Row \cup {None}]
                                 /\ commits \in 0 .. MaxCommits
                                 /\ walk \in [Clients -> Walk]
  BY DEF TypeOK, Walk

\* A client that reads a page keeps the invariant of its walk, and the others'.
LEMMA ReadKeeps ==
  ASSUME ListingInv, NEW c \in Clients, NEW d \in Walk, WalkInv(d),
         walk' = [walk EXCEPT ![c] = d], UNCHANGED <<rows, commits>>
  PROVE  ListingInv'
<1>1. walk \in [Clients -> Walk]
  BY ListingTyped DEF ListingInv
<1>2. walk' \in [Clients -> Walk] /\ walk'[c] = d /\ \A o \in Clients \ {c} : walk'[o] = walk[o]
  BY <1>1
<1>3. TypeOK'
  BY <1>2 DEF ListingInv, TypeOK, Walk
<1>4. ASSUME NEW o \in Clients
      PROVE  IF walk'[o].request = None THEN walk'[o].owed = {}
             ELSE /\ walk'[o].owed \subseteq Remaining(walk'[o].request, walk'[o].cursor)
                  /\ \A s \in walk'[o].seen : rows[s] # None /\ ~After(walk'[o].cursor, s)
  <2>1. CASE o = c
    BY <1>2, <2>1 DEF WalkInv
  <2>2. CASE o # c
    BY <1>2, <2>2 DEF ListingInv, WalkInv
  <2> QED
    BY <2>1, <2>2
<1>5. \A o \in Clients : WalkInv(walk[o])'
  BY <1>4 DEF WalkInv, Remaining, Listed, Matches, Hidden, After
<1> QED
  BY <1>3, <1>5 DEF ListingInv

LEMMA ListFirstKeeps ==
  ASSUME ListingInv, NEW c \in Clients, NEW request \in Requests, ListFirst(c, request)
  PROVE  ListingInv'
<1> DEFINE w == [NoWalk EXCEPT !.request = request, !.owed = Listed(request)]
<1>1. NoWalk \in Walk /\ NoWalk.cursor = None /\ NoWalk.seen = {}
  BY DEF NoWalk, Walk
<1>2. Listed(request) \in SUBSET Sessions
  BY DEF Listed
<1>3. w \in Walk /\ w.request = request /\ w.cursor = None /\ w.owed = Listed(request) /\ w.seen = {}
  BY <1>1, <1>2 DEF Walk
<1>4. walk' = [walk EXCEPT ![c] = Delivered(w, Page(request, None), HasMore(request, None))]
      /\ UNCHANGED <<rows, commits>>
  BY DEF ListFirst
<1> HIDE DEF w
<1>5. w.owed \subseteq Remaining(w.request, w.cursor)
  BY <1>3 DEF Remaining, After
<1>6. TypeOK
  BY DEF ListingInv
<1> DEFINE d == Delivered(w, Page(w.request, w.cursor), HasMore(w.request, w.cursor))
<1>7. d \in Walk /\ WalkInv(d)
  BY <1>3, <1>5, <1>6, DeliveredKeeps
<1>8. walk' = [walk EXCEPT ![c] = d]
  BY <1>3, <1>4
<1> HIDE DEF d
<1> QED
  BY <1>4, <1>7, <1>8, ReadKeeps

LEMMA ListNextKeeps ==
  ASSUME ListingInv, NEW c \in Clients, ListNext(c)
  PROVE  ListingInv'
<1> DEFINE w == walk[c]
           d == Delivered(w, Page(w.request, w.cursor), HasMore(w.request, w.cursor))
<1>1. /\ w.request # None
      /\ walk' = [walk EXCEPT ![c] = d]
      /\ UNCHANGED <<rows, commits>>
  BY DEF ListNext
<1>2. TypeOK /\ w \in Walk
  BY ListingTyped DEF ListingInv
<1>3. w.request \in Requests
  BY <1>1, <1>2 DEF Walk
<1>4. w.owed \subseteq Remaining(w.request, w.cursor)
      /\ \A s \in w.seen : rows[s] # None /\ ~After(w.cursor, s)
  BY <1>1 DEF ListingInv, WalkInv
<1> HIDE DEF w
<1>5. d \in Walk /\ WalkInv(d)
  BY <1>2, <1>3, <1>4, DeliveredKeeps
<1> HIDE DEF d
<1> QED
  BY <1>1, <1>5, ReadKeeps

\* What a commit leaves of a walk.
LEMMA TouchedFields ==
  ASSUME NEW w \in Walk, NEW s \in Sessions
  PROVE  /\ Touched(w, s) \in Walk
         /\ Touched(w, s).request = w.request
         /\ Touched(w, s).cursor = w.cursor
         /\ Touched(w, s).owed = {t \in w.owed : t # s /\ ~(w.request.collapse /\ rows[t].parent = s)}
         /\ Touched(w, s).seen = w.seen \ {s}
<1> DEFINE owed == {t \in w.owed : t # s /\ ~(w.request.collapse /\ rows[t].parent = s)}
           seen == w.seen \ {s}
<1>1. Touched(w, s) = [w EXCEPT !.owed = owed, !.seen = seen]
  BY DEF Touched
<1>2. owed \in SUBSET Sessions /\ seen \in SUBSET Sessions
  BY DEF Walk
<1>3. w \in [request : Requests \cup {None}, cursor : Cursor \cup {None},
             owed : SUBSET Sessions, seen : SUBSET Sessions]
  BY DEF Walk
<1> HIDE DEF owed, seen
<1>4. /\ Touched(w, s) \in Walk /\ Touched(w, s).request = w.request
      /\ Touched(w, s).cursor = w.cursor /\ Touched(w, s).owed = owed /\ Touched(w, s).seen = seen
  BY <1>1, <1>2, <1>3 DEF Walk
<1> QED
  BY <1>4 DEF owed, seen

\* Another session's commit leaves a session listed, unless that is its parent
\* in a collapsed listing.
LEMMA ListedKept ==
  ASSUME TypeOK, NEW s \in Sessions, NEW row \in Row, rows' = [rows EXCEPT ![s] = row],
         NEW request, NEW t \in Sessions \ {s},
         ~(request.collapse /\ rows[t].parent = s), t \in Listed(request)
  PROVE  /\ Matches(request, rows'[t])
         /\ ~(/\ request.collapse
              /\ rows'[t].parent \in Sessions
              /\ Matches(request, rows'[rows'[t].parent]))
<1>1. rows'[t] = rows[t] /\ \A u \in Sessions \ {s} : rows'[u] = rows[u]
  BY DEF TypeOK
<1>2. Matches(request, rows[t]) /\ ~Hidden(request, rows[t])
  BY DEF Listed
<1>3. CASE ~request.collapse
  BY <1>1, <1>2, <1>3
<1>4. CASE request.collapse
  <2>1. rows[t].parent \in Sessions => rows'[rows[t].parent] = rows[rows[t].parent]
    BY <1>1, <1>4
  <2> QED
    BY <1>1, <1>2, <1>4, <2>1 DEF Hidden
<1> QED
  BY <1>3, <1>4

LEMMA CommitKeeps ==
  ASSUME ListingInv, NEW s \in Sessions, NEW row \in Row, Commit(s, row)
  PROVE  ListingInv'
<1>1. TypeOK /\ walk \in [Clients -> Walk]
  BY ListingTyped DEF ListingInv
<1>2. rows' = [rows EXCEPT ![s] = row] /\ rows' \in [Sessions -> Row \cup {None}]
  BY <1>1 DEF Commit, TypeOK
<1>3. \A c \in Clients : walk'[c] = IF walk[c].request = None THEN walk[c] ELSE Touched(walk[c], s)
  BY DEF Commit
<1>4. walk' \in [Clients -> Walk]
  <2>1. \A c \in Clients : walk'[c] \in Walk
    BY <1>1, <1>3, TouchedFields
  <2>2. walk' = [c \in Clients |->
                   IF walk[c].request = None THEN walk[c] ELSE Touched(walk[c], s)]
    BY DEF Commit
  <2> QED
    BY <2>1, <2>2
<1>5. TypeOK'
  <2>1. commits' \in 0 .. MaxCommits
    BY <1>1, ListingAssumption DEF Commit, TypeOK
  <2> QED
    BY <1>2, <1>4, <2>1 DEF TypeOK, Walk
<1>6. \A t \in Sessions \ {s} : rows'[t] = rows[t]
  BY <1>1, <1>2 DEF TypeOK
<1>7. ASSUME NEW c \in Clients, walk[c].request # None
      PROVE  /\ walk'[c].request = walk[c].request /\ walk'[c].cursor = walk[c].cursor
             /\ walk'[c].owed = {t \in walk[c].owed :
                                   t # s /\ ~(walk[c].request.collapse /\ rows[t].parent = s)}
             /\ walk'[c].seen = walk[c].seen \ {s}
  BY <1>1, <1>3, <1>7, TouchedFields
<1>8. ASSUME NEW c \in Clients PROVE WalkInv(walk[c])'
  <2>1. CASE walk[c].request = None
    BY <1>3, <2>1 DEF ListingInv, WalkInv
  <2>2. CASE walk[c].request # None
    <3>1. walk[c] \in Walk /\ walk'[c].request # None
      BY <1>1, <1>7, <2>2
    <3>2. walk[c].owed \subseteq Remaining(walk[c].request, walk[c].cursor)
          /\ \A t \in walk[c].seen : rows[t] # None /\ ~After(walk[c].cursor, t)
      BY <2>2 DEF ListingInv, WalkInv
    <3>3. walk[c].owed \subseteq Sessions /\ walk[c].seen \subseteq Sessions
      BY <3>1 DEF Walk
    <3>4. \A t \in walk'[c].seen : (rows[t] # None /\ ~After(walk[c].cursor, t))'
      <4> SUFFICES ASSUME NEW t \in walk'[c].seen
                   PROVE  (rows[t] # None /\ ~After(walk[c].cursor, t))'
        OBVIOUS
      <4>1. t \in walk[c].seen /\ t # s
        BY <1>7, <2>2
      <4>2. rows'[t] = rows[t] /\ rows[t] # None /\ ~After(walk[c].cursor, t)
        BY <1>6, <3>2, <3>3, <4>1
      <4>3. walk'[c].cursor = walk[c].cursor
        BY <1>7, <2>2
      <4> QED
        BY <4>2, <4>3 DEF After
    <3>5. \A t \in walk'[c].owed : (t \in Remaining(walk[c].request, walk[c].cursor))'
      <4> SUFFICES ASSUME NEW t \in walk'[c].owed
                   PROVE  (t \in Remaining(walk[c].request, walk[c].cursor))'
        OBVIOUS
      <4> DEFINE request == walk[c].request
      <4>1. t \in walk[c].owed /\ t # s /\ ~(request.collapse /\ rows[t].parent = s)
        BY <1>7, <2>2
      <4>2. t \in Listed(request) /\ After(walk[c].cursor, t) /\ t \in Sessions
        BY <3>2, <3>3, <4>1 DEF Remaining
      <4>3. walk'[c].request = request /\ walk'[c].cursor = walk[c].cursor /\ rows'[t] = rows[t]
        BY <1>6, <1>7, <2>2, <4>1, <4>2
      <4>4. /\ Matches(request, rows'[t])
            /\ ~(/\ request.collapse
                 /\ rows'[t].parent \in Sessions
                 /\ Matches(request, rows'[rows'[t].parent]))
        BY <1>1, <1>2, <4>1, <4>2, ListedKept
      <4> HIDE DEF request
      <4>5. (t \in Listed(walk[c].request))'
        BY <4>2, <4>3, <4>4 DEF Listed, Hidden, Matches
      <4>6. After(walk[c].cursor, t)'
        BY <4>2, <4>3 DEF After
      <4> QED
        BY <4>5, <4>6 DEF Remaining
    <3> QED
      BY <3>1, <3>4, <3>5 DEF WalkInv
  <2> QED
    BY <2>1, <2>2
<1> QED
  BY <1>5, <1>8 DEF ListingInv

LEMMA ListingInit == Init => ListingInv
<1> SUFFICES ASSUME Init PROVE ListingInv
  OBVIOUS
<1>1. NoWalk \in Walk /\ NoWalk.request = None /\ NoWalk.owed = {}
  BY DEF NoWalk, Walk
<1>2. \A c \in Clients : walk[c] = NoWalk
  BY DEF Init
<1>3. TypeOK
  BY <1>1, ListingAssumption DEF Init, TypeOK, Walk
<1> QED
  BY <1>1, <1>2, <1>3 DEF ListingInv, WalkInv

LEMMA ListingStep == ListingInv /\ [Next]_vars => ListingInv'
<1> SUFFICES ASSUME ListingInv, [Next]_vars PROVE ListingInv'
  OBVIOUS
<1>1. ASSUME NEW c \in Clients, NEW request \in Requests, ListFirst(c, request) PROVE ListingInv'
  BY <1>1, ListFirstKeeps
<1>2. ASSUME NEW c \in Clients, ListNext(c) PROVE ListingInv'
  BY <1>2, ListNextKeeps
<1>3. ASSUME NEW s \in Sessions, NEW row \in Row, Commit(s, row) PROVE ListingInv'
  BY <1>3, CommitKeeps
<1>4. CASE UNCHANGED vars
  BY <1>4 DEF vars, ListingInv, TypeOK, WalkInv, Remaining, Listed, Matches, Hidden, After
<1> QED
  BY <1>1, <1>2, <1>3, <1>4 DEF Next

\* A client that follows the cursors while ingests commit is shown no session
\* twice, unless that was written again since, and has been shown at the end
\* every session the listing began with, but for those that commits touched:
\* for every finite archive, page size and filter (`list` in store.rs).
THEOREM WalkExactAlways == Spec => []WalkExact
<1>1. ListingInv => WalkExact
  <2> SUFFICES ASSUME ListingInv, NEW c \in Clients
               PROVE  IF walk[c].request = None THEN walk[c].owed = {}
                      ELSE Page(walk[c].request, walk[c].cursor) \cap walk[c].seen = {}
    BY DEF ListingInv, WalkExact
  <2>1. CASE walk[c].request = None
    BY <2>1 DEF ListingInv, WalkInv
  <2>2. CASE walk[c].request # None
    <3>1. \A s \in walk[c].seen : ~After(walk[c].cursor, s)
      BY <2>2 DEF ListingInv, WalkInv
    <3>2. \A s \in Page(walk[c].request, walk[c].cursor) : After(walk[c].cursor, s)
      BY DEF Page, Remaining
    <3> QED
      BY <2>2, <3>1, <3>2
  <2> QED
    BY <2>1, <2>2
<1> QED
  BY <1>1, ListingInit, ListingStep, PTL DEF Spec


(***************************************************************************)
(* The pool of read connections                                            *)
(***************************************************************************)

Places == {"idle", "queued", "admitted", "reading", "done"}
WithPermit == {"admitted", "reading", "done"}

\* The readers that f puts in one of some places, and their number.
In(f, places) == {r \in Readers : f[r] \in places}
Count(f, places) == Cardinality(In(f, places))

LEMMA InFinite ==
  ASSUME NEW f, NEW places
  PROVE  IsFiniteSet(In(f, places)) /\ Count(f, places) \in Nat
<1>1. In(f, places) \subseteq Readers /\ IsFiniteSet(Readers)
  BY ReadPoolAssumption DEF In
<1>2. IsFiniteSet(In(f, places)) /\ Cardinality(In(f, places)) \in Nat
  BY <1>1, FS_Subset, FS_CardinalityType
<1> QED
  BY <1>2 DEF Count

\* Who reads has a permit, and so has a reader that is about to.
LEMMA ReadingHasPermit ==
  ASSUME NEW f, NEW r \in Readers, f[r] = "admitted"
  PROVE  Count(f, {"reading"}) + 1 <= Count(f, WithPermit)
<1>1. IsFiniteSet(In(f, {"reading"})) /\ IsFiniteSet(In(f, WithPermit))
  BY InFinite
<1>2. In(f, {"reading"}) \cup {r} \subseteq In(f, WithPermit) /\ r \notin In(f, {"reading"})
  BY DEF In, WithPermit
<1>3. Cardinality(In(f, {"reading"}) \cup {r}) = Cardinality(In(f, {"reading"})) + 1
  BY <1>1, <1>2, FS_AddElement
<1>4. Cardinality(In(f, {"reading"}) \cup {r}) <= Cardinality(In(f, WithPermit))
  BY <1>1, <1>2, FS_Subset
<1> QED
  BY <1>3, <1>4 DEF Count

\* The two counts of the invariant.
Counted ==
  /\ permits + Count(reader, WithPermit) = Permits
  /\ idle + Count(reader, {"reading"}) <= Permits

LEMMA PoolCounted == PoolAccounted <=> PoolTypeOK /\ Counted
  BY DEF PoolAccounted, Counted, Holding, Count, In, WithPermit

LEMMA PoolStarts == PoolInit => PoolAccounted
<1> SUFFICES ASSUME PoolInit PROVE PoolTypeOK /\ Counted
  BY PoolCounted
<1>1. PoolTypeOK
  BY ReadPoolAssumption DEF PoolInit, PoolTypeOK
<1>2. In(reader, WithPermit) = {} /\ In(reader, {"reading"}) = {}
  BY DEF PoolInit, In, WithPermit
<1>3. Count(reader, WithPermit) = 0 /\ Count(reader, {"reading"}) = 0
  BY <1>2, FS_EmptySet DEF Count
<1> QED
  BY <1>1, <1>3, ReadPoolAssumption DEF PoolInit, Counted

\* What a read does to the two counts: a reader that moves enters or leaves a
\* group of places, or does neither.
LEMMA MoveCounts ==
  ASSUME NEW r \in Readers, NEW from \in Places, NEW to \in Places, PoolTypeOK, Move(r, from, to)
  PROVE  /\ reader' \in [Readers -> Places]
         /\ from \in WithPermit /\ to \in WithPermit =>
              Count(reader', WithPermit) = Count(reader, WithPermit)
         /\ from \notin WithPermit /\ to \notin WithPermit =>
              Count(reader', WithPermit) = Count(reader, WithPermit)
         /\ from \in WithPermit /\ to \notin WithPermit =>
              Count(reader', WithPermit) = Count(reader, WithPermit) - 1
         /\ from \notin WithPermit /\ to \in WithPermit =>
              Count(reader', WithPermit) = Count(reader, WithPermit) + 1
         /\ from # "reading" /\ to # "reading" =>
              Count(reader', {"reading"}) = Count(reader, {"reading"})
         /\ from = "reading" /\ to # "reading" =>
              Count(reader', {"reading"}) = Count(reader, {"reading"}) - 1
         /\ from # "reading" /\ to = "reading" =>
              Count(reader', {"reading"}) = Count(reader, {"reading"}) + 1
<1>1. reader \in [Readers -> Places] /\ reader[r] = from /\ reader' = [reader EXCEPT ![r] = to]
  BY DEF PoolTypeOK, Places, Move
<1>2. reader' \in [Readers -> Places]
  BY <1>1
<1>3. ASSUME NEW places
      PROVE  /\ from \in places /\ to \in places => Count(reader', places) = Count(reader, places)
             /\ from \notin places /\ to \notin places => Count(reader', places) = Count(reader, places)
             /\ from \in places /\ to \notin places => Count(reader', places) = Count(reader, places) - 1
             /\ from \notin places /\ to \in places => Count(reader', places) = Count(reader, places) + 1
  <2>1. IsFiniteSet(In(reader, places))
    BY InFinite
  <2>2. r \in In(reader, places) <=> from \in places
    BY <1>1 DEF In
  <2>3. CASE to \in places
    <3>1. In(reader', places) = In(reader, places) \cup {r}
      BY <1>1, <2>3 DEF In
    <3>2. Cardinality(In(reader, places) \cup {r}) =
            IF r \in In(reader, places) THEN Cardinality(In(reader, places))
                                        ELSE Cardinality(In(reader, places)) + 1
      BY <2>1, FS_AddElement
    <3> QED
      BY <2>2, <2>3, <3>1, <3>2 DEF Count
  <2>4. CASE to \notin places
    <3>1. In(reader', places) = In(reader, places) \ {r}
      BY <1>1, <2>4 DEF In
    <3>2. Cardinality(In(reader, places) \ {r}) =
            IF r \in In(reader, places) THEN Cardinality(In(reader, places)) - 1
                                        ELSE Cardinality(In(reader, places))
      BY <2>1, FS_RemoveElement
    <3> QED
      BY <2>2, <2>4, <3>1, <3>2 DEF Count
  <2> QED
    BY <2>3, <2>4
<1>4. /\ from \in {"reading"} /\ to \notin {"reading"} =>
           Count(reader', {"reading"}) = Count(reader, {"reading"}) - 1
      /\ from \notin {"reading"} /\ to \notin {"reading"} =>
           Count(reader', {"reading"}) = Count(reader, {"reading"})
      /\ from \notin {"reading"} /\ to \in {"reading"} =>
           Count(reader', {"reading"}) = Count(reader, {"reading"}) + 1
  BY <1>3
<1> QED
  BY <1>2, <1>3, <1>4

LEMMA PoolStep == PoolAccounted /\ [PoolNext]_poolVars => PoolAccounted'
<1> SUFFICES ASSUME PoolAccounted, [PoolNext]_poolVars PROVE PoolAccounted'
  OBVIOUS
<1> DEFINE withPermit == Count(reader, WithPermit)
           reading    == Count(reader, {"reading"})
           withPermit_ == Count(reader', WithPermit)
           reading_    == Count(reader', {"reading"})
<1>0. /\ PoolTypeOK
      /\ permits + withPermit = Permits
      /\ idle + reading <= Permits
      /\ withPermit \in Nat /\ reading \in Nat /\ withPermit_ \in Nat /\ reading_ \in Nat
  BY InFinite, PoolCounted DEF Counted
<1>b. permits \in 0 .. Permits /\ idle \in Nat /\ Permits \in Nat /\ MaxIdle \in Nat /\ MaxFaults \in Nat
  BY <1>0, ReadPoolAssumption DEF PoolTypeOK
<1>a. ASSUME PoolTypeOK', permits' + withPermit_ = Permits, idle' + reading_ <= Permits
      PROVE  PoolAccounted'
  BY <1>a DEF PoolAccounted, PoolTypeOK, Holding, Count, In, WithPermit
<1> HIDE DEF withPermit, reading, withPermit_, reading_
<1>c. ASSUME NEW r \in Readers, NEW from \in Places, NEW to \in Places, Move(r, from, to)
      PROVE  /\ reader' \in [Readers -> Places]
             /\ from \in WithPermit /\ to \in WithPermit => withPermit_ = withPermit
             /\ from \notin WithPermit /\ to \notin WithPermit => withPermit_ = withPermit
             /\ from \in WithPermit /\ to \notin WithPermit => withPermit_ = withPermit - 1
             /\ from \notin WithPermit /\ to \in WithPermit => withPermit_ = withPermit + 1
             /\ from # "reading" /\ to # "reading" => reading_ = reading
             /\ from = "reading" /\ to # "reading" => reading_ = reading - 1
             /\ from # "reading" /\ to = "reading" => reading_ = reading + 1
  BY <1>0, <1>c, MoveCounts DEF withPermit, reading, withPermit_, reading_
<1> USE DEF writing, Places, WithPermit
<1>1. ASSUME NEW r \in Readers, CallRead(r) PROVE PoolAccounted'
  <2>1. Move(r, "idle", "queued") /\ permits' = permits /\ idle' = idle
    BY <1>1 DEF CallRead
  <2>2. reader' \in [Readers -> Places] /\ withPermit_ = withPermit /\ reading_ = reading
    BY <2>1, <1>c
  <2>3. PoolTypeOK'
    BY <1>0, <1>b, <1>1, <2>1, <2>2 DEF CallRead, PoolTypeOK
  <2> QED
    BY <1>0, <1>a, <1>b, <2>1, <2>2, <2>3
<1>2. ASSUME NEW r \in Readers, Withdraw(r) PROVE PoolAccounted'
  <2>1. Move(r, "queued", "idle") /\ permits' = permits /\ idle' = idle
    BY <1>2 DEF Withdraw
  <2>2. reader' \in [Readers -> Places] /\ withPermit_ = withPermit /\ reading_ = reading
    BY <2>1, <1>c
  <2>4. queue' \in Seq(Readers)
    <3>1. PICK i \in 1 .. Len(queue) :
            queue' = SubSeq(queue, 1, i - 1) \o SubSeq(queue, i + 1, Len(queue))
      BY <1>2 DEF Withdraw
    <3>2. queue \in Seq(Readers)
      BY <1>0 DEF PoolTypeOK
    <3> QED
      BY <3>1, <3>2
  <2>3. PoolTypeOK'
    BY <1>0, <1>b, <1>2, <2>1, <2>2, <2>4 DEF Withdraw, PoolTypeOK
  <2> QED
    BY <1>0, <1>a, <1>b, <2>1, <2>2, <2>3
<1>3. ASSUME NEW r \in Readers, Admit(r) PROVE PoolAccounted'
  <2>1. Move(r, "queued", "admitted") /\ permits' = permits - 1 /\ permits > 0 /\ idle' = idle
    BY <1>3 DEF Admit
  <2>2. reader' \in [Readers -> Places] /\ withPermit_ = withPermit + 1 /\ reading_ = reading
    BY <2>1, <1>c
  <2>3. PoolTypeOK'
    BY <1>0, <1>b, <1>3, <2>1, <2>2 DEF Admit, PoolTypeOK
  <2> QED
    BY <1>0, <1>a, <1>b, <2>1, <2>2, <2>3
<1>4. ASSUME NEW r \in Readers, TakeConnection(r) PROVE PoolAccounted'
  <2>1. Move(r, "admitted", "reading") /\ permits' = permits /\ idle' = IF idle > 0 THEN idle - 1 ELSE 0
    BY <1>4 DEF TakeConnection
  <2>2. reader' \in [Readers -> Places] /\ withPermit_ = withPermit /\ reading_ = reading + 1
    BY <2>1, <1>c
  <2>4. reading + 1 <= withPermit
    BY <2>1, ReadingHasPermit DEF Move, reading, withPermit
  <2>3. PoolTypeOK'
    BY <1>0, <1>b, <1>4, <2>1, <2>2 DEF TakeConnection, PoolTypeOK
  <2> QED
    BY <1>0, <1>a, <1>b, <2>1, <2>2, <2>3, <2>4
<1>5. ASSUME NEW r \in Readers, TakeFails(r) PROVE PoolAccounted'
  <2>1. Move(r, "admitted", "idle") /\ permits' = permits + 1 /\ idle' = idle
    BY <1>5 DEF TakeFails
  <2>2. reader' \in [Readers -> Places] /\ withPermit_ = withPermit - 1 /\ reading_ = reading
    BY <2>1, <1>c
  <2>3. PoolTypeOK'
    BY <1>0, <1>b, <1>5, <2>1, <2>2 DEF TakeFails, Fault, PoolTypeOK
  <2> QED
    BY <1>0, <1>a, <1>b, <2>1, <2>2, <2>3
<1>6. ASSUME NEW r \in Readers, ReturnConnection(r) PROVE PoolAccounted'
  <2>1. Move(r, "reading", "done") /\ permits' = permits /\ (idle' = idle \/ idle' = idle + 1)
    BY <1>6 DEF ReturnConnection
  <2>2. reader' \in [Readers -> Places] /\ withPermit_ = withPermit /\ reading_ = reading - 1
    BY <2>1, <1>c
  <2>3. PoolTypeOK'
    BY <1>0, <1>b, <1>6, <2>1, <2>2 DEF ReturnConnection, PoolTypeOK
  <2>4. idle' + reading_ <= Permits
    BY <1>0, <1>b, <2>1, <2>2
  <2> QED
    BY <1>0, <1>a, <2>1, <2>2, <2>3, <2>4
<1>7. ASSUME NEW r \in Readers, Release(r) PROVE PoolAccounted'
  <2>1. Move(r, "done", "idle") /\ permits' = permits + 1 /\ idle' = idle
    BY <1>7 DEF Release
  <2>2. reader' \in [Readers -> Places] /\ withPermit_ = withPermit - 1 /\ reading_ = reading
    BY <2>1, <1>c
  <2>3. PoolTypeOK'
    BY <1>0, <1>b, <1>7, <2>1, <2>2 DEF Release, PoolTypeOK
  <2> QED
    BY <1>0, <1>a, <1>b, <2>1, <2>2, <2>3
<1>8. ASSUME NEW r \in Readers, Unwind(r) PROVE PoolAccounted'
  <2>1. Move(r, "reading", "idle") /\ permits' = permits + 1 /\ idle' = idle
    BY <1>8 DEF Unwind
  <2>2. reader' \in [Readers -> Places] /\ withPermit_ = withPermit - 1 /\ reading_ = reading - 1
    BY <2>1, <1>c
  <2>3. PoolTypeOK'
    BY <1>0, <1>b, <1>8, <2>1, <2>2 DEF Unwind, Fault, PoolTypeOK
  <2> QED
    BY <1>0, <1>a, <1>b, <2>1, <2>2, <2>3
<1>9. ASSUME PoolTypeOK', UNCHANGED <<reader, permits, idle>> PROVE PoolAccounted'
  <2>1. withPermit_ = withPermit /\ reading_ = reading
    BY <1>9 DEF withPermit, reading, withPermit_, reading_
  <2> QED
    BY <1>0, <1>a, <1>9, <2>1
<1>10. ASSUME NEW w \in Writers, CallWrite(w) PROVE PoolAccounted'
  BY <1>0, <1>9, <1>10 DEF CallWrite, PoolTypeOK
<1>11. ASSUME NEW w \in Writers, LockWriter(w) PROVE PoolAccounted'
  BY <1>0, <1>9, <1>11 DEF LockWriter, PoolTypeOK
<1>12. ASSUME NEW w \in Writers, FinishWrite(w) PROVE PoolAccounted'
  BY <1>0, <1>9, <1>12 DEF FinishWrite, PoolTypeOK
<1>13. ASSUME NEW w \in Writers, WriterPanics(w) PROVE PoolAccounted'
  BY <1>0, <1>b, <1>9, <1>13 DEF WriterPanics, Fault, PoolTypeOK
<1>14. CASE UNCHANGED poolVars
  BY <1>0, <1>9, <1>14 DEF poolVars, PoolTypeOK
<1> QED
  BY <1>1, <1>2, <1>3, <1>4, <1>5, <1>6, <1>7, <1>8, <1>10, <1>11, <1>12, <1>13, <1>14
  DEF PoolNext, ServeRead, ServeWrite

\* Whatever panics, fails or goes away, no permit is lost or made up, and there
\* are never more connections than permits.
THEOREM PoolAccountedAlways == PoolSpec => []PoolAccounted
  BY PoolStarts, PoolStep, PTL DEF PoolSpec

(***************************************************************************)
(* Induction and recursion up to a number                                  *)
(***************************************************************************)
\* What holds at 0 and is kept by every step up to a number holds up to there.
LEMMA UpTo ==
  ASSUME NEW L \in Nat, NEW T, T \subseteq 0 .. L, 0 \in T,
         \A n \in 1 .. L : n - 1 \in T => n \in T
  PROVE  T = 0 .. L
<1> DEFINE Missed == (0 .. L) \ T
<1>1. SUFFICES ASSUME Missed # {} PROVE FALSE
  OBVIOUS
<1>2. PICK n \in Missed : \A m \in Missed : n <= m
  <2>1. Missed \subseteq Nat
    OBVIOUS
  <2>2. IsWellFoundedOn(OpToRel(<, Nat), Nat)
    BY NatLessThanWellFounded
  <2> HIDE DEF Missed
  <2>3. PICK n \in Missed : \A m \in Missed : <<m, n>> \notin OpToRel(<, Nat)
    BY <1>1, <2>1, <2>2, WFMin
  <2>4. \A m \in Missed : ~(m < n)
    BY <2>1, <2>3 DEF OpToRel
  <2> QED
    BY <2>1, <2>4
<1>3. n \in 1 .. L
  OBVIOUS
<1>4. n - 1 \in 0 .. L /\ n - 1 \notin Missed
  BY <1>2, <1>3
<1> QED
  BY <1>3, <1>4

\* f[n] is what n rounds of a loop make of its start.
IsLoop(f, L, start, round) ==
  f[0] = start /\ \A n \in 1 .. L : f[n] = round[<<f[n - 1], n>>]

\* A loop of L rounds is a function of the number of rounds made.
LEMMA LoopRuns ==
  ASSUME NEW L \in Nat, NEW S, NEW start \in S, NEW round \in [S \X (1 .. L) -> S]
  PROVE  \E f \in [0 .. L -> S] : IsLoop(f, L, start, round)
<1> USE DEF IsLoop
<1> DEFINE Runs(m, f) == f \in [0 .. m -> S] /\ IsLoop(f, m, start, round)
           T == {m \in 0 .. L : \E f : Runs(m, f)}
<1>1. 0 \in T
  <2>1. Runs(0, [n \in 0 .. 0 |-> start])
    OBVIOUS
  <2> HIDE DEF Runs
  <2> QED
    BY <2>1
<1>2. ASSUME NEW m \in 1 .. L, m - 1 \in T PROVE m \in T
  <2>1. PICK f : Runs(m - 1, f)
    BY <1>2
  <2> DEFINE g == [n \in 0 .. m |-> IF n = m THEN round[<<f[m - 1], m>>] ELSE f[n]]
  <2>2. f[m - 1] \in S /\ round[<<f[m - 1], m>>] \in S
    BY <2>1
  <2>3. g \in [0 .. m -> S] /\ g[0] = start
    BY <2>1, <2>2
  <2>4. ASSUME NEW n \in 1 .. m PROVE g[n] = round[<<g[n - 1], n>>]
    <3>1. g[n - 1] = f[n - 1]
      OBVIOUS
    <3>2. CASE n = m
      <4>1. g[n] = round[<<f[n - 1], n>>]
        BY <3>2
      <4> QED
        BY <3>1, <4>1
    <3>3. CASE n # m
      <4>1. n \in 1 .. m - 1 /\ g[n] = f[n]
        BY <3>3
      <4> QED
        BY <2>1, <3>1, <4>1
    <3> QED
      BY <3>2, <3>3
  <2>5. Runs(m, g)
    <3> HIDE DEF g
    <3> QED
      BY <2>3, <2>4
  <2> HIDE DEF Runs
  <2> QED
    BY <2>5
<1>3. L \in T
  <2>1. T \subseteq 0 .. L
    OBVIOUS
  <2> HIDE DEF T
  <2>2. T = 0 .. L
    BY <1>1, <1>2, <2>1, UpTo
  <2> QED
    BY <2>2
<1>4. PICK f : Runs(L, f)
  BY <1>3
<1> QED
  BY <1>4

(***************************************************************************)
(* The ancestors of a session                                              *)
(***************************************************************************)
IsEdges(edges) == edges.known \in SUBSET Ids /\ edges.parent \in [Ids -> Ids \cup {Null}]

Leads(edges, s) == s \in edges.known /\ edges.parent[s] \in edges.known

\* The sessions lineage_path has met, the first included, after n rounds.
Walked(id, edges) ==
  CHOOSE path : path = [n \in 0 .. Cardinality(Ids) |->
                         IF n = 0 THEN <<id>> ELSE Climb(path[n - 1], edges)]

\* A way up from s, and that it goes no further.
IsWalk(q, s, edges) ==
  /\ q \in Seq(Ids) /\ Len(q) >= 1 /\ q[1] = s
  /\ \A i \in 1 .. Len(q) - 1 : Leads(edges, q[i]) /\ q[i + 1] = edges.parent[q[i]]

Ends(q, edges) ==
  (\E i \in 1 .. Len(q) - 1 : q[i] = q[Len(q)]) \/ ~Leads(edges, q[Len(q)])

\* A round stops where the walk ends, and goes to the parent elsewhere.
LEMMA ClimbRead ==
  ASSUME NEW edges, IsEdges(edges), NEW q \in Seq(Ids), Len(q) >= 1
  PROVE  /\ Climb(q, edges) \in Seq(Ids) /\ Len(Climb(q, edges)) >= 1
         /\ Ends(q, edges) => Climb(q, edges) = q
         /\ ~Ends(q, edges) => /\ edges.parent[q[Len(q)]] \in Ids
                               /\ Climb(q, edges) = Append(q, edges.parent[q[Len(q)]])
<1> DEFINE s == q[Len(q)]
           f == SubSeq(q, 1, Len(q) - 1)
<1>1. s \in Ids /\ Len(q) \in Nat
  OBVIOUS
<1>2. f \in Seq(Ids) /\ Len(f) = Len(q) - 1 /\ \A i \in 1 .. Len(q) - 1 : f[i] = q[i]
  <2> DEFINE m == Len(q) - 1
  <2>1. m \in 0 .. Len(q)
    BY <1>1
  <2> HIDE DEF m
  <2>2. SubSeq(q, 1, m) \in Seq(Ids)
    BY <2>1
  <2>3. Len(SubSeq(q, 1, m)) = m
    BY <1>1, <2>1
  <2>4. \A i \in 1 .. m : SubSeq(q, 1, m)[i] = q[i]
    BY <1>1, <2>1
  <2> QED
    BY <2>2, <2>3, <2>4 DEF m
<1>3. s \in ToSet(f) <=> \E i \in 1 .. Len(q) - 1 : q[i] = s
  <2>1. DOMAIN f = 1 .. Len(q) - 1
    BY <1>2
  <2> QED
    BY <1>2, <2>1, Zenon DEF ToSet
<1>4. Climb(q, edges) = IF Ends(q, edges) THEN q ELSE Append(q, edges.parent[s])
  BY <1>3, Zenon DEF Climb, Ends, Leads, Last, Front
<1>5. ~Ends(q, edges) => edges.parent[s] \in Ids
  BY <1>1 DEF Ends, Leads, IsEdges
<1> QED
  BY <1>1, <1>4, <1>5

\* The loop of lineage_path, round by round.
LEMMA WalkedRead ==
  ASSUME NEW edges, IsEdges(edges), NEW id \in Ids
  PROVE  LET N == Cardinality(Ids)
             path == Walked(id, edges)
         IN  /\ N \in Nat
             /\ path[0] = <<id>>
             /\ \A n \in 1 .. N : path[n] = Climb(path[n - 1], edges)
             /\ \A n \in 0 .. N : path[n] \in Seq(Ids) /\ Len(path[n]) >= 1
             /\ LineagePath(id, edges) = Tail(path[N])
<1> DEFINE N == Cardinality(Ids)
           path == Walked(id, edges)
           S == {q \in Seq(Ids) : Len(q) >= 1}
           round == [p \in S \X (1 .. N) |-> Climb(p[1], edges)]
<1>1. N \in Nat
  BY SearchAssumption, FS_CardinalityType
<1>2. <<id>> \in S /\ round \in [S \X (1 .. N) -> S]
  BY ClimbRead
<1>3. PICK f \in [0 .. N -> S] : IsLoop(f, N, <<id>>, round)
  <2> DEFINE start == <<id>>
  <2>1. start \in S /\ N \in Nat
    BY <1>1, <1>2
  <2>2. round \in [S \X (1 .. N) -> S]
    BY <1>2
  <2> HIDE DEF N, S, round, start
  <2>3. \E f \in [0 .. N -> S] : IsLoop(f, N, start, round)
    BY <2>1, <2>2, LoopRuns
  <2> QED
    BY <2>3 DEF start
<1>4. \A n \in 1 .. N : f[n] = Climb(f[n - 1], edges)
  <2>1. \A n \in 1 .. N : <<f[n - 1], n>> \in S \X (1 .. N)
    <3> HIDE DEF S
    <3> QED
      BY <1>1
  <2> QED
    BY <1>3, <2>1 DEF IsLoop
<1>5. f = [n \in 0 .. N |-> IF n = 0 THEN <<id>> ELSE Climb(f[n - 1], edges)]
  <2> HIDE DEF N, S, round
  <2> QED
    BY <1>3, <1>4 DEF IsLoop
<1>6. path = [n \in 0 .. N |-> IF n = 0 THEN <<id>> ELSE Climb(path[n - 1], edges)]
  BY <1>5, Zenon DEF Walked
<1>7. LineagePath(id, edges) = Tail(path[N])
  BY Zenon DEF LineagePath, Walked
<1> HIDE DEF path
<1>8. path[0] = <<id>> /\ \A n \in 1 .. N : path[n] = Climb(path[n - 1], edges)
  BY <1>1, <1>6
<1>9. \A n \in 0 .. N : path[n] \in S
  <2> DEFINE T == {n \in 0 .. N : path[n] \in S}
  <2>1. \A n \in 1 .. N : n - 1 \in T => n \in T
    BY <1>1, <1>8, ClimbRead
  <2>2. 0 \in T
    <3> DEFINE start == <<id>>
    <3>1. start \in S /\ path[0] = start /\ 0 \in 0 .. N
      BY <1>1, <1>2, <1>8
    <3> HIDE DEF S, start
    <3> QED
      BY <3>1
  <2>4. T \subseteq 0 .. N
    OBVIOUS
  <2> HIDE DEF T, N, S
  <2>3. T = 0 .. N
    BY <1>1, <2>1, <2>2, <2>4, UpTo
  <2> QED
    BY <2>3 DEF T
<1> QED
  BY <1>1, <1>7, <1>8, <1>9 DEF path

\* What lies directly above a session, in the edges the search has loaded.
Over(s) ==
  IF s \in find.edges.known /\ find.edges.parent[s] \in find.edges.known
    THEN {find.edges.parent[s]} ELSE {}

\* What Above has found after n rounds.
Reached(s) ==
  CHOOSE up : up = [n \in 0 .. Cardinality(Ids) |->
                     IF n = 0 THEN {s} ELSE up[n - 1] \cup UNION {Over(t) : t \in up[n - 1]}]

LEMMA OverRead ==
  ASSUME IsEdges(find.edges), NEW s \in Ids
  PROVE  /\ Over(s) \subseteq Ids
         /\ Leads(find.edges, s) => Over(s) = {find.edges.parent[s]}
         /\ ~Leads(find.edges, s) => Over(s) = {}
  BY DEF Over, Leads, IsEdges

LEMMA AboveRead ==
  ASSUME IsEdges(find.edges), NEW s \in Ids
  PROVE  LET N == Cardinality(Ids)
             up == Reached(s)
         IN  /\ up[0] = {s}
             /\ \A n \in 1 .. N : up[n] = up[n - 1] \cup UNION {Over(t) : t \in up[n - 1]}
             /\ Above(s) = up[N]
<1> DEFINE N == Cardinality(Ids)
           up == Reached(s)
           S == SUBSET Ids
           round == [p \in S \X (1 .. N) |-> p[1] \cup UNION {Over(t) : t \in p[1]}]
           start == {s}
<1>1. N \in Nat
  BY SearchAssumption, FS_CardinalityType
<1>2. ASSUME NEW T \in S PROVE T \cup UNION {Over(t) : t \in T} \in S
  BY OverRead
<1>3. start \in S /\ round \in [S \X (1 .. N) -> S]
  BY <1>2
<1>4. PICK f \in [0 .. N -> S] : IsLoop(f, N, start, round)
  <2> HIDE DEF N, S, round, start
  <2> QED
    BY <1>1, <1>3, LoopRuns
<1>5. \A n \in 1 .. N : f[n] = f[n - 1] \cup UNION {Over(t) : t \in f[n - 1]}
  <2>1. \A n \in 1 .. N : <<f[n - 1], n>> \in S \X (1 .. N)
    <3> HIDE DEF S
    <3> QED
      BY <1>1
  <2> HIDE DEF S, N
  <2> QED
    BY <1>4, <2>1 DEF IsLoop
<1>6. f = [n \in 0 .. N |-> IF n = 0 THEN start ELSE f[n - 1] \cup UNION {Over(t) : t \in f[n - 1]}]
  <2> HIDE DEF N, S, round, start
  <2> QED
    BY <1>4, <1>5 DEF IsLoop
<1>7. up = [n \in 0 .. N |-> IF n = 0 THEN {s} ELSE up[n - 1] \cup UNION {Over(t) : t \in up[n - 1]}]
  BY <1>6, Zenon DEF Reached
<1>8. Above(s) = up[N]
  BY Zenon DEF Above, Reached, Over
<1> HIDE DEF up
<1> QED
  BY <1>1, <1>7, <1>8 DEF up

\* A walk of more rounds than there are sessions has met one of them twice.
LEMMA WalkBounded ==
  ASSUME NEW q \in Seq(Ids), Len(q) = Cardinality(Ids) + 1,
         \A i, j \in 1 .. Len(q) - 1 : q[i] = q[j] => i = j
  PROVE  \E i \in 1 .. Len(q) - 1 : q[i] = q[Len(q)]
<1>1. IsFiniteSet(Ids) /\ Cardinality(Ids) \in Nat
  BY SearchAssumption, FS_CardinalityType
<1>2. /\ IsFiniteSet(1 .. Len(q)) /\ Cardinality(1 .. Len(q)) = Len(q)
  BY <1>1, FS_Interval
<1>3. q \in [1 .. Len(q) -> Ids]
  OBVIOUS
<1>4. PICK i, j \in 1 .. Len(q) : i # j /\ q[i] = q[j]
  BY <1>1, <1>2, <1>3, FS_PigeonHole
<1>5. i = Len(q) \/ j = Len(q)
  BY <1>4
<1> QED
  BY <1>4, <1>5

\* After each round the walk has met what Above has found, and either it has ended
\* or it has met one more.
Met(q, n, s) ==
  /\ q \in Seq(Ids) /\ IsWalk(q, s, find.edges)
  /\ ToSet(q) = Reached(s)[n]
  /\ \A i, j \in 1 .. Len(q) - 1 : q[i] = q[j] => i = j
  /\ Ends(q, find.edges) \/ Len(q) = n + 1

LEMMA ToSetRead ==
  ASSUME NEW S, NEW q \in Seq(S)
  PROVE  ToSet(q) = {q[i] : i \in 1 .. Len(q)}
  BY DEF ToSet

LEMMA ToSetFinite ==
  ASSUME NEW S, NEW q \in Seq(S)
  PROVE  /\ IsFiniteSet(ToSet(q))
         /\ (\A i, j \in 1 .. Len(q) : q[i] = q[j] => i = j) => Cardinality(ToSet(q)) = Len(q)
<1> DEFINE n == Len(q)
           T == ToSet(q)
           f == [i \in 1 .. n |-> q[i]]
<1>1. n \in Nat /\ T = {q[i] : i \in 1 .. n}
  BY ToSetRead
<1> HIDE DEF n, T
<1>5. IsFiniteSet(1 .. n) /\ Cardinality(1 .. n) = n
  BY <1>1, FS_Interval
<1>2. f \in [1 .. n -> T] /\ \A t \in T : \E i \in 1 .. n : f[i] = t
  BY <1>1
<1> HIDE DEF f
<1>3. f \in Surjection(1 .. n, T)
  BY <1>2 DEF Surjection
<1>4. IsFiniteSet(T) /\ (f \in Injection(1 .. n, T) => Cardinality(T) = n)
  BY <1>3, <1>5, FS_Surjection
<1>6. ASSUME \A i, j \in 1 .. n : q[i] = q[j] => i = j PROVE f \in Injection(1 .. n, T)
  <2>1. \A i \in 1 .. n : f[i] = q[i]
    BY DEF f
  <2> QED
    BY <1>2, <1>6, <2>1 DEF Injection, IsInjective
<1> QED
  BY <1>4, <1>6 DEF T, n

LEMMA MetMore ==
  ASSUME IsEdges(find.edges), NEW s \in Ids, NEW n \in 1 .. Cardinality(Ids),
         NEW q, Met(q, n - 1, s)
  PROVE  Met(Climb(q, find.edges), n, s)
<1> DEFINE e == find.edges
           L == Len(q)
           t == q[L]
           up == Reached(s)
<1>1. /\ q \in Seq(Ids) /\ L \in Nat /\ L >= 1 /\ q[1] = s /\ t \in Ids
      /\ \A i \in 1 .. L - 1 : Leads(e, q[i]) /\ q[i + 1] = e.parent[q[i]]
      /\ ToSet(q) = up[n - 1]
  BY DEF Met, IsWalk
<1>2. up[n] = up[n - 1] \cup UNION {Over(x) : x \in up[n - 1]}
  BY AboveRead
<1>3. up[n - 1] = {q[i] : i \in 1 .. L}
  BY <1>1, ToSetRead
<1>4. \A i \in 1 .. L - 1 : Over(q[i]) = {q[i + 1]}
  BY <1>1, OverRead
<1>5. \A i \in 1 .. L - 1 : Over(q[i]) \subseteq up[n - 1]
  <2> HIDE DEF up, L, t
  <2>1. \A i \in 1 .. L - 1 : i + 1 \in 1 .. L
    BY <1>1
  <2>2. \A i \in 1 .. L - 1 : q[i + 1] \in up[n - 1]
    BY <1>3, <2>1
  <2> QED
    BY <1>4, <2>2
<1>6. up[n] = up[n - 1] \cup Over(t)
  <2> HIDE DEF up, L, t
  <2>1. \A i \in 1 .. L - 1 : Over(q[i]) \subseteq up[n - 1]
    BY <1>5
  <2>2. \A i \in 1 .. L : i \in 1 .. L - 1 \/ i = L
    BY <1>1
  <2>3. L \in 1 .. L /\ t = q[L]
    BY <1>1 DEF t
  <2> QED
    BY <1>2, <1>3, <2>1, <2>2, <2>3
<1>7. CASE Ends(q, e)
  <2>1. Climb(q, e) = q
    BY <1>1, <1>7, ClimbRead
  <2>2. Over(t) \subseteq up[n - 1]
    <3>1. CASE ~Leads(e, t)
      BY <1>1, <3>1, OverRead
    <3>2. CASE \E i \in 1 .. L - 1 : q[i] = t
      <4> HIDE DEF up, L, t
      <4> QED
        BY <1>5, <3>2
    <3> QED
      BY <1>7, <3>1, <3>2 DEF Ends
  <2> QED
    BY <1>1, <1>6, <1>7, <2>1, <2>2 DEF Met, IsWalk
<1>8. CASE ~Ends(q, e)
  <2> DEFINE x == e.parent[t]
             r == Append(q, x)
  <2>1. Climb(q, e) = r /\ x \in Ids
    BY <1>1, <1>8, ClimbRead
  <2>2. Leads(e, t) /\ \A i \in 1 .. L - 1 : q[i] # t
    BY <1>8 DEF Ends
  <2>3. /\ r \in Seq(Ids) /\ Len(r) = L + 1 /\ r[L + 1] = x
        /\ \A i \in 1 .. L : r[i] = q[i]
    BY <1>1, <2>1
  <2>4. L = n
    BY <1>8 DEF Met
  <2>5. ToSet(r) = up[n]
    <3>1. ToSet(r) = {r[i] : i \in 1 .. L + 1}
      BY <2>3, ToSetRead
    <3>2. Over(t) = {x}
      BY <1>1, <2>2, OverRead
    <3> HIDE DEF up, L, t, r, x
    <3>3. \A i \in 1 .. L + 1 : i \in 1 .. L \/ i = L + 1
      BY <1>1
    <3>4. \A i \in 1 .. L : i \in 1 .. L + 1
      BY <1>1
    <3>5. L + 1 \in 1 .. L + 1
      BY <1>1
    <3>6. up[n] = {q[i] : i \in 1 .. L} \cup {x}
      BY <1>3, <1>6, <3>2
    <3>7. {r[i] : i \in 1 .. L + 1} \subseteq {q[i] : i \in 1 .. L} \cup {x}
      BY <2>3, <3>3
    <3>8. {q[i] : i \in 1 .. L} \cup {x} \subseteq {r[i] : i \in 1 .. L + 1}
      BY <2>3, <3>4, <3>5
    <3> QED
      BY <3>1, <3>6, <3>7, <3>8
  <2>6. IsWalk(r, s, e)
    <3> HIDE DEF r, L
    <3> QED
      BY <1>1, <2>2, <2>3 DEF IsWalk, L
  <2>7. \A i, j \in 1 .. Len(r) - 1 : r[i] = r[j] => i = j
    <3>1. \A i, j \in 1 .. L - 1 : q[i] = q[j] => i = j
      BY DEF Met
    <3> HIDE DEF r, L
    <3> QED
      BY <1>1, <2>2, <2>3, <3>1 DEF L
  <2> QED
    BY <2>1, <2>3, <2>4, <2>5, <2>6, <2>7 DEF Met
<1> QED
  BY <1>7, <1>8

\* lineage_path finds what lies above a session, in the order of the parents, and
\* goes on until it has to end.
LEMMA LineageWalked ==
  ASSUME IsEdges(find.edges), NEW s \in Ids
  PROVE  \E q : /\ IsWalk(q, s, find.edges) /\ Ends(q, find.edges)
                /\ ToSet(q) = Above(s)
                /\ LineagePath(s, find.edges) = Tail(q)
<1> DEFINE N == Cardinality(Ids)
           e == find.edges
           path == Walked(s, e)
           T == {n \in 0 .. N : Met(path[n], n, s)}
<1>1. N \in Nat /\ path[0] = <<s>> /\ LineagePath(s, e) = Tail(path[N])
  BY WalkedRead
<1>2. 0 \in T
  <2>1. Reached(s)[0] = {s}
    BY AboveRead
  <2> DEFINE q == <<s>>
  <2>2. q \in Seq(Ids) /\ Len(q) = 1 /\ q[1] = s
    OBVIOUS
  <2>3. ToSet(q) = {s}
    <3> HIDE DEF q
    <3> QED
      BY <2>2, ToSetRead
  <2> HIDE DEF q
  <2>4. Met(q, 0, s)
    BY <2>1, <2>2, <2>3 DEF Met, IsWalk
  <2> QED
    BY <1>1, <2>4 DEF q
<1>3. ASSUME NEW n \in 1 .. N, n - 1 \in T PROVE n \in T
  <2>1. path[n] = Climb(path[n - 1], e)
    BY WalkedRead
  <2>2. Met(path[n - 1], n - 1, s)
    BY <1>3
  <2> HIDE DEF path
  <2> QED
    BY <1>1, <2>1, <2>2, MetMore
<1>4. N \in T
  <2>1. T \subseteq 0 .. N
    OBVIOUS
  <2> HIDE DEF T, N
  <2>2. T = 0 .. N
    BY <1>1, <1>2, <1>3, <2>1, UpTo
  <2> QED
    BY <1>1, <2>2
<1> DEFINE q == path[N]
<1>5. Met(q, N, s)
  BY <1>4
<1>6. Above(s) = Reached(s)[N]
  BY AboveRead
<1> HIDE DEF q
<1>7. Ends(q, e)
  <2>1. CASE Len(q) = N + 1
    BY <1>5, <2>1, WalkBounded DEF Met, Ends
  <2> QED
    BY <1>5, <2>1 DEF Met
<1> QED
  BY <1>1, <1>5, <1>6, <1>7 DEF Met, q

LEMMA TailRead ==
  ASSUME NEW q \in Seq(Ids), Len(q) >= 1
  PROVE  /\ Tail(q) \in Seq(Ids) /\ Len(Tail(q)) = Len(q) - 1
         /\ \A i \in 1 .. Len(q) - 1 : Tail(q)[i] = q[i + 1]
         /\ ToSet(Tail(q)) = {q[i] : i \in 2 .. Len(q)}
<1>1. Tail(q) \in Seq(Ids) /\ Len(Tail(q)) = Len(q) - 1 /\ Len(q) \in Nat
  OBVIOUS
<1>2. \A i \in 1 .. Len(q) - 1 : Tail(q)[i] = q[i + 1]
  OBVIOUS
<1>3. ToSet(Tail(q)) = {Tail(q)[i] : i \in 1 .. Len(q) - 1}
  BY <1>1, ToSetRead
<1> DEFINE r == Tail(q)
<1> HIDE DEF r
<1>4. {r[i] : i \in 1 .. Len(q) - 1} = {q[i] : i \in 2 .. Len(q)}
  <2>1. \A i \in 1 .. Len(q) - 1 : i + 1 \in 2 .. Len(q) /\ r[i] = q[i + 1]
    BY <1>1, <1>2 DEF r
  <2>2. \A i \in 2 .. Len(q) : i - 1 \in 1 .. Len(q) - 1 /\ r[i - 1] = q[i]
    <3>1. \A i \in 2 .. Len(q) : i - 1 \in 1 .. Len(q) - 1 /\ (i - 1) + 1 = i
      BY <1>1
    <3> QED
      BY <2>1, <3>1
  <2> QED
    BY <2>1, <2>2
<1> QED
  BY <1>1, <1>2, <1>3, <1>4 DEF r

\* The ancestors of a session, and its root, are sessions.
LEMMA LineageTyped ==
  ASSUME NEW edges, IsEdges(edges), NEW s \in Ids
  PROVE  LineagePath(s, edges) \in Seq(Ids) /\ LineageRoot(s, edges) \in Ids
<1>1. LineagePath(s, edges) \in Seq(Ids)
  <2>1. /\ Cardinality(Ids) \in Nat
        /\ \A n \in 0 .. Cardinality(Ids) :
             Walked(s, edges)[n] \in Seq(Ids) /\ Len(Walked(s, edges)[n]) >= 1
        /\ LineagePath(s, edges) = Tail(Walked(s, edges)[Cardinality(Ids)])
    BY WalkedRead
  <2> QED
    BY <2>1, TailRead
<1> DEFINE q == LineagePath(s, edges)
<1>2. LineageRoot(s, edges) = IF q = <<>> THEN s ELSE q[Len(q)]
  BY Zenon DEF LineageRoot, Last
<1> HIDE DEF q
<1>3. q \in Seq(Ids)
  BY <1>1 DEF q
<1>4. q # <<>> => q[Len(q)] \in Ids
  BY <1>3
<1> QED
  BY <1>1, <1>2, <1>4

\* What lies above a session is what lineage_path finds, and the last of it is the
\* root.
LEMMA AboveIsPath ==
  ASSUME IsEdges(find.edges), NEW s \in Ids
  PROVE  /\ Above(s) = {s} \cup ToSet(LineagePath(s, find.edges)) /\ Above(s) \subseteq Ids
         /\ \E q : /\ IsWalk(q, s, find.edges) /\ Ends(q, find.edges)
                  /\ Above(s) = {q[i] : i \in 1 .. Len(q)}
                  /\ LineageRoot(s, find.edges) = q[Len(q)]
<1> DEFINE e == find.edges
           path == LineagePath(s, e)
<1>1. PICK q : IsWalk(q, s, e) /\ Ends(q, e) /\ ToSet(q) = Above(s) /\ path = Tail(q)
  BY LineageWalked
<1>2. q \in Seq(Ids) /\ Len(q) >= 1 /\ q[1] = s /\ Len(q) \in Nat
  BY <1>1 DEF IsWalk
<1>3. Above(s) = {q[i] : i \in 1 .. Len(q)}
  BY <1>1, <1>2, ToSetRead
<1>4. /\ path \in Seq(Ids) /\ Len(path) = Len(q) - 1
      /\ \A i \in 1 .. Len(q) - 1 : path[i] = q[i + 1]
      /\ ToSet(path) = {q[i] : i \in 2 .. Len(q)}
  BY <1>1, <1>2, TailRead
<1>5. {q[i] : i \in 1 .. Len(q)} = {s} \cup {q[i] : i \in 2 .. Len(q)}
  <2>1. \A i \in 1 .. Len(q) : i = 1 \/ i \in 2 .. Len(q)
    BY <1>2
  <2>2. 1 \in 1 .. Len(q) /\ \A i \in 2 .. Len(q) : i \in 1 .. Len(q)
    BY <1>2
  <2> QED
    BY <1>2, <2>1, <2>2
<1>6. LineageRoot(s, e) = IF path = <<>> THEN s ELSE path[Len(path)]
  BY Zenon DEF LineageRoot, Last
<1> HIDE DEF path
<1>7. LineageRoot(s, e) = q[Len(q)]
  <2>1. CASE Len(q) = 1
    <3>1. path = <<>>
      BY <1>4, <2>1
    <3> QED
      BY <1>2, <1>6, <2>1, <3>1
  <2>2. CASE Len(q) > 1
    <3>1. path # <<>> /\ Len(path) \in 1 .. Len(q) - 1
      BY <1>2, <1>4, <2>2
    <3>2. path[Len(path)] = q[Len(q)]
      BY <1>2, <1>4, <3>1
    <3> QED
      BY <1>6, <3>1, <3>2
  <2>3. Len(q) = 1 \/ Len(q) > 1
    <3> DEFINE n == Len(q)
    <3>1. n \in Nat /\ n >= 1
      BY <1>2
    <3> HIDE DEF n
    <3>2. n = 1 \/ n > 1
      BY <3>1
    <3> QED
      BY <3>2 DEF n
  <2> HIDE DEF e
  <2> QED
    BY <2>1, <2>2, <2>3
<1>8. Above(s) \subseteq Ids
  BY <1>2, <1>3
<1> QED
  BY <1>1, <1>3, <1>4, <1>5, <1>7, <1>8 DEF path

\* Whatever lies above s leads to all that lies above it in turn.
LEMMA AboveCloses ==
  ASSUME IsEdges(find.edges), NEW s \in Ids, NEW t \in Above(s), Leads(find.edges, t)
  PROVE  find.edges.parent[t] \in Above(s)
<1> DEFINE e == find.edges
<1>1. PICK q : IsWalk(q, s, e) /\ Ends(q, e) /\ Above(s) = {q[i] : i \in 1 .. Len(q)}
  BY AboveIsPath
<1>2. PICK i \in 1 .. Len(q) : t = q[i]
  BY <1>1
<1>3. PICK j \in 1 .. Len(q) - 1 : t = q[j]
  <2>1. Len(q) \in Nat
    BY <1>1 DEF IsWalk
  <2> QED
    BY <1>1, <1>2, <2>1 DEF Ends
<1>4. j + 1 \in 1 .. Len(q) /\ q[j + 1] = e.parent[t]
  BY <1>1, <1>3 DEF IsWalk
<1> QED
  BY <1>1, <1>4

\* The root of s lies above all that lies above s.
LEMMA RootOnTop ==
  ASSUME IsEdges(find.edges), NEW s \in Ids, NEW t \in Above(s)
  PROVE  LineageRoot(s, find.edges) \in Above(t)
<1> DEFINE e == find.edges
<1>1. PICK q : /\ IsWalk(q, s, e) /\ Ends(q, e)
               /\ Above(s) = {q[i] : i \in 1 .. Len(q)} /\ LineageRoot(s, e) = q[Len(q)]
  BY AboveIsPath
<1>2. PICK k \in 1 .. Len(q) : t = q[k]
  BY <1>1
<1>3. /\ q \in Seq(Ids) /\ Len(q) \in Nat /\ Len(q) >= 1 /\ t \in Ids
      /\ \A i \in 1 .. Len(q) - 1 : Leads(e, q[i]) /\ q[i + 1] = e.parent[q[i]]
  BY <1>1, <1>2 DEF IsWalk
<1>4. t \in Above(t)
  BY <1>3, AboveIsPath
<1> DEFINE L == Len(q) - k
           T == {n \in 0 .. L : q[k + n] \in Above(t)}
<1>5. 0 \in T
  BY <1>2, <1>3, <1>4
<1>6. ASSUME NEW n \in 1 .. L, n - 1 \in T PROVE n \in T
  <2>1. k + (n - 1) \in 1 .. Len(q) - 1 /\ (k + (n - 1)) + 1 = k + n
    BY <1>3
  <2>2. q[k + (n - 1)] \in Above(t) /\ Leads(e, q[k + (n - 1)])
    BY <1>3, <1>6, <2>1
  <2>3. q[k + n] = e.parent[q[k + (n - 1)]]
    BY <1>3, <2>1
  <2>4. e.parent[q[k + (n - 1)]] \in Above(t)
    BY <1>3, <2>2, AboveCloses
  <2> QED
    BY <2>3, <2>4
<1>7. L \in T
  <2>1. T \subseteq 0 .. L /\ L \in Nat
    BY <1>3
  <2> HIDE DEF T, L
  <2>2. T = 0 .. L
    BY <1>5, <1>6, <2>1, UpTo
  <2> QED
    BY <2>1, <2>2
<1>8. k + L = Len(q)
  BY <1>3
<1> QED
  BY <1>1, <1>7, <1>8

\* A root that leads on closes a circle.
LEMMA RootLeadsNowhere ==
  ASSUME IsEdges(find.edges), NEW s \in Ids, ~Cyclic(s)
  PROVE  ~Leads(find.edges, LineageRoot(s, find.edges))
<1> DEFINE e == find.edges
           r == LineageRoot(s, e)
<1> SUFFICES ASSUME Leads(e, r) PROVE FALSE
  OBVIOUS
<1>1. r \in Above(s) /\ Above(s) \subseteq Ids
  <2>1. PICK q : /\ IsWalk(q, s, e)
                 /\ Above(s) = {q[i] : i \in 1 .. Len(q)} /\ r = q[Len(q)]
    BY AboveIsPath
  <2>2. Len(q) \in 1 .. Len(q)
    BY <2>1 DEF IsWalk
  <2> QED
    BY <2>1, <2>2, AboveIsPath
<1>2. e.parent[r] \in Above(s)
  BY <1>1, AboveCloses
<1>3. r \in Above(e.parent[r])
  BY <1>2, RootOnTop
<1> QED
  BY <1>1, <1>2, <1>3, Zenon DEF Cyclic

\* Two sessions outside circles with a common ancestor have one root.
LEMMA OneRoot ==
  ASSUME IsEdges(find.edges), NEW s \in Ids, NEW t \in Ids, ~Cyclic(s), ~Cyclic(t),
         Above(s) \cap Above(t) # {}
  PROVE  LineageRoot(s, find.edges) = LineageRoot(t, find.edges)
<1> DEFINE e == find.edges
<1>1. PICK x \in Ids : x \in Above(s) /\ x \in Above(t)
  BY AboveIsPath
<1>2. LineageRoot(s, e) \in Above(x) /\ LineageRoot(t, e) \in Above(x)
  BY <1>1, RootOnTop
<1>3. ~Leads(e, LineageRoot(s, e)) /\ ~Leads(e, LineageRoot(t, e))
  BY RootLeadsNowhere
<1>4. PICK q : IsWalk(q, x, e) /\ Above(x) = {q[i] : i \in 1 .. Len(q)}
  BY AboveIsPath
<1>5. \A i \in 1 .. Len(q) : ~Leads(e, q[i]) => i = Len(q)
  BY <1>4 DEF IsWalk
<1> QED
  BY <1>2, <1>3, <1>4, <1>5

(***************************************************************************)
(* The order of the results                                                *)
(***************************************************************************)
\* Of a set of matches each session is there once.
Rankable(S) ==
  /\ IsFiniteSet(S)
  /\ \A x \in S : x.score \in Nat /\ x.id \in Nat
  /\ \A x, y \in S : x.id = y.id => x = y

\* A ranking holds each of a set once, the stronger before the weaker.
LEMMA RankedRead ==
  ASSUME NEW S, Rankable(S)
  PROVE  /\ Ranked(S) \in Seq(S) /\ Len(Ranked(S)) = Cardinality(S)
         /\ ToSet(Ranked(S)) = S
         /\ \A i, j \in 1 .. Len(Ranked(S)) : i < j => Stronger(Ranked(S)[i], Ranked(S)[j])
<1> DEFINE n == Cardinality(S)
           Ahead(x) == {y \in S : Stronger(y, x)}
           place == [x \in S |-> Cardinality(Ahead(x)) + 1]
<1>1. /\ IsFiniteSet(S) /\ n \in Nat
      /\ \A x \in S : x.score \in Nat /\ x.id \in Nat
      /\ \A x, y \in S : x.id = y.id => x = y
  BY FS_CardinalityType DEF Rankable
<1>2. ASSUME NEW x \in S, NEW y \in S
      PROVE  /\ ~Stronger(x, x)
             /\ x = y \/ Stronger(x, y) \/ Stronger(y, x)
             /\ ~(Stronger(x, y) /\ Stronger(y, x))
  BY <1>1 DEF Stronger
<1>3. ASSUME NEW x \in S, NEW y \in S, NEW z \in S, Stronger(x, y), Stronger(y, z)
      PROVE  Stronger(x, z)
  BY <1>1, <1>3 DEF Stronger
<1>4. \A x \in S : IsFiniteSet(Ahead(x)) /\ Cardinality(Ahead(x)) \in Nat
  <2> TAKE x \in S
  <2>1. Ahead(x) \in SUBSET S
    OBVIOUS
  <2> HIDE DEF Ahead
  <2> QED
    BY <1>1, <2>1, FS_Subset, FS_CardinalityType
<1>5. ASSUME NEW x \in S, NEW y \in S, Stronger(x, y) PROVE place[x] < place[y]
  <2>1. Ahead(x) \in SUBSET Ahead(y) /\ x \in Ahead(y) /\ x \notin Ahead(x)
    BY <1>2, <1>3, <1>5
  <2>2. place[x] = Cardinality(Ahead(x)) + 1 /\ place[y] = Cardinality(Ahead(y)) + 1
    OBVIOUS
  <2> HIDE DEF Ahead, place
  <2>3. Cardinality(Ahead(x)) <= Cardinality(Ahead(y))
    BY <1>4, <2>1, FS_Subset
  <2>4. Cardinality(Ahead(x)) # Cardinality(Ahead(y))
    BY <1>4, <2>1, FS_Subset
  <2> QED
    BY <1>4, <2>2, <2>3, <2>4
<1>6. \A x \in S : place[x] \in 1 .. n
  <2> TAKE x \in S
  <2>1. Ahead(x) \in SUBSET S /\ x \notin Ahead(x)
    BY <1>2
  <2>2. place[x] = Cardinality(Ahead(x)) + 1
    OBVIOUS
  <2> HIDE DEF Ahead, place
  <2>3. Cardinality(Ahead(x)) <= n /\ (Cardinality(Ahead(x)) = n => Ahead(x) = S)
    BY <1>1, <2>1, FS_Subset
  <2> QED
    BY <1>1, <1>4, <2>1, <2>2, <2>3
<1>7. place \in Injection(S, 1 .. n)
  <2>1. place \in [S -> 1 .. n]
    BY <1>6
  <2>2. \A x, y \in S : place[x] = place[y] => x = y
    <3> SUFFICES ASSUME NEW x \in S, NEW y \in S, place[x] = place[y] PROVE x = y
      OBVIOUS
    <3> HIDE DEF place, n
    <3>1. place[x] \in Int
      BY <1>6, <1>1
    <3>2. ~(place[x] < place[y]) /\ ~(place[y] < place[x])
      BY <3>1
    <3> QED
      BY <1>2, <1>5, <3>2
  <2> HIDE DEF place, n
  <2> QED
    BY <2>1, <2>2 DEF Injection, IsInjective
<1>8. \A k \in 1 .. n : \E x \in S : place[x] = k
  <2>1. IsFiniteSet(1 .. n) /\ Cardinality(1 .. n) = n
    BY <1>1, FS_Interval
  <2> HIDE DEF place
  <2>2. place \in Surjection(S, 1 .. n)
    BY <1>1, <1>7, <2>1, FS_Injection
  <2> QED
    BY <2>2 DEF Surjection
<1> DEFINE q == Ranked(S)
<1>9. \A k \in 1 .. n : q[k] \in S /\ place[q[k]] = k
  <2> TAKE k \in 1 .. n
  <2>1. q[k] = CHOOSE x \in S : Cardinality(Ahead(x)) = k - 1
    BY DEF Ranked
  <2>2. \E x \in S : Cardinality(Ahead(x)) = k - 1
    <3>1. PICK x \in S : place[x] = k
      BY <1>8
    <3>2. place[x] = Cardinality(Ahead(x)) + 1
      OBVIOUS
    <3> HIDE DEF Ahead, place
    <3> QED
      BY <1>1, <1>4, <3>1, <3>2
  <2> HIDE DEF Ahead, q
  <2>3. q[k] \in S /\ Cardinality(Ahead(q[k])) = k - 1
    BY <2>1, <2>2
  <2>4. place[q[k]] = Cardinality(Ahead(q[k])) + 1
    BY <2>3
  <2> QED
    BY <1>1, <2>3, <2>4
<1>10. q \in Seq(S) /\ Len(q) = n
  <2>1. DOMAIN q = 1 .. n /\ q = [k \in 1 .. n |-> q[k]]
    <3> DEFINE best(k) == CHOOSE x \in S : Cardinality(Ahead(x)) = k - 1
    <3>1. q = [k \in 1 .. n |-> best(k)]
      BY Zenon DEF Ranked
    <3> HIDE DEF q, n, best
    <3> QED
      BY <3>1
  <2> HIDE DEF q, n, place
  <2> QED
    BY <1>1, <1>9, <2>1
<1> HIDE DEF q, n
<1>11. ToSet(q) = S
  <2>1. ToSet(q) = {q[i] : i \in 1 .. n}
    BY <1>10, ToSetRead
  <2>2. \A x \in S : place[x] \in 1 .. n /\ q[place[x]] = x
    <3>1. \A x, y \in S : place[x] = place[y] => x = y
      <4>1. DOMAIN place = S
        OBVIOUS
      <4> HIDE DEF place
      <4> QED
        BY <1>7, <4>1 DEF Injection, IsInjective
    <3> HIDE DEF place
    <3> QED
      BY <1>6, <1>9, <3>1
  <2> HIDE DEF place
  <2> QED
    BY <1>9, <2>1, <2>2
<1>12. ASSUME NEW i \in 1 .. n, NEW j \in 1 .. n, i < j PROVE Stronger(q[i], q[j])
  <2> HIDE DEF place
  <2>1. place[q[i]] < place[q[j]] /\ place[q[i]] \in Int /\ place[q[j]] \in Int
    BY <1>1, <1>9, <1>12
  <2>2. q[i] # q[j] /\ ~Stronger(q[j], q[i])
    <3>1. ~(place[q[j]] < place[q[i]])
      BY <2>1
    <3> QED
      BY <1>5, <1>9, <2>1, <3>1
  <2> QED
    BY <1>2, <1>9, <2>2
<1> QED
  BY <1>10, <1>11, <1>12 DEF q, n

(***************************************************************************)
(* The collapse                                                            *)
(***************************************************************************)
\* The scored sessions: each there once, none stronger than the one before.
InOrder(scored) ==
  /\ scored \in Seq(Found)
  /\ \A i, j \in 1 .. Len(scored) :
       i < j => scored[i].id # scored[j].id /\ scored[i].score >= scored[j].score

\* A result stands for sessions of one lineage, of which the representative was
\* scored first.
IsSlot(r, scored, edges, n) ==
  /\ r.root = LineageRoot(r.id, edges) /\ r.hits = Len(r.related) + 1
  /\ \E k \in 1 .. n :
       /\ r.id = scored[k].id
       /\ \A a \in 1 .. Len(r.related) :
            /\ LineageRoot(r.related[a], edges) = r.root
            /\ \E l \in k + 1 .. n : r.related[a] = scored[l].id
  /\ \A a, b \in 1 .. Len(r.related) : r.related[a] = r.related[b] => a = b

Slots(results, scored, edges, n) ==
  /\ results \in Seq(Result)
  /\ \A i, j \in 1 .. Len(results) : results[i].root = results[j].root => i = j
  /\ \A i \in 1 .. Len(results) : IsSlot(results[i], scored, edges, n)

Covers(results, scored, n) ==
  \A k \in 1 .. n : \E i \in 1 .. Len(results) : scored[k].id \in Members(results[i])

\* What a session becomes that is not of the lineage of an earlier one.
Alone(m, root) ==
  [id |-> m.id, root |-> root, score |-> m.score, hits |-> 1, related |-> <<>>,
   row |-> m.row, snippet |-> Null, ask |-> Null]

LEMMA AloneTyped ==
  ASSUME NEW m \in Found, NEW root \in Ids
  PROVE  Alone(m, root) \in Result
<1>1. m.id \in Ids /\ m.score \in Nat /\ m.row \in Rows
  BY SearchAssumption DEF Found
<1>2. <<>> \in Seq(Ids) /\ 1 \in Nat
  OBVIOUS
<1> DEFINE none == <<>>
<1>3. none \in Seq(Ids) /\ Alone(m, root) =
        [id |-> m.id, root |-> root, score |-> m.score, hits |-> 1, related |-> none,
         row |-> m.row, snippet |-> Null, ask |-> Null]
  BY <1>2 DEF Alone
<1> HIDE DEF none
<1> QED
  BY <1>1, <1>2, <1>3 DEF Result

LEMMA AbsorbTyped ==
  ASSUME NEW m \in Found, NEW r \in Result
  PROVE  /\ Absorb(r, m) \in Result
         /\ Absorb(r, m).id = r.id /\ Absorb(r, m).root = r.root
         /\ Absorb(r, m).hits = r.hits + 1
         /\ Absorb(r, m).related = Append(r.related, m.id)
<1>1. m.score \in Nat /\ m.id \in Ids
  BY SearchAssumption DEF Found
<1>2. m.score \div 10 \in Nat
  BY <1>1
<1>3. /\ r.score \in Nat /\ r.hits \in Nat /\ r.related \in Seq(Ids)
  BY DEF Result
<1>4. r.score + m.score \div 10 \in Nat /\ r.hits + 1 \in Nat
  BY <1>2, <1>3
<1>5. Append(r.related, m.id) \in Seq(Ids)
  BY <1>1, <1>3
<1> QED
  BY <1>4, <1>5 DEF Absorb, Result

\* A session opens a result of its own or is absorbed by the one of its root.
LEMMA CollectRead ==
  ASSUME NEW edges, IsEdges(edges), NEW results \in Seq(Result), NEW m \in Found
  PROVE  LET new == Collect(results, m, edges)
             root == LineageRoot(m.id, edges)
             L == Len(results)
         IN  /\ new \in Seq(Result) /\ root \in Ids
             /\ (\A i \in 1 .. L : results[i].root # root) =>
                  /\ Len(new) = L + 1 /\ new[L + 1] = Alone(m, root)
                  /\ \A i \in 1 .. L : new[i] = results[i]
             /\ (\E i \in 1 .. L : results[i].root = root) =>
                  /\ Len(new) = L
                  /\ \A i \in 1 .. L :
                       new[i] = IF results[i].root = root THEN Absorb(results[i], m)
                                ELSE results[i]
<1> DEFINE new == Collect(results, m, edges)
           root == LineageRoot(m.id, edges)
           L == Len(results)
           at == {i \in DOMAIN results : results[i].root = root}
           absorbed == [i \in DOMAIN results |->
                         IF i \in at THEN Absorb(results[i], m) ELSE results[i]]
<1>1. m.id \in Ids
  BY DEF Found
<1>2. root \in Ids
  BY <1>1, LineageTyped
<1>3. DOMAIN results = 1 .. L /\ L \in Nat
  OBVIOUS
<1>4. new = IF at = {} THEN Append(results, Alone(m, root)) ELSE absorbed
  BY Zenon DEF Collect, Alone
<1>5. \A i \in 1 .. L : i \in at <=> results[i].root = root
  BY <1>3
<1> HIDE DEF root, new
<1>6. CASE \A i \in 1 .. L : results[i].root # root
  <2>1. new = Append(results, Alone(m, root))
    BY <1>3, <1>4, <1>6
  <2> DEFINE one == Alone(m, root)
  <2>2. one \in Result
    BY <1>2, AloneTyped
  <2>3. new = Append(results, one)
    BY <2>1
  <2> HIDE DEF one, at, absorbed
  <2>4. new \in Seq(Result) /\ Len(new) = L + 1
    BY <2>2, <2>3
  <2>5. new[L + 1] = one
    BY <2>2, <2>3
  <2>6. \A i \in 1 .. L : new[i] = results[i]
    BY <2>2, <2>3
  <2>7. ~\E i \in 1 .. L : results[i].root = root
    BY <1>6
  <2> HIDE DEF L
  <2> QED
    BY <1>2, <1>6, <2>4, <2>5, <2>6, <2>7 DEF root, new, one, L
<1>7. CASE \E i \in 1 .. L : results[i].root = root
  <2>1. new = absorbed
    BY <1>4, <1>5, <1>7
  <2>2. \A i \in 1 .. L : new[i] = IF results[i].root = root THEN Absorb(results[i], m)
                                   ELSE results[i]
    BY <1>3, <1>5, <2>1
  <2>3. \A i \in 1 .. L : new[i] \in Result
    BY <2>2, AbsorbTyped
  <2>4. new = [i \in 1 .. L |-> new[i]]
    BY <1>3, <2>1
  <2> HIDE DEF at, L
  <2>5. new \in Seq(Result) /\ Len(new) = L
    BY <1>3, <2>3, <2>4
  <2> QED
    BY <1>2, <1>7, <2>2, <2>5 DEF root, new, L
<1> QED
  BY <1>6, <1>7

LEMMA ScoredRead ==
  ASSUME NEW scored, InOrder(scored), NEW n \in 1 .. Len(scored)
  PROVE  scored[n] \in Found /\ scored[n].id \in Ids /\ Len(scored) \in Nat
<1>1. scored[n] \in Found /\ Len(scored) \in Nat
  BY DEF InOrder
<1> QED
  BY <1>1 DEF Found

\* A slot stays one while more sessions are scored.
LEMMA SlotStays ==
  ASSUME NEW scored, NEW edges, NEW r, NEW n \in Nat, NEW m \in Nat, n <= m,
         IsSlot(r, scored, edges, n)
  PROVE  IsSlot(r, scored, edges, m)
<1>1. PICK k \in 1 .. n :
        /\ r.id = scored[k].id
        /\ \A a \in 1 .. Len(r.related) :
             /\ LineageRoot(r.related[a], edges) = r.root
             /\ \E l \in k + 1 .. n : r.related[a] = scored[l].id
  BY DEF IsSlot
<1>2. k \in 1 .. m /\ \A l \in k + 1 .. n : l \in k + 1 .. m
  OBVIOUS
<1>3. \A a \in 1 .. Len(r.related) :
        /\ LineageRoot(r.related[a], edges) = r.root
        /\ \E l \in k + 1 .. m : r.related[a] = scored[l].id
  BY <1>1, <1>2
<1> QED
  BY <1>1, <1>2, <1>3 DEF IsSlot

\* A result that a session opens is a slot.
LEMMA SlotOpens ==
  ASSUME NEW scored, InOrder(scored), NEW edges, NEW n \in 1 .. Len(scored)
  PROVE  LET one == Alone(scored[n], LineageRoot(scored[n].id, edges))
         IN  IsSlot(one, scored, edges, n) /\ scored[n].id \in Members(one)
<1> DEFINE one == Alone(scored[n], LineageRoot(scored[n].id, edges))
           none == <<>>
<1>1. /\ one.id = scored[n].id /\ one.root = LineageRoot(one.id, edges)
      /\ one.hits = 1 /\ one.related = none
  BY DEF Alone
<1>2. Len(none) = 0
  OBVIOUS
<1> HIDE DEF one, none
<1>3. 1 .. Len(one.related) = {} /\ one.hits = Len(one.related) + 1
  BY <1>1, <1>2
<1>4. n \in 1 .. n /\ n \in Nat
  OBVIOUS
<1>5. one.id \in Members(one)
  BY DEF Members
<1> QED
  BY <1>1, <1>3, <1>4, <1>5 DEF IsSlot, one

\* A slot that absorbs a session of its lineage stays one.
LEMMA SlotAbsorbs ==
  ASSUME NEW scored, InOrder(scored), NEW edges, NEW n \in 1 .. Len(scored),
         NEW r \in Result, IsSlot(r, scored, edges, n - 1),
         r.root = LineageRoot(scored[n].id, edges)
  PROVE  /\ IsSlot(Absorb(r, scored[n]), scored, edges, n)
         /\ Members(Absorb(r, scored[n])) = Members(r) \cup {scored[n].id}
<1> DEFINE m == scored[n]
           s == Absorb(r, m)
           A == Len(r.related)
<1>1. m \in Found /\ m.id \in Ids /\ Len(scored) \in Nat
  BY ScoredRead
<1>2. /\ s.id = r.id /\ s.root = r.root /\ s.hits = r.hits + 1
      /\ s.related = Append(r.related, m.id) /\ s.related \in Seq(Ids)
  <2>1. s \in Result
    BY <1>1, AbsorbTyped
  <2>2. s.related \in Seq(Ids)
    <3> HIDE DEF s
    <3> QED
      BY <2>1 DEF Result
  <2> QED
    BY <1>1, <2>2, AbsorbTyped
<1>3. r.related \in Seq(Ids) /\ A \in Nat
  BY DEF Result
<1>4. /\ Len(s.related) = A + 1 /\ s.related[A + 1] = m.id
      /\ \A a \in 1 .. A : s.related[a] = r.related[a]
  BY <1>1, <1>2, <1>3
<1>5. PICK k \in 1 .. n - 1 :
        /\ r.id = scored[k].id
        /\ \A a \in 1 .. A :
             /\ LineageRoot(r.related[a], edges) = r.root
             /\ \E l \in k + 1 .. n - 1 : r.related[a] = scored[l].id
  BY DEF IsSlot
<1>6. /\ r.root = LineageRoot(r.id, edges) /\ r.hits = A + 1
      /\ \A a, b \in 1 .. A : r.related[a] = r.related[b] => a = b
  BY DEF IsSlot
<1>7. \A l \in 1 .. n - 1 : scored[l].id # m.id
  <2> TAKE l \in 1 .. n - 1
  <2>1. l \in 1 .. Len(scored) /\ l < n
    BY <1>1
  <2> QED
    BY <2>1 DEF InOrder
<1> HIDE DEF s, m, A
<1>8. \A a \in 1 .. A : r.related[a] # m.id
  <2> TAKE a \in 1 .. A
  <2>1. PICK l \in k + 1 .. n - 1 : r.related[a] = scored[l].id
    BY <1>5
  <2>2. l \in 1 .. n - 1
    OBVIOUS
  <2> QED
    BY <1>7, <2>1, <2>2
<1>9. \A a \in 1 .. A + 1 : a \in 1 .. A \/ a = A + 1
  BY <1>3
<1>10. \A a \in 1 .. Len(s.related) :
         /\ LineageRoot(s.related[a], edges) = s.root
         /\ \E l \in k + 1 .. n : s.related[a] = scored[l].id
  <2> TAKE a \in 1 .. Len(s.related)
  <2>1. CASE a = A + 1
    <3>1. s.related[a] = m.id /\ n \in k + 1 .. n
      BY <1>4, <2>1
    <3> QED
      BY <1>2, <3>1 DEF m
  <2>2. CASE a \in 1 .. A
    <3>1. PICK l \in k + 1 .. n - 1 : r.related[a] = scored[l].id
      BY <1>5, <2>2
    <3>2. l \in k + 1 .. n
      OBVIOUS
    <3> QED
      BY <1>2, <1>4, <1>5, <2>2, <3>1, <3>2
  <2> QED
    BY <1>4, <1>9, <2>1, <2>2
<1>11. \A a, b \in 1 .. Len(s.related) : s.related[a] = s.related[b] => a = b
  BY <1>4, <1>6, <1>8, <1>9
<1>12. k \in 1 .. n /\ s.hits = Len(s.related) + 1
  BY <1>2, <1>3, <1>4, <1>6
<1>13. IsSlot(s, scored, edges, n)
  BY <1>2, <1>5, <1>6, <1>10, <1>11, <1>12 DEF IsSlot
<1>14. ToSet(s.related) = ToSet(r.related) \cup {m.id}
  <2>1. /\ ToSet(s.related) = {s.related[a] : a \in 1 .. Len(s.related)}
        /\ ToSet(r.related) = {r.related[a] : a \in 1 .. A}
    BY <1>2, <1>3, ToSetRead DEF A
  <2>2. A + 1 \in 1 .. Len(s.related) /\ \A a \in 1 .. A : a \in 1 .. Len(s.related)
    BY <1>3, <1>4
  <2> QED
    BY <1>4, <1>9, <2>1, <2>2
<1> QED
  BY <1>2, <1>13, <1>14 DEF Members, s, m

\* One more round of the loop.
LEMMA CollectKeeps ==
  ASSUME NEW scored, InOrder(scored), NEW edges, IsEdges(edges), NEW n \in 1 .. Len(scored),
         NEW results, Slots(results, scored, edges, n - 1), Covers(results, scored, n - 1)
  PROVE  LET new == Collect(results, scored[n], edges)
         IN  Slots(new, scored, edges, n) /\ Covers(new, scored, n)
<1> DEFINE m == scored[n]
           new == Collect(results, m, edges)
           root == LineageRoot(m.id, edges)
           one == Alone(m, root)
           L == Len(results)
<1>1. m \in Found /\ m.id \in Ids /\ n - 1 \in Nat /\ n \in Nat
  BY ScoredRead
<1>2. /\ results \in Seq(Result) /\ L \in Nat
      /\ \A i, j \in 1 .. L : results[i].root = results[j].root => i = j
      /\ \A i \in 1 .. L : results[i] \in Result /\ IsSlot(results[i], scored, edges, n - 1)
  BY DEF Slots
<1>3. /\ new \in Seq(Result) /\ root \in Ids
      /\ (\A i \in 1 .. L : results[i].root # root) =>
           /\ Len(new) = L + 1 /\ new[L + 1] = one
           /\ \A i \in 1 .. L : new[i] = results[i]
      /\ (\E i \in 1 .. L : results[i].root = root) =>
           /\ Len(new) = L
           /\ \A i \in 1 .. L :
                new[i] = IF results[i].root = root THEN Absorb(results[i], m) ELSE results[i]
  BY <1>1, <1>2, CollectRead
<1>4. \A i \in 1 .. L : IsSlot(results[i], scored, edges, n)
  BY <1>1, <1>2, SlotStays
<1>5. \A k \in 1 .. n - 1 : \E i \in 1 .. L : scored[k].id \in Members(results[i])
  BY DEF Covers
<1>6. \A k \in 1 .. n : k = n \/ k \in 1 .. n - 1
  OBVIOUS
<1>7. CASE \A i \in 1 .. L : results[i].root # root
  <2>1. IsSlot(one, scored, edges, n) /\ m.id \in Members(one)
    BY SlotOpens
  <2>2. one.root = root
    BY DEF Alone
  <2> HIDE DEF new, one, L, root, m
  <2>3. /\ Len(new) = L + 1 /\ new[L + 1] = one
        /\ \A i \in 1 .. L : new[i] = results[i]
    BY <1>3, <1>7
  <2>4. /\ L + 1 \in 1 .. Len(new) /\ \A i \in 1 .. L : i \in 1 .. Len(new)
        /\ \A i \in 1 .. Len(new) : i \in 1 .. L \/ i = L + 1
    BY <1>2, <2>3
  <2>5. \A i \in 1 .. Len(new) : IsSlot(new[i], scored, edges, n)
    BY <1>4, <2>1, <2>3, <2>4
  <2>6. ASSUME NEW i \in 1 .. Len(new), NEW j \in 1 .. Len(new), new[i].root = new[j].root
        PROVE  i = j
    <3>1. CASE i \in 1 .. L /\ j \in 1 .. L
      BY <1>2, <2>3, <2>6, <3>1
    <3>2. CASE i \in 1 .. L /\ j = L + 1
      BY <1>7, <2>2, <2>3, <2>6, <3>2
    <3>3. CASE i = L + 1 /\ j \in 1 .. L
      BY <1>7, <2>2, <2>3, <2>6, <3>3
    <3> QED
      BY <2>4, <3>1, <3>2, <3>3
  <2>7. \A k \in 1 .. n : \E i \in 1 .. Len(new) : scored[k].id \in Members(new[i])
    <3> TAKE k \in 1 .. n
    <3>1. CASE k = n
      BY <2>1, <2>3, <2>4, <3>1 DEF m
    <3>2. CASE k \in 1 .. n - 1
      BY <1>5, <2>3, <2>4, <3>2
    <3> QED
      BY <1>6, <3>1, <3>2
  <2> QED
    BY <1>3, <2>5, <2>6, <2>7 DEF Slots, Covers, new, m
<1>8. CASE \E i \in 1 .. L : results[i].root = root
  <2> HIDE DEF new, one, L, root
  <2>1. /\ Len(new) = L
        /\ \A i \in 1 .. L :
             new[i] = IF results[i].root = root THEN Absorb(results[i], m) ELSE results[i]
    BY <1>3, <1>8
  <2>2. \A r \in Result : IsSlot(r, scored, edges, n - 1) /\ r.root = root =>
          /\ IsSlot(Absorb(r, m), scored, edges, n)
          /\ Members(Absorb(r, m)) = Members(r) \cup {m.id}
          /\ Absorb(r, m).root = r.root
    <3> SUFFICES ASSUME NEW r \in Result, IsSlot(r, scored, edges, n - 1), r.root = root
                 PROVE  /\ IsSlot(Absorb(r, m), scored, edges, n)
                        /\ Members(Absorb(r, m)) = Members(r) \cup {m.id}
                        /\ Absorb(r, m).root = r.root
      OBVIOUS
    <3>1. Absorb(r, m).root = r.root
      BY <1>1, AbsorbTyped
    <3>2. r.root = LineageRoot(scored[n].id, edges)
      BY DEF root
    <3> HIDE DEF m
    <3>3. /\ IsSlot(Absorb(r, scored[n]), scored, edges, n)
          /\ Members(Absorb(r, scored[n])) = Members(r) \cup {scored[n].id}
      BY <3>2, SlotAbsorbs
    <3> QED
      BY <3>1, <3>3 DEF m
  <2> HIDE DEF m
  <2>3. ASSUME NEW i \in 1 .. L
        PROVE  /\ IsSlot(new[i], scored, edges, n) /\ new[i].root = results[i].root
               /\ Members(results[i]) \subseteq Members(new[i])
               /\ results[i].root = root => m.id \in Members(new[i])
    <3>1. CASE results[i].root = root
      <4>1. new[i] = Absorb(results[i], m)
        BY <2>1, <3>1
      <4> QED
        BY <1>2, <2>2, <3>1, <4>1
    <3>2. CASE results[i].root # root
      <4>1. new[i] = results[i]
        BY <2>1, <3>2
      <4> QED
        BY <1>4, <3>2, <4>1
    <3> QED
      BY <3>1, <3>2
  <2>4. \A i, j \in 1 .. Len(new) : new[i].root = new[j].root => i = j
    BY <1>2, <2>1, <2>3
  <2>5. \A k \in 1 .. n : \E i \in 1 .. Len(new) : scored[k].id \in Members(new[i])
    <3> TAKE k \in 1 .. n
    <3>1. CASE k = n
      BY <1>8, <2>1, <2>3, <3>1 DEF m
    <3>2. CASE k \in 1 .. n - 1
      BY <1>5, <2>1, <2>3, <3>2
    <3> QED
      BY <1>6, <3>1, <3>2
  <2> QED
    BY <1>3, <2>1, <2>3, <2>4, <2>5 DEF Slots, Covers, new, m
<1> QED
  BY <1>7, <1>8

\* The loop finds every scored session its slot.
LEMMA CollapseRead ==
  ASSUME NEW scored, InOrder(scored), NEW edges, IsEdges(edges)
  PROVE  LET results == Collapse(scored, edges)
         IN  Slots(results, scored, edges, Len(scored)) /\ Covers(results, scored, Len(scored))
<1> DEFINE L == Len(scored)
           none == <<>>
           path == CHOOSE results : results = [n \in 0 .. L |->
                     IF n = 0 THEN none ELSE Collect(results[n - 1], scored[n], edges)]
           round == [p \in Seq(Result) \X (1 .. L) |-> Collect(p[1], scored[p[2]], edges)]
           T == {n \in 0 .. L : /\ Slots(path[n], scored, edges, n)
                                /\ Covers(path[n], scored, n)}
<1>1. L \in Nat /\ none \in Seq(Result) /\ Len(none) = 0
  BY DEF InOrder
<1>2. round \in [Seq(Result) \X (1 .. L) -> Seq(Result)]
  <2> SUFFICES ASSUME NEW q \in Seq(Result), NEW n \in 1 .. L
               PROVE  Collect(q, scored[n], edges) \in Seq(Result)
    OBVIOUS
  <2> QED
    BY ScoredRead, CollectRead
<1>3. \A q \in Seq(Result), n \in 1 .. L : round[<<q, n>>] = Collect(q, scored[n], edges)
  OBVIOUS
<1> HIDE DEF round, none, L
<1>4. PICK f \in [0 .. L -> Seq(Result)] : IsLoop(f, L, none, round)
  BY <1>1, <1>2, LoopRuns
<1>5. f = [n \in 0 .. L |-> IF n = 0 THEN none ELSE Collect(f[n - 1], scored[n], edges)]
  <2>1. \A n \in 0 .. L :
          f[n] = IF n = 0 THEN none ELSE Collect(f[n - 1], scored[n], edges)
    <3> TAKE n \in 0 .. L
    <3>1. CASE n = 0
      BY <1>4, <3>1 DEF IsLoop
    <3>2. CASE n # 0
      <4>1. n \in 1 .. L /\ n - 1 \in 0 .. L
        BY <1>1, <3>2
      <4>2. f[n - 1] \in Seq(Result)
        BY <1>4, <4>1
      <4>3. f[n] = round[<<f[n - 1], n>>]
        BY <1>4, <4>1 DEF IsLoop
      <4> QED
        BY <1>3, <3>2, <4>1, <4>2, <4>3
    <3> QED
      BY <3>1, <3>2
  <2>2. f = [n \in 0 .. L |-> f[n]]
    BY <1>4
  <2> QED
    BY <2>1, <2>2, Zenon
<1>6. path = [n \in 0 .. L |-> IF n = 0 THEN none ELSE Collect(path[n - 1], scored[n], edges)]
  BY <1>5, Zenon
<1>7. Collapse(scored, edges) = path[L]
  BY Zenon DEF Collapse, path, L, none
<1> HIDE DEF path
<1>8. 0 \in T
  <2>1. path[0] = none
    BY <1>1, <1>6
  <2>2. 1 .. Len(none) = {} /\ 1 .. 0 = {}
    BY <1>1
  <2>3. Slots(none, scored, edges, 0) /\ Covers(none, scored, 0)
    BY <1>1, <2>2, Zenon DEF Slots, Covers
  <2> QED
    BY <1>1, <2>1, <2>3
<1>9. ASSUME NEW n \in 1 .. L, n - 1 \in T PROVE n \in T
  <2>1. n \in 0 .. L /\ n # 0
    BY <1>1
  <2>2. path[n] = Collect(path[n - 1], scored[n], edges)
    BY <1>6, <2>1
  <2>3. Slots(path[n - 1], scored, edges, n - 1) /\ Covers(path[n - 1], scored, n - 1)
    BY <1>9
  <2>4. Slots(path[n], scored, edges, n) /\ Covers(path[n], scored, n)
    BY <2>2, <2>3, CollectKeeps DEF L
  <2> QED
    BY <2>1, <2>4
<1>10. L \in T
  <2>1. T \subseteq 0 .. L
    OBVIOUS
  <2> HIDE DEF T
  <2>2. T = 0 .. L
    BY <1>1, <1>8, <1>9, <2>1, UpTo
  <2> QED
    BY <1>1, <2>2
<1> QED
  BY <1>7, <1>10 DEF L

\* The second sort and the limit leave slots as they are, and only the limit
\* leaves any out.
LEMMA CutRead ==
  ASSUME NEW scored, NEW edges, NEW n \in Nat, NEW results,
         Slots(results, scored, edges, n), Covers(results, scored, n)
  PROVE  LET cut == Cut(results)
         IN  /\ Slots(cut, scored, edges, n) /\ Len(cut) <= Limit
             /\ Len(cut) < Limit => Covers(cut, scored, n)
<1> DEFINE L == Len(results)
           all == ToSet(results)
           sorted == Ranked(all)
           S == Len(sorted)
           c == Smaller(Limit, S)
           cut == Cut(results)
<1>1. /\ results \in Seq(Result) /\ L \in Nat /\ \A i \in 1 .. L : results[i] \in Result
      /\ \A i, j \in 1 .. L : results[i].root = results[j].root => i = j
      /\ \A i \in 1 .. L : IsSlot(results[i], scored, edges, n)
  BY DEF Slots
<1>2. all = {results[i] : i \in 1 .. L}
  BY <1>1, ToSetRead
<1>3. all \subseteq Result /\ \A x \in all : \E i \in 1 .. L : x = results[i]
  BY <1>1, <1>2
<1> HIDE DEF L
<1>4. \A x, y \in all : x.root = y.root => x = y
  BY <1>1, <1>3
<1>5. Rankable(all)
  <2>1. IsFiniteSet(all)
    BY <1>1, ToSetFinite DEF all
  <2>2. \A x \in all : x.score \in Nat /\ x.id \in Nat
    <3>1. \A x \in Result : x.score \in Nat /\ x.id \in Ids
      BY DEF Result
    <3> QED
      BY <1>3, <3>1, SearchAssumption
  <2>3. \A x \in all : x.root = LineageRoot(x.id, edges)
    BY <1>1, <1>3 DEF IsSlot
  <2>4. \A x, y \in all : x.id = y.id => x = y
    <3> HIDE DEF all
    <3> QED
      BY <1>4, <2>3
  <2> QED
    BY <2>1, <2>2, <2>4 DEF Rankable
<1> HIDE DEF all
<1>6. /\ sorted \in Seq(all) /\ S \in Nat /\ ToSet(sorted) = all
      /\ \A i, j \in 1 .. S : i < j => Stronger(sorted[i], sorted[j])
  BY <1>5, RankedRead
<1>7. all = {sorted[i] : i \in 1 .. S}
  BY <1>6, ToSetRead
<1>8. c \in Nat /\ c <= S /\ c <= Limit /\ (c < Limit => c = S)
  <2>1. Limit \in Nat /\ S \in Nat
    BY <1>6, SearchAssumption
  <2> HIDE DEF S
  <2> QED
    BY <2>1 DEF Smaller
<1>9. cut = SubSeq(sorted, 1, c)
  BY DEF Cut, all
<1> HIDE DEF sorted, c, cut
<1>10. /\ cut \in Seq(all) /\ Len(cut) = c
       /\ \A i \in 1 .. c : i \in 1 .. S /\ cut[i] = sorted[i]
  <2>1. \A i \in 1 .. S : sorted[i] \in all
    BY <1>6
  <2>2. \A i \in 1 .. c : i \in 1 .. S
    BY <1>6, <1>8
  <2>3. SubSeq(sorted, 1, c) = [i \in 1 .. c |-> sorted[i]]
    BY <1>6, <1>8
  <2> QED
    BY <1>8, <1>9, <2>1, <2>2, <2>3
<1>11. cut \in Seq(Result)
  <2>1. \A i \in 1 .. c : cut[i] \in Result
    BY <1>3, <1>10
  <2>2. cut = [i \in 1 .. c |-> cut[i]]
    BY <1>10
  <2> QED
    BY <1>8, <2>1, <2>2
<1>12. \A i \in 1 .. c : cut[i] \in all /\ IsSlot(cut[i], scored, edges, n)
  <2> TAKE i \in 1 .. c
  <2>1. cut[i] \in all
    BY <1>10
  <2> QED
    BY <1>1, <1>3, <2>1
<1>13. ASSUME NEW i \in 1 .. c, NEW j \in 1 .. c, cut[i].root = cut[j].root PROVE i = j
  <2>1. cut[i] = cut[j]
    BY <1>4, <1>12, <1>13
  <2>2. ~Stronger(cut[i], cut[i])
    <3>1. cut[i].score \in Nat /\ cut[i].id \in Nat
      BY <1>5, <1>12 DEF Rankable
    <3> QED
      BY <3>1 DEF Stronger
  <2>3. ~(i < j) /\ ~(j < i)
    <3>1. sorted[i] = cut[i] /\ sorted[j] = cut[i] /\ i \in 1 .. S /\ j \in 1 .. S
      BY <1>10, <2>1
    <3> QED
      BY <1>6, <2>2, <3>1
  <2> QED
    BY <2>3
<1>14. ASSUME c < Limit PROVE Covers(cut, scored, n)
  <2>1. c = S
    BY <1>8, <1>14
  <2> SUFFICES ASSUME NEW k \in 1 .. n
               PROVE  \E i \in 1 .. Len(cut) : scored[k].id \in Members(cut[i])
    BY DEF Covers
  <2>2. PICK a \in 1 .. L : scored[k].id \in Members(results[a])
    BY DEF Covers, L
  <2>3. results[a] \in all
    BY <1>2
  <2>4. PICK i \in 1 .. S : results[a] = sorted[i]
    BY <1>7, <2>3
  <2>5. i \in 1 .. Len(cut) /\ cut[i] = results[a]
    BY <1>10, <2>1, <2>4
  <2> QED
    BY <2>2, <2>5
<1> QED
  BY <1>8, <1>10, <1>11, <1>12, <1>13, <1>14 DEF Slots, cut

(***************************************************************************)
(* What the slots say of the results                                       *)
(***************************************************************************)
LEMMA SlotRead ==
  ASSUME NEW scored, InOrder(scored), NEW edges, NEW r \in Result,
         IsSlot(r, scored, edges, Len(scored))
  PROVE  /\ \A s \in Members(r) : s \in Ids /\ LineageRoot(s, edges) = r.root
         /\ \E k \in 1 .. Len(scored) :
              /\ r.id = scored[k].id
              /\ \A s \in Members(r) : \E l \in k .. Len(scored) : s = scored[l].id
         /\ r.hits = Cardinality(Members(r)) /\ Len(r.related) = r.hits - 1
         /\ r.id \in Members(r)
<1> DEFINE n == Len(scored)
           A == Len(r.related)
           more == ToSet(r.related)
<1>1. PICK k \in 1 .. n :
        /\ r.id = scored[k].id
        /\ \A a \in 1 .. A :
             /\ LineageRoot(r.related[a], edges) = r.root
             /\ \E l \in k + 1 .. n : r.related[a] = scored[l].id
  BY DEF IsSlot
<1>2. /\ r.root = LineageRoot(r.id, edges) /\ r.hits = A + 1
      /\ \A a, b \in 1 .. A : r.related[a] = r.related[b] => a = b
  BY DEF IsSlot
<1>3. r.related \in Seq(Ids) /\ A \in Nat /\ r.id \in Ids
  BY DEF Result
<1>4. n \in Nat /\ \A i, j \in 1 .. n : i < j => scored[i].id # scored[j].id
  BY DEF InOrder
<1>5. Members(r) = {r.id} \cup more
  BY DEF Members
<1>6. more = {r.related[a] : a \in 1 .. A} /\ IsFiniteSet(more) /\ Cardinality(more) = A
  BY <1>2, <1>3, ToSetRead, ToSetFinite
<1> HIDE DEF more, A, n
<1>7. r.id \notin more
  <2> SUFFICES ASSUME NEW a \in 1 .. A, r.id = r.related[a] PROVE FALSE
    BY <1>6
  <2>1. PICK l \in k + 1 .. n : r.related[a] = scored[l].id
    BY <1>1
  <2>2. l \in 1 .. n /\ k < l
    BY <1>4
  <2> QED
    BY <1>1, <1>4, <2>1, <2>2
<1>8. Cardinality(Members(r)) = A + 1
  <2>1. Members(r) = more \cup {r.id}
    BY <1>5
  <2> QED
    BY <1>6, <1>7, <2>1, FS_AddElement
<1>9. \A s \in Members(r) : s = r.id \/ \E a \in 1 .. A : s = r.related[a]
  BY <1>5, <1>6
<1>10. \A s \in Members(r) : s \in Ids /\ LineageRoot(s, edges) = r.root
  BY <1>1, <1>2, <1>3, <1>9 DEF A
<1>11. ASSUME NEW s \in Members(r) PROVE \E l \in k .. n : s = scored[l].id
  <2>1. CASE s = r.id
    <3>1. k \in k .. n
      BY <1>4
    <3> QED
      BY <1>1, <2>1, <3>1
  <2>2. CASE \E a \in 1 .. A : s = r.related[a]
    <3>1. PICK l \in k + 1 .. n : s = scored[l].id
      BY <1>1, <2>2
    <3>2. l \in k .. n
      BY <1>4
    <3> QED
      BY <3>1, <3>2
  <2> QED
    BY <1>9, <2>1, <2>2
<1>12. r.hits = Cardinality(Members(r)) /\ Len(r.related) = r.hits - 1
  BY <1>2, <1>3, <1>8 DEF A
<1> QED
  BY <1>1, <1>5, <1>10, <1>11, <1>12 DEF n

LEMMA ScoreOfRead ==
  ASSUME InOrder(find.scored), NEW i \in 1 .. Len(find.scored)
  PROVE  ScoreOf(find.scored[i].id) = find.scored[i].score
<1> DEFINE s == find.scored[i].id
           n == Len(find.scored)
           best == CHOOSE j \in DOMAIN find.scored : find.scored[j].id = s
<1>1. n \in Nat /\ DOMAIN find.scored = 1 .. n
  BY DEF InOrder
<1>2. ScoreOf(s) = find.scored[best].score
  BY DEF ScoreOf
<1>3. best \in 1 .. n /\ find.scored[best].id = s
  <2>1. \E j \in DOMAIN find.scored : find.scored[j].id = s
    BY <1>1
  <2> QED
    BY <1>1, <2>1
<1> HIDE DEF best
<1>4. best = i
  <2>1. ~(best < i) /\ ~(i < best)
    BY <1>3 DEF InOrder
  <2> QED
    BY <1>3, <2>1
<1> QED
  BY <1>2, <1>4 DEF s

\* What CollapseLineage leaves.
IsCollapsed(scored, edges, results) ==
  /\ Slots(results, scored, edges, Len(scored))
  /\ Len(results) < Limit => Covers(results, scored, Len(scored))

\* Slots partition the matches.
LEMMA PartitionRead ==
  ASSUME InOrder(find.scored), IsCollapsed(find.scored, find.edges, find.results)
  PROVE  MatchesPartitioned
<1> DEFINE e == find.edges
           scored == find.scored
           results == find.results
           n == Len(scored)
           L == Len(results)
<1>1. /\ results \in Seq(Result) /\ DOMAIN results = 1 .. L
      /\ \A i, j \in 1 .. L : results[i].root = results[j].root => i = j
      /\ \A i \in 1 .. L : results[i] \in Result /\ IsSlot(results[i], scored, e, n)
  BY DEF IsCollapsed, Slots
<1>2. /\ n \in Nat /\ DOMAIN scored = 1 .. n
      /\ \A k \in 1 .. n : scored[k] \in Found
      /\ \A i, j \in 1 .. n : i < j => scored[i].score >= scored[j].score
  BY DEF InOrder
<1>3. \A i \in 1 .. L :
        /\ \A s \in Members(results[i]) : LineageRoot(s, e) = results[i].root
        /\ \E k \in 1 .. n :
             /\ results[i].id = scored[k].id
             /\ \A s \in Members(results[i]) : \E l \in k .. n : s = scored[l].id
        /\ results[i].hits = Cardinality(Members(results[i]))
        /\ Len(results[i].related) = results[i].hits - 1
  <2> TAKE i \in 1 .. L
  <2> DEFINE r == results[i]
  <2>1. r \in Result /\ IsSlot(r, scored, e, n)
    BY <1>1
  <2> HIDE DEF r
  <2>2. /\ \A s \in Members(r) : LineageRoot(s, e) = r.root
        /\ \E k \in 1 .. n :
             /\ r.id = scored[k].id
             /\ \A s \in Members(r) : \E l \in k .. n : s = scored[l].id
        /\ r.hits = Cardinality(Members(r))
        /\ Len(r.related) = r.hits - 1
    BY <2>1, SlotRead
  <2> QED
    BY <2>2 DEF r
<1>4. ASSUME NEW i \in 1 .. L, NEW j \in 1 .. L, i # j
      PROVE  Members(results[i]) \cap Members(results[j]) = {}
  <2>1. results[i].root # results[j].root
    BY <1>1, <1>4
  <2>2. /\ \A s \in Members(results[i]) : LineageRoot(s, e) = results[i].root
        /\ \A s \in Members(results[j]) : LineageRoot(s, e) = results[j].root
    BY <1>3
  <2> HIDE DEF results, e
  <2> QED
    BY <2>1, <2>2
<1>5. ASSUME NEW i \in 1 .. L, NEW s \in Members(results[i])
      PROVE  ScoreOf(s) <= ScoreOf(results[i].id)
  <2>1. PICK k \in 1 .. n : /\ results[i].id = scored[k].id
                            /\ \A t \in Members(results[i]) : \E l \in k .. n : t = scored[l].id
    BY <1>3
  <2>2. PICK l \in k .. n : s = scored[l].id
    BY <2>1
  <2>3. l \in 1 .. n /\ (k = l \/ k < l)
    BY <1>2
  <2>4. ScoreOf(s) = scored[l].score /\ ScoreOf(results[i].id) = scored[k].score
    BY <2>1, <2>2, <2>3, ScoreOfRead
  <2>5. scored[l].score \in Nat
    <3>1. scored[l] \in Found
      BY <1>2, <2>3
    <3> QED
      BY <3>1, SearchAssumption DEF Found
  <2>6. scored[k].score >= scored[l].score
    BY <1>2, <2>3, <2>5
  <2> QED
    <3>1. scored[k].score \in Nat
      <4>1. scored[k] \in Found
        BY <1>2
      <4> QED
        BY <4>1, SearchAssumption DEF Found
    <3> HIDE DEF scored
    <3> QED
      BY <2>4, <2>5, <2>6, <3>1
<1>6. ASSUME L < Limit
      PROVE  UNION {Members(results[i]) : i \in DOMAIN results} = Matched
  <2>1. \A k \in 1 .. n : \E i \in 1 .. L : scored[k].id \in Members(results[i])
    BY <1>6 DEF IsCollapsed, Covers
  <2>2. Matched = {scored[k].id : k \in 1 .. n}
    BY <1>2 DEF Matched
  <2>3. \A i \in 1 .. L : \A s \in Members(results[i]) : \E l \in 1 .. n : s = scored[l].id
    <3> TAKE i \in 1 .. L
    <3> TAKE s \in Members(results[i])
    <3>1. PICK k \in 1 .. n : \E l \in k .. n : s = scored[l].id
      BY <1>3
    <3>2. PICK l \in k .. n : s = scored[l].id
      BY <3>1
    <3>3. l \in 1 .. n
      BY <1>2
    <3> QED
      BY <3>2, <3>3
  <2> HIDE DEF results, scored, n, L
  <2> QED
    BY <1>1, <2>1, <2>2, <2>3
<1> QED
  BY <1>1, <1>3, <1>4, <1>5, <1>6 DEF MatchesPartitioned

\* No two results are of one lineage, and each is of one.
LEMMA SlotsApart ==
  ASSUME InOrder(find.scored), IsEdges(find.edges),
         IsCollapsed(find.scored, find.edges, find.results)
  PROVE  LET results == find.results
         IN  /\ \A i, j \in DOMAIN results :
                  i # j /\ ~Cyclic(results[i].id) /\ ~Cyclic(results[j].id)
                    => Above(results[i].id) \cap Above(results[j].id) = {}
             /\ \A i \in DOMAIN results : \A s \in Members(results[i]) :
                  Above(results[i].id) \cap Above(s) # {}
<1> DEFINE e == find.edges
           results == find.results
           L == Len(results)
<1>1. /\ DOMAIN results = 1 .. L
      /\ \A i, j \in 1 .. L : results[i].root = results[j].root => i = j
      /\ \A i \in 1 .. L : results[i] \in Result
           /\ IsSlot(results[i], find.scored, e, Len(find.scored))
  BY DEF IsCollapsed, Slots
<1>2. \A i \in 1 .. L :
        /\ \A s \in Members(results[i]) : s \in Ids /\ LineageRoot(s, e) = results[i].root
        /\ results[i].id \in Members(results[i])
  BY <1>1, SlotRead
<1>3. ASSUME NEW i \in 1 .. L, NEW j \in 1 .. L, i # j,
             ~Cyclic(results[i].id), ~Cyclic(results[j].id)
      PROVE  Above(results[i].id) \cap Above(results[j].id) = {}
  <2>1. LineageRoot(results[i].id, e) # LineageRoot(results[j].id, e)
    BY <1>1, <1>2, <1>3
  <2>2. results[i].id \in Ids /\ results[j].id \in Ids
    BY <1>2
  <2> QED
    BY <1>3, <2>1, <2>2, OneRoot
<1>4. ASSUME NEW i \in 1 .. L, NEW s \in Members(results[i])
      PROVE  Above(results[i].id) \cap Above(s) # {}
  <2>1. LineageRoot(s, e) \in Above(s)
    <3>1. s \in Ids
      BY <1>2
    <3>2. s \in Above(s)
      BY <3>1, AboveIsPath
    <3> QED
      BY <3>1, <3>2, RootOnTop
  <2>2. LineageRoot(results[i].id, e) \in Above(results[i].id)
    <3>1. results[i].id \in Ids
      BY <1>2
    <3>2. results[i].id \in Above(results[i].id)
      BY <3>1, AboveIsPath
    <3> QED
      BY <3>1, <3>2, RootOnTop
  <2>3. LineageRoot(s, e) = LineageRoot(results[i].id, e)
    BY <1>2
  <2> QED
    BY <2>1, <2>2, <2>3
<1> QED
  BY <1>1, <1>3, <1>4

(***************************************************************************)
(* The lineages of the results                                             *)
(***************************************************************************)
LEMMA ConcatRead ==
  ASSUME NEW S, NEW q \in Seq(S), NEW r \in Seq(S)
  PROVE  /\ q \o r \in Seq(S) /\ Len(q \o r) = Len(q) + Len(r)
         /\ ToSet(q \o r) = ToSet(q) \cup ToSet(r)
<1> DEFINE all == q \o r
           L == Len(q)
           M == Len(r)
<1>1. L \in Nat /\ M \in Nat /\ all \in Seq(S) /\ Len(all) = L + M
  OBVIOUS
<1>2. \A i \in 1 .. L : all[i] = q[i]
  OBVIOUS
<1>3. \A i \in 1 .. M : all[L + i] = r[i]
  OBVIOUS
<1>4. /\ ToSet(all) = {all[i] : i \in 1 .. Len(all)}
      /\ ToSet(q) = {q[i] : i \in 1 .. L} /\ ToSet(r) = {r[i] : i \in 1 .. M}
  BY <1>1, ToSetRead
<1> HIDE DEF all, L, M
<1>5. /\ \A i \in 1 .. L : i \in 1 .. Len(all)
      /\ \A i \in 1 .. M : L + i \in 1 .. Len(all)
  BY <1>1
<1>6. \A i \in 1 .. Len(all) : i \in 1 .. L \/ \E j \in 1 .. M : i = L + j
  <2> TAKE i \in 1 .. Len(all)
  <2>1. CASE i <= L
    BY <1>1, <2>1
  <2>2. CASE ~(i <= L)
    <3>1. i - L \in 1 .. M /\ i = L + (i - L)
      BY <1>1, <2>2
    <3> QED
      BY <3>1
  <2> QED
    BY <2>1, <2>2
<1>7. ToSet(all) \subseteq ToSet(q) \cup ToSet(r)
  <2> SUFFICES ASSUME NEW i \in 1 .. Len(all) PROVE all[i] \in ToSet(q) \cup ToSet(r)
    BY <1>4
  <2> QED
    BY <1>2, <1>3, <1>4, <1>6
<1>8. ToSet(q) \subseteq ToSet(all) /\ ToSet(r) \subseteq ToSet(all)
  BY <1>2, <1>3, <1>4, <1>5
<1> QED
  BY <1>1, <1>7, <1>8 DEF all, L, M

\* Sequences laid end to end hold what each of them holds.
LEMMA FlattenRead ==
  ASSUME NEW S, NEW seqs \in Seq(Seq(S)), Len(seqs) # 0
  PROVE  /\ FlattenSeq(seqs) \in Seq(S)
         /\ ToSet(FlattenSeq(seqs)) = UNION {ToSet(seqs[i]) : i \in 1 .. Len(seqs)}
<1> DEFINE L == Len(seqs)
           flat == CHOOSE f : f = [i \in 1 .. L |-> IF i = 1 THEN seqs[i] ELSE f[i - 1] \o seqs[i]]
           none == seqs[1]
           round == [p \in Seq(S) \X (1 .. L) |->
                      IF p[2] = 1 THEN seqs[p[2]] ELSE p[1] \o seqs[p[2]]]
           Upto(n) == UNION {ToSet(seqs[i]) : i \in 1 .. n}
           T == {n \in 0 .. L : n = 0 \/ (flat[n] \in Seq(S) /\ ToSet(flat[n]) = Upto(n))}
<1>1. L \in Nat /\ L # 0 /\ 1 \in 1 .. L /\ none \in Seq(S) /\ \A i \in 1 .. L : seqs[i] \in Seq(S)
  OBVIOUS
<1>2. round \in [Seq(S) \X (1 .. L) -> Seq(S)]
  <2> SUFFICES ASSUME NEW q \in Seq(S), NEW n \in 1 .. L
               PROVE  (IF n = 1 THEN seqs[n] ELSE q \o seqs[n]) \in Seq(S)
    OBVIOUS
  <2> QED
    BY <1>1, ConcatRead
<1>3. \A q \in Seq(S), n \in 1 .. L :
        round[<<q, n>>] = IF n = 1 THEN seqs[n] ELSE q \o seqs[n]
  OBVIOUS
<1>4. FlattenSeq(seqs) = flat[L]
  BY <1>1, Zenon DEF FlattenSeq
<1> HIDE DEF round, none, L
<1>5. PICK g \in [0 .. L -> Seq(S)] : IsLoop(g, L, none, round)
  BY <1>1, <1>2, LoopRuns
<1> DEFINE f == [i \in 1 .. L |-> g[i]]
<1>6. \A i \in 1 .. L : f[i] = IF i = 1 THEN seqs[i] ELSE f[i - 1] \o seqs[i]
  <2> TAKE i \in 1 .. L
  <2>1. i - 1 \in 0 .. L /\ (i # 1 => i - 1 \in 1 .. L)
    BY <1>1
  <2>2. g[i - 1] \in Seq(S) /\ g[i] = round[<<g[i - 1], i>>]
    BY <1>5, <2>1 DEF IsLoop
  <2>3. g[i] = IF i = 1 THEN seqs[i] ELSE g[i - 1] \o seqs[i]
    BY <1>3, <2>2
  <2>4. f[i] = g[i] /\ (i # 1 => f[i - 1] = g[i - 1])
    BY <2>1
  <2> QED
    BY <2>3, <2>4
<1>7. f = [i \in 1 .. L |-> f[i]]
  OBVIOUS
<1> HIDE DEF f
<1>8. f = [i \in 1 .. L |-> IF i = 1 THEN seqs[i] ELSE f[i - 1] \o seqs[i]]
  BY <1>6, <1>7, Zenon
<1>9. flat = [i \in 1 .. L |-> IF i = 1 THEN seqs[i] ELSE flat[i - 1] \o seqs[i]]
  BY <1>8, Zenon
<1> HIDE DEF flat
<1>10. ASSUME NEW n \in 1 .. L, n - 1 \in T PROVE n \in T
  <2>1. flat[n] = IF n = 1 THEN seqs[n] ELSE flat[n - 1] \o seqs[n]
    BY <1>9
  <2>2. CASE n = 1
    <3>1. flat[n] = seqs[n] /\ 1 .. n = {n}
      BY <2>1, <2>2
    <3>2. Upto(n) = ToSet(seqs[n])
      BY <3>1
    <3> HIDE DEF Upto
    <3> QED
      BY <1>1, <3>1, <3>2
  <2>3. CASE n # 1
    <3>1. n - 1 # 0 /\ n \in 0 .. L
      BY <1>1, <2>3
    <3>2. flat[n - 1] \in Seq(S) /\ ToSet(flat[n - 1]) = Upto(n - 1)
      BY <1>10, <3>1
    <3>3. flat[n] = flat[n - 1] \o seqs[n]
      BY <2>1, <2>3
    <3>4. 1 .. n = (1 .. n - 1) \cup {n}
      BY <1>1
    <3>5. Upto(n) = Upto(n - 1) \cup ToSet(seqs[n])
      BY <3>4
    <3> HIDE DEF Upto
    <3>6. flat[n] \in Seq(S) /\ ToSet(flat[n]) = ToSet(flat[n - 1]) \cup ToSet(seqs[n])
      BY <1>1, <3>2, <3>3, ConcatRead
    <3> QED
      BY <3>1, <3>2, <3>5, <3>6
  <2> QED
    BY <2>2, <2>3
<1>11. L \in T
  <2>1. T \subseteq 0 .. L /\ 0 \in T
    BY <1>1
  <2> HIDE DEF T
  <2>2. T = 0 .. L
    BY <1>1, <1>10, <2>1, UpTo
  <2> QED
    BY <1>1, <2>2
<1> QED
  BY <1>1, <1>4, <1>11 DEF L

\* The members of a result and their ancestors.
LineageOf(r, edges) == Members(r) \cup UNION {ToSet(LineagePath(s, edges)) : s \in Members(r)}

LEMMA MembersRead ==
  ASSUME NEW r \in Result
  PROVE  LET all == <<r.id>> \o r.related
         IN  /\ all \in Seq(Ids) /\ Len(all) = 1 + Len(r.related) /\ ToSet(all) = Members(r)
             /\ Members(r) \subseteq Ids /\ r.id \in Members(r)
<1> DEFINE own == <<r.id>>
           related == r.related
           all == own \o related
<1>1. r.id \in Ids /\ related \in Seq(Ids)
  BY DEF Result
<1>2. own \in Seq(Ids) /\ Len(own) = 1 /\ ToSet(own) = {r.id}
  <2>1. own \in Seq(Ids) /\ Len(own) = 1 /\ own[1] = r.id
    BY <1>1
  <2>2. ToSet(own) = {own[i] : i \in 1 .. Len(own)}
    BY <2>1, ToSetRead
  <2>3. 1 .. Len(own) = {1}
    BY <2>1
  <2> HIDE DEF own
  <2> QED
    BY <2>1, <2>2, <2>3
<1> HIDE DEF own
<1>3. all \in Seq(Ids) /\ ToSet(all) = ToSet(own) \cup ToSet(related)
  BY <1>1, <1>2, ConcatRead
<1>4. Len(all) = 1 + Len(related)
  <2>1. Len(all) = Len(own) + Len(related)
    BY <1>1, <1>2, ConcatRead
  <2> QED
    BY <1>2, <2>1
<1>5. Members(r) = {r.id} \cup ToSet(related)
  BY DEF Members
<1>6. ToSet(related) \subseteq Ids
  <2>1. ToSet(related) = {related[i] : i \in 1 .. Len(related)}
    BY <1>1, ToSetRead
  <2> QED
    BY <1>1, <2>1
<1> QED
  BY <1>1, <1>2, <1>3, <1>4, <1>5, <1>6 DEF own

\* A result and its ancestors are its lineage.
LEMMA AncestorsRead ==
  ASSUME NEW edges, IsEdges(edges), NEW r \in Result
  PROVE  /\ Ancestors(r, edges) \in Seq(Ids)
         /\ ToSet(Ancestors(r, edges)) =
              UNION {ToSet(LineagePath(s, edges)) : s \in Members(r)}
         /\ LineageOf(r, edges) = Members(r) \cup ToSet(Ancestors(r, edges))
         /\ LineageOf(r, edges) \subseteq Ids
<1> DEFINE all == <<r.id>> \o r.related
           N == 1 + Len(r.related)
           paths == [i \in 1 .. N |-> LineagePath(all[i], edges)]
<1>1. /\ all \in Seq(Ids) /\ Len(all) = N /\ ToSet(all) = Members(r)
      /\ Members(r) \subseteq Ids
  BY MembersRead
<1>2. Ancestors(r, edges) = FlattenSeq(paths)
  BY Zenon DEF Ancestors
<1>3. N \in Nat /\ N # 0
  <2>1. r.related \in Seq(Ids)
    BY DEF Result
  <2> QED
    BY <2>1
<1> HIDE DEF all, N
<1>4. \A i \in 1 .. N : all[i] \in Ids
  BY <1>1
<1>5. Members(r) = {all[i] : i \in 1 .. N}
  BY <1>1, ToSetRead
<1>6. paths \in Seq(Seq(Ids)) /\ Len(paths) = N
      /\ \A i \in 1 .. N : paths[i] = LineagePath(all[i], edges)
  <2>1. \A i \in 1 .. N : LineagePath(all[i], edges) \in Seq(Ids)
    BY <1>4, LineageTyped
  <2> QED
    BY <1>3, <2>1
<1> HIDE DEF paths
<1>7. /\ FlattenSeq(paths) \in Seq(Ids)
      /\ ToSet(FlattenSeq(paths)) = UNION {ToSet(paths[i]) : i \in 1 .. Len(paths)}
  BY <1>3, <1>6, FlattenRead
<1>8. UNION {ToSet(paths[i]) : i \in 1 .. Len(paths)} =
        UNION {ToSet(LineagePath(s, edges)) : s \in Members(r)}
  <2> DEFINE P(s) == ToSet(LineagePath(s, edges))
  <2>1. \A i \in 1 .. N : ToSet(paths[i]) = P(all[i])
    BY <1>6
  <2> HIDE DEF P
  <2>2. UNION {ToSet(paths[i]) : i \in 1 .. N} = UNION {P(s) : s \in Members(r)}
    BY <1>5, <2>1
  <2> QED
    BY <1>6, <2>2 DEF P
<1>9. ToSet(FlattenSeq(paths)) \subseteq Ids
  <2> DEFINE q == FlattenSeq(paths)
  <2>1. q \in Seq(Ids) /\ ToSet(q) = {q[i] : i \in 1 .. Len(q)}
    BY <1>7, ToSetRead
  <2> HIDE DEF q
  <2>2. ToSet(q) \subseteq Ids
    BY <2>1
  <2> QED
    BY <2>2 DEF q
<1> QED
  BY <1>1, <1>2, <1>7, <1>8, <1>9 DEF LineageOf

(***************************************************************************)
(* The context query                                                       *)
(***************************************************************************)
\* The members are asked for whatever the limit; the ancestors too, if all of a
\* set that holds everything wanted is within it.
LEMMA WantedRead ==
  ASSUME NEW edges, IsEdges(edges), NEW r \in Result, NEW ids \in SUBSET Ids,
         NEW most \in SUBSET Ids, ids \cup LineageOf(r, edges) \subseteq most
  PROVE  LET wanted == Wanted(ids, r, edges)
         IN  /\ ids \cup Members(r) \subseteq wanted /\ wanted \subseteq most
             /\ Cardinality(most) <= ContextLimit => LineageOf(r, edges) \subseteq wanted
<1> DEFINE up == Ancestors(r, edges)
           L == Len(up)
           start == ids \cup {r.id} \cup ToSet(r.related)
           Step(K, n) == IF Cardinality(K) >= ContextLimit THEN K ELSE K \cup {up[n]}
           known == CHOOSE f : f = [n \in 0 .. L |->
                      IF n = 0 THEN start
                      ELSE IF Cardinality(f[n - 1]) >= ContextLimit THEN f[n - 1]
                      ELSE f[n - 1] \cup {up[n]}]
           round == [p \in (SUBSET most) \X (1 .. L) |-> Step(p[1], p[2])]
           Got(K, n) == /\ start \subseteq K /\ K \subseteq most
                        /\ Cardinality(most) <= ContextLimit => \A i \in 1 .. n : up[i] \in K
           T == {n \in 0 .. L : Got(known[n], n)}
<1>1. /\ up \in Seq(Ids) /\ L \in Nat /\ ToSet(up) = {up[i] : i \in 1 .. L}
      /\ LineageOf(r, edges) = Members(r) \cup ToSet(up)
  BY AncestorsRead, ToSetRead
<1>2. start = ids \cup Members(r)
  BY DEF Members
<1>3. Wanted(ids, r, edges) = known[L]
  BY Zenon DEF Wanted
<1> HIDE DEF up, L, start, known
<1>4. start \subseteq most /\ \A i \in 1 .. L : up[i] \in most
  BY <1>1, <1>2
<1>5. \A K \in SUBSET most : \A n \in 1 .. L : Step(K, n) \in SUBSET most
  BY <1>4
<1>6. round \in [(SUBSET most) \X (1 .. L) -> SUBSET most]
      /\ \A K \in SUBSET most : \A n \in 1 .. L : round[<<K, n>>] = Step(K, n)
  <2> HIDE DEF Step
  <2> QED
    BY <1>5
<1> HIDE DEF round
<1>7. PICK f \in [0 .. L -> SUBSET most] : IsLoop(f, L, start, round)
  BY <1>1, <1>4, <1>6, LoopRuns
<1>8. \A n \in 0 .. L : f[n] = IF n = 0 THEN start
                               ELSE IF Cardinality(f[n - 1]) >= ContextLimit THEN f[n - 1]
                               ELSE f[n - 1] \cup {up[n]}
  <2> TAKE n \in 0 .. L
  <2>1. CASE n = 0
    BY <1>7, <2>1 DEF IsLoop
  <2>2. CASE n # 0
    <3>1. n \in 1 .. L /\ n - 1 \in 0 .. L
      BY <1>1, <2>2
    <3>2. f[n - 1] \in SUBSET most /\ f[n] = round[<<f[n - 1], n>>]
      BY <1>7, <3>1 DEF IsLoop
    <3>3. f[n] = Step(f[n - 1], n)
      <4> HIDE DEF Step
      <4> QED
        BY <1>6, <3>1, <3>2
    <3> QED
      BY <2>2, <3>3
  <2> QED
    BY <2>1, <2>2
<1>9. f = [n \in 0 .. L |-> f[n]]
  BY <1>7
<1>10. f = [n \in 0 .. L |-> IF n = 0 THEN start
                             ELSE IF Cardinality(f[n - 1]) >= ContextLimit THEN f[n - 1]
                             ELSE f[n - 1] \cup {up[n]}]
  BY <1>8, <1>9, Zenon
<1>11. known = [n \in 0 .. L |-> IF n = 0 THEN start
                                 ELSE IF Cardinality(known[n - 1]) >= ContextLimit
                                   THEN known[n - 1]
                                 ELSE known[n - 1] \cup {up[n]}]
  BY <1>10, Zenon DEF known
<1>12. 0 \in T
  <2>1. known[0] = start /\ 1 .. 0 = {}
    BY <1>1, <1>11
  <2> QED
    BY <1>1, <1>4, <2>1
<1>13. ASSUME NEW n \in 1 .. L, n - 1 \in T PROVE n \in T
  <2>1. n \in 0 .. L /\ n # 0 /\ \A i \in 1 .. n : i = n \/ i \in 1 .. n - 1
    BY <1>1
  <2> DEFINE K == known[n - 1]
  <2>2. known[n] = Step(K, n)
    BY <1>11, <2>1
  <2>3. Got(K, n - 1)
    BY <1>13
  <2> HIDE DEF K
  <2>4. CASE Cardinality(K) >= ContextLimit
    <3>1. known[n] = K
      BY <2>2, <2>4
    <3>2. ASSUME Cardinality(most) <= ContextLimit PROVE K = most
      <4>1. IsFiniteSet(most) /\ IsFiniteSet(K)
        BY <2>3, FS_Subset, SearchAssumption
      <4>2. Cardinality(K) <= Cardinality(most)
            /\ (Cardinality(most) = Cardinality(K) => most = K)
        BY <2>3, <4>1, FS_Subset
      <4>3. Cardinality(most) \in Nat /\ Cardinality(K) \in Nat /\ ContextLimit \in Nat
        BY <4>1, FS_CardinalityType, SearchAssumption
      <4> QED
        BY <2>4, <3>2, <4>2, <4>3
    <3>3. Cardinality(most) <= ContextLimit => \A i \in 1 .. n : up[i] \in K
      <4>1. \A i \in 1 .. n : i \in 1 .. L
        BY <1>1
      <4> QED
        BY <1>4, <3>2, <4>1
    <3> QED
      BY <2>1, <2>3, <3>1, <3>3
  <2>5. CASE ~(Cardinality(K) >= ContextLimit)
    <3>1. known[n] = K \cup {up[n]}
      BY <2>2, <2>5
    <3> QED
      BY <1>4, <2>1, <2>3, <3>1
  <2> QED
    BY <2>4, <2>5
<1>14. L \in T
  <2>1. T \subseteq 0 .. L
    OBVIOUS
  <2> HIDE DEF T
  <2>2. T = 0 .. L
    BY <1>1, <1>12, <1>13, <2>1, UpTo
  <2> QED
    BY <1>1, <2>2
<1>15. Got(known[L], L)
  BY <1>14
<1> QED
  BY <1>1, <1>2, <1>3, <1>15

AllLineages(results, edges) == UNION {LineageOf(results[i], edges) : i \in 1 .. Len(results)}

\* The context query asks for every member of a result, and for whole lineages
\* when all of them are few enough.
LEMMA ContextRead ==
  ASSUME NEW edges, IsEdges(edges), NEW results \in Seq(Result)
  PROVE  /\ \A i \in 1 .. Len(results) : Members(results[i]) \subseteq ContextIds(results, edges)
         /\ Cardinality(AllLineages(results, edges)) <= ContextLimit =>
              \A i \in 1 .. Len(results) :
                LineageOf(results[i], edges) \subseteq ContextIds(results, edges)
<1> DEFINE L == Len(results)
           most == AllLineages(results, edges)
           none == {}
           ids == CHOOSE f : f = [n \in 0 .. L |->
                    IF n = 0 THEN none ELSE Wanted(f[n - 1], results[n], edges)]
           round == [p \in (SUBSET most) \X (1 .. L) |-> Wanted(p[1], results[p[2]], edges)]
           Got(K, n) == /\ K \subseteq most
                        /\ \A i \in 1 .. n : Members(results[i]) \subseteq K
                        /\ Cardinality(most) <= ContextLimit =>
                             \A i \in 1 .. n : LineageOf(results[i], edges) \subseteq K
           T == {n \in 0 .. L : Got(ids[n], n)}
<1>1. L \in Nat /\ \A i \in 1 .. L : results[i] \in Result
  OBVIOUS
<1>2. \A i \in 1 .. L : LineageOf(results[i], edges) \subseteq Ids
  BY <1>1, AncestorsRead
<1>3. most \subseteq Ids /\ \A i \in 1 .. L : LineageOf(results[i], edges) \subseteq most
  BY <1>2 DEF AllLineages
<1>4. ContextIds(results, edges) = ids[L]
  BY Zenon DEF ContextIds
<1> HIDE DEF L, most, none, ids
<1>5. ASSUME NEW K \in SUBSET most, NEW n \in 1 .. L
      PROVE  LET wanted == Wanted(K, results[n], edges)
             IN  /\ K \cup Members(results[n]) \subseteq wanted /\ wanted \subseteq most
                 /\ Cardinality(most) <= ContextLimit =>
                      LineageOf(results[n], edges) \subseteq wanted
  <2>1. /\ K \in SUBSET Ids /\ most \in SUBSET Ids /\ results[n] \in Result
        /\ K \cup LineageOf(results[n], edges) \subseteq most
    BY <1>1, <1>3
  <2> QED
    BY <2>1, WantedRead
<1>6. /\ none \in SUBSET most
      /\ round \in [(SUBSET most) \X (1 .. L) -> SUBSET most]
      /\ \A K \in SUBSET most : \A n \in 1 .. L :
           round[<<K, n>>] = Wanted(K, results[n], edges)
  <2>1. \A K \in SUBSET most : \A n \in 1 .. L :
          Wanted(K, results[n], edges) \in SUBSET most
    BY <1>5
  <2> QED
    BY <2>1 DEF none
<1> HIDE DEF round
<1>7. PICK f \in [0 .. L -> SUBSET most] : IsLoop(f, L, none, round)
  BY <1>1, <1>6, LoopRuns
<1>8. \A n \in 0 .. L : f[n] = IF n = 0 THEN none ELSE Wanted(f[n - 1], results[n], edges)
  <2> TAKE n \in 0 .. L
  <2>1. CASE n = 0
    BY <1>7, <2>1 DEF IsLoop
  <2>2. CASE n # 0
    <3>1. n \in 1 .. L /\ n - 1 \in 0 .. L
      BY <1>1, <2>2
    <3>2. f[n - 1] \in SUBSET most /\ f[n] = round[<<f[n - 1], n>>]
      BY <1>7, <3>1 DEF IsLoop
    <3> QED
      BY <1>6, <2>2, <3>1, <3>2
  <2> QED
    BY <2>1, <2>2
<1>9. f = [n \in 0 .. L |-> f[n]]
  BY <1>7
<1>10. f = [n \in 0 .. L |-> IF n = 0 THEN none ELSE Wanted(f[n - 1], results[n], edges)]
  BY <1>8, <1>9, Zenon
<1>11. ids = [n \in 0 .. L |-> IF n = 0 THEN none ELSE Wanted(ids[n - 1], results[n], edges)]
  BY <1>10, Zenon DEF ids
<1>12. 0 \in T
  <2>1. ids[0] = none /\ 1 .. 0 = {}
    BY <1>1, <1>11
  <2> QED
    BY <1>1, <1>6, <2>1
<1>13. ASSUME NEW n \in 1 .. L, n - 1 \in T PROVE n \in T
  <2>1. n \in 0 .. L /\ n # 0 /\ \A i \in 1 .. n : i = n \/ i \in 1 .. n - 1
    BY <1>1
  <2> DEFINE K == ids[n - 1]
             W == ids[n]
  <2>2. W = Wanted(K, results[n], edges) /\ Got(K, n - 1)
    BY <1>11, <1>13, <2>1
  <2> HIDE DEF K, W
  <2>3. /\ K \cup Members(results[n]) \subseteq W /\ W \subseteq most
        /\ Cardinality(most) <= ContextLimit => LineageOf(results[n], edges) \subseteq W
    BY <1>5, <2>2
  <2>4. Got(W, n)
    BY <2>1, <2>2, <2>3
  <2> QED
    BY <2>1, <2>4 DEF W
<1>14. L \in T
  <2>1. T \subseteq 0 .. L
    OBVIOUS
  <2> HIDE DEF T
  <2>2. T = 0 .. L
    BY <1>1, <1>12, <1>13, <2>1, UpTo
  <2> QED
    BY <1>1, <2>2
<1>15. Got(ids[L], L)
  BY <1>14
<1> QED
  BY <1>4, <1>15 DEF L, most

\* The first with an answer has one, and there is one if any has.
LEMMA FirstOfRead ==
  ASSUME NEW ids \in Seq(Ids), NEW answers
  PROVE  LET first == FirstOf(ids, answers)
         IN  IF ToSet(ids) \cap answers = {} THEN first = Null
             ELSE first \in ToSet(ids) \cap answers
<1> DEFINE L == Len(ids)
           first == FirstOf(ids, answers)
           Hits(i) == ids[i] \in answers
           least == CHOOSE i \in DOMAIN ids :
                      ids[i] \in answers /\ \A j \in 1 .. i - 1 : ids[j] \notin answers
<1>1. DOMAIN ids = 1 .. L /\ L \in Nat /\ ToSet(ids) = {ids[i] : i \in 1 .. L}
  BY ToSetRead
<1>2. first = IF \E i \in DOMAIN ids : ids[i] \in answers THEN ids[least] ELSE Null
  BY Zenon DEF FirstOf
<1>3. (\E i \in DOMAIN ids : ids[i] \in answers) <=> ToSet(ids) \cap answers # {}
  BY <1>1
<1>4. ASSUME \E i \in 1 .. L : Hits(i) PROVE least \in 1 .. L /\ ids[least] \in answers
  <2> DEFINE T == {n \in 0 .. L : \A j \in 1 .. n : ~Hits(j)}
  <2>1. \E i \in 1 .. L : Hits(i) /\ \A j \in 1 .. i - 1 : ~Hits(j)
    <3> SUFFICES ASSUME \A i \in 1 .. L : Hits(i) => \E j \in 1 .. i - 1 : Hits(j)
                 PROVE  FALSE
      OBVIOUS
    <3> HIDE DEF Hits
    <3>1. 0 \in T /\ T \subseteq 0 .. L
      BY <1>1
    <3>2. ASSUME NEW n \in 1 .. L, n - 1 \in T PROVE n \in T
      <4>1. ~Hits(n) /\ n \in 0 .. L
        BY <1>1, <3>2
      <4>2. \A j \in 1 .. n : j = n \/ j \in 1 .. n - 1
        BY <1>1
      <4> QED
        BY <3>2, <4>1, <4>2
    <3> HIDE DEF T
    <3>3. T = 0 .. L
      BY <1>1, <3>1, <3>2, UpTo
    <3>4. L \in T
      BY <1>1, <3>3
    <3> QED
      BY <1>4, <3>4 DEF T
  <2>2. \E i \in DOMAIN ids : ids[i] \in answers /\ \A j \in 1 .. i - 1 : ids[j] \notin answers
    BY <1>1, <2>1
  <2>3. least \in DOMAIN ids /\ ids[least] \in answers
    BY <2>2
  <2> QED
    BY <1>1, <2>3
<1> HIDE DEF least
<1>5. CASE ToSet(ids) \cap answers = {}
  BY <1>2, <1>3, <1>5
<1>6. CASE ToSet(ids) \cap answers # {}
  <2>1. first = ids[least] /\ \E i \in 1 .. L : Hits(i)
    BY <1>1, <1>2, <1>3, <1>6
  <2>2. least \in 1 .. L /\ ids[least] \in answers
    BY <1>4, <2>1
  <2> QED
    BY <1>1, <1>6, <2>1, <2>2
<1> QED
  BY <1>5, <1>6

(***************************************************************************)
(* The search                                                              *)
(***************************************************************************)
\* No two rows are of one session.
EventsApart(events) ==
  \A i, j \in Rows :
    events[i] # Null /\ events[j] # Null /\ events[i].of = events[j].of => i = j

\* The request of a result is of its lineage, and missing only if nothing that
\* was asked for has one; of all lineages, if they are few enough.
Answered(r, edges, asked, read) ==
  IF r.ask # Null
    THEN r.ask \in LineageOf(r, edges) \cap asked
    ELSE /\ Members(r) \cap asked = {}
         /\ Cardinality(read) <= ContextLimit => LineageOf(r, edges) \cap asked = {}

AllAnswered(results, edges, asked) ==
  /\ IsEdges(edges)
  /\ \A i \in 1 .. Len(results) :
       Answered(results[i], edges, asked, AllLineages(results, edges))

SearchShape ==
  /\ DOMAIN find = {"at", "scored", "asked", "edges", "results"}
  /\ DOMAIN db = {"archived", "parent", "events"}

SearchInv ==
  /\ SearchTypeOK
  /\ SearchShape
  /\ EventsApart(db.events)
  /\ At("idle") => find = Idle
  /\ InOrder(find.scored)
  /\ At("collapsed") =>
       IsEdges(find.edges) /\ IsCollapsed(find.scored, find.edges, find.results)
  /\ At("presented") => IsEdges(find.edges)
  /\ At("done") =>
       find.results = <<>> \/ AllAnswered(find.results, find.edges, find.asked)

LEMMA RowsFinite == IsFiniteSet(Rows) /\ Rows \subseteq Nat
<1>1. Cardinality(Ids) \in Nat /\ MaxWrites \in Nat
  BY SearchAssumption, FS_CardinalityType
<1> DEFINE n == Cardinality(Ids) + MaxWrites
<1>2. n \in Nat /\ Rows = 1 .. n
  BY <1>1 DEF Rows
<1> HIDE DEF n
<1> QED
  BY <1>2, FS_Interval

LEMMA SearchStarts == SearchInit => SearchInv
<1> SUFFICES ASSUME SearchInit PROVE SearchInv
  OBVIOUS
<1>1. PICK archived \in SUBSET Ids, parent \in [Ids -> Ids \cup {Null}] :
      \E hits \in SUBSET archived :
        db = [archived |-> archived, parent |-> parent,
              events |-> [i \in Rows |-> IF i \in archived
                            THEN [of |-> i, text |-> 0, hit |-> i \in hits] ELSE Null]]
  BY DEF SearchInit
<1>2. PICK hits \in SUBSET archived :
        db = [archived |-> archived, parent |-> parent,
              events |-> [i \in Rows |-> IF i \in archived
                            THEN [of |-> i, text |-> 0, hit |-> i \in hits] ELSE Null]]
  BY <1>1
<1> DEFINE none == <<>>
           no == [known |-> {}, parent |-> none]
<1>3. /\ find = [at |-> "idle", scored |-> none, asked |-> {}, edges |-> no, results |-> none]
      /\ find = Idle /\ writes = 0
  BY DEF SearchInit, Idle
<1>4. none \in Seq(Found) /\ none \in Seq(Result) /\ Len(none) = 0
  OBVIOUS
<1>5. MaxWrites \in Nat /\ Limit \in Nat /\ Null \notin Nat
  BY SearchAssumption
<1>6. \A i \in Rows : i \in archived =>
        /\ [of |-> i, text |-> 0, hit |-> i \in hits] \in Event
        /\ [of |-> i, text |-> 0, hit |-> i \in hits].of = i
  BY <1>5 DEF Event, Texts
<1> DEFINE event(i) == [of |-> i, text |-> 0, hit |-> i \in hits]
<1>7. /\ db.archived = archived /\ db.parent = parent
      /\ db.events = [i \in Rows |-> IF i \in archived THEN event(i) ELSE Null]
      /\ DOMAIN db = {"archived", "parent", "events"}
  BY <1>2
<1>8. \A i \in Rows : i \in archived => event(i) \in Event /\ event(i).of = i
  BY <1>6
<1> HIDE DEF none, no, event
<1>9. db.events \in [Rows -> Event \cup {Null}] /\ EventsApart(db.events)
  BY <1>7, <1>8 DEF EventsApart
<1>10. /\ find.at = "idle" /\ find.scored = none /\ find.asked = {} /\ find.edges = no
       /\ find.results = none /\ DOMAIN find = {"at", "scored", "asked", "edges", "results"}
  BY <1>3
<1>11. no.known = {}
  BY DEF no
<1>12. SearchTypeOK
  BY <1>3, <1>4, <1>5, <1>7, <1>9, <1>10, <1>11 DEF SearchTypeOK
<1>13. InOrder(none)
  BY <1>4 DEF InOrder
<1> QED
  BY <1>3, <1>7, <1>9, <1>10, <1>12, <1>13 DEF SearchInv, SearchShape, At

\* Events written again are still one per session.
LEMMA RewrittenRead ==
  ASSUME NEW events \in [Rows -> Event \cup {Null}], EventsApart(events), NEW s \in Ids,
         NEW hit \in BOOLEAN, writes \in Nat, writes < MaxWrites
  PROVE  /\ Rewritten(events, s, hit) \in [Rows -> Event \cup {Null}]
         /\ EventsApart(Rewritten(events, s, hit))
<1> DEFINE kept == [i \in Rows |-> IF events[i] # Null /\ events[i].of = s THEN Null ELSE events[i]]
           row == NextRow(kept)
           new == [of |-> s, text |-> writes + 1, hit |-> hit]
           all == Rewritten(events, s, hit)
<1>1. all = [kept EXCEPT ![row] = new]
  BY DEF Rewritten
<1>2. new \in Event /\ new.of = s
  BY SearchAssumption DEF Event, Texts
<1>3. kept \in [Rows -> Event \cup {Null}]
  OBVIOUS
<1>4. \A i \in Rows : kept[i] # Null => kept[i] = events[i] /\ kept[i].of # s
  OBVIOUS
<1> HIDE DEF kept, row, new
<1>5. /\ all \in [Rows -> Event \cup {Null}]
      /\ \A i \in Rows : all[i] = IF i = row THEN new ELSE kept[i]
  BY <1>1, <1>2, <1>3
<1> HIDE DEF all
<1>6. EventsApart(all)
  BY <1>2, <1>4, <1>5 DEF EventsApart
<1> QED
  BY <1>5, <1>6 DEF all

LEMMA WriteStep ==
  ASSUME SearchInv, NEW s \in Ids, Write(s)
  PROVE  SearchInv'
<1>1. /\ find' = find /\ writes < MaxWrites /\ writes' = writes + 1
      /\ db.archived \in SUBSET Ids /\ db.parent \in [Ids -> Ids \cup {Null}]
      /\ db.events \in [Rows -> Event \cup {Null}] /\ EventsApart(db.events)
      /\ writes \in 0 .. MaxWrites /\ DOMAIN db = {"archived", "parent", "events"}
  BY DEF SearchInv, SearchTypeOK, SearchShape, Write
<1>2. writes' \in 0 .. MaxWrites
  BY <1>1, SearchAssumption
<1>3. PICK parent \in Ids \cup {Null} :
        \/ db' = [db EXCEPT !.parent[s] = parent]
        \/ \E hit \in BOOLEAN :
             db' = [db EXCEPT !.archived = @ \cup {s}, !.parent[s] = parent,
                              !.events = Rewritten(@, s, hit)]
  BY DEF Write
<1>4. /\ db'.archived \in SUBSET Ids /\ db'.parent \in [Ids -> Ids \cup {Null}]
      /\ db'.events \in [Rows -> Event \cup {Null}] /\ EventsApart(db'.events)
      /\ DOMAIN db' = {"archived", "parent", "events"}
  <2> DEFINE up == [db.parent EXCEPT ![s] = parent]
  <2>1. up \in [Ids -> Ids \cup {Null}]
    BY <1>1
  <2>2. CASE db' = [db EXCEPT !.parent[s] = parent]
    <3>1. db' = [db EXCEPT !.parent = up]
      BY <2>2
    <3> HIDE DEF up
    <3>2. /\ db'.archived = db.archived /\ db'.parent = up /\ db'.events = db.events
          /\ DOMAIN db' = DOMAIN db
      BY <1>1, <3>1
    <3> QED
      BY <1>1, <2>1, <3>2
  <2>3. ASSUME NEW hit \in BOOLEAN,
               db' = [db EXCEPT !.archived = @ \cup {s}, !.parent[s] = parent,
                                !.events = Rewritten(@, s, hit)]
        PROVE  /\ db'.archived \in SUBSET Ids /\ db'.parent \in [Ids -> Ids \cup {Null}]
               /\ db'.events \in [Rows -> Event \cup {Null}] /\ EventsApart(db'.events)
               /\ DOMAIN db' = {"archived", "parent", "events"}
    <3> DEFINE all == db.archived \cup {s}
               events == Rewritten(db.events, s, hit)
    <3>1. db' = [db EXCEPT !.archived = all, !.parent = up, !.events = events]
      BY <2>3
    <3>2. events \in [Rows -> Event \cup {Null}] /\ EventsApart(events)
      <4>1. writes \in Nat
        BY <1>1, SearchAssumption
      <4> QED
        BY <1>1, <4>1, RewrittenRead
    <3>3. all \in SUBSET Ids
      BY <1>1
    <3> HIDE DEF up, all, events
    <3>4. /\ db'.archived = all /\ db'.parent = up /\ db'.events = events
          /\ DOMAIN db' = DOMAIN db
      BY <1>1, <3>1
    <3> QED
      BY <1>1, <2>1, <3>2, <3>3, <3>4
  <2> QED
    BY <1>3, <2>2, <2>3
<1> QED
  BY <1>1, <1>2, <1>4 DEF SearchInv, SearchTypeOK, SearchShape, At

\* The rows that were chosen, ranked, are in order.
LEMMA BestRead ==
  ASSUME NEW events \in [Rows -> Event \cup {Null}], EventsApart(events),
         NEW best \in SUBSET {i \in Used(events) : events[i].hit},
         NEW score \in [best -> Scores]
  PROVE  InOrder(Ranked({[id |-> events[i].of, score |-> score[i], row |-> i,
                          text |-> events[i].text] : i \in best}))
<1> DEFINE m(i) == [id |-> events[i].of, score |-> score[i], row |-> i, text |-> events[i].text]
           C == {m(i) : i \in best}
           f == [i \in best |-> m(i)]
           q == Ranked(C)
<1>1. ASSUME NEW i \in best
      PROVE  /\ m(i) \in Found /\ m(i).id = events[i].of /\ m(i).score \in Nat /\ m(i).id \in Nat
             /\ i \in Rows /\ events[i] # Null
  <2>1. i \in Rows /\ events[i] # Null
    BY DEF Used
  <2>2. events[i].of \in Ids /\ events[i].text \in Texts
    BY <2>1 DEF Event
  <2>3. score[i] \in Scores /\ score[i] \in Nat /\ events[i].of \in Nat
    BY <2>2, SearchAssumption
  <2> QED
    BY <2>1, <2>2, <2>3 DEF Found
<1>2. \A i, j \in best : m(i).id = m(j).id => i = j
  BY <1>1 DEF EventsApart
<1> HIDE DEF m
<1>3. Rankable(C)
  <2>1. IsFiniteSet(best)
    <3>1. best \in SUBSET Rows
      BY <1>1
    <3> QED
      BY <3>1, RowsFinite, FS_Subset
  <2>2. f \in Surjection(best, C)
    BY DEF Surjection
  <2>3. IsFiniteSet(C)
    <3> HIDE DEF f, C
    <3> QED
      BY <2>1, <2>2, FS_Surjection
  <2> QED
    BY <1>1, <1>2, <2>3 DEF Rankable
<1>4. C \subseteq Found
  BY <1>1
<1> HIDE DEF C
<1>5. /\ q \in Seq(C)
      /\ \A i, j \in 1 .. Len(q) : i < j => Stronger(q[i], q[j])
  BY <1>3, RankedRead
<1> HIDE DEF q
<1>6. q \in Seq(Found)
  <2>1. Len(q) \in Nat /\ \A i \in 1 .. Len(q) : q[i] \in Found
    BY <1>4, <1>5
  <2>2. q = [i \in 1 .. Len(q) |-> q[i]]
    BY <1>5
  <2> QED
    BY <2>1, <2>2
<1>7. ASSUME NEW i \in 1 .. Len(q), NEW j \in 1 .. Len(q), i < j
      PROVE  q[i].id # q[j].id /\ q[i].score >= q[j].score
  <2>1. Stronger(q[i], q[j]) /\ q[i] \in C /\ q[j] \in C
    BY <1>5, <1>7
  <2>2. /\ q[i].score \in Nat /\ q[j].score \in Nat /\ q[i].id \in Nat
        /\ q[i].id = q[j].id => q[i] = q[j]
    BY <1>3, <2>1 DEF Rankable
  <2> QED
    BY <2>1, <2>2 DEF Stronger
<1> QED
  BY <1>6, <1>7 DEF InOrder, q, C, m

LEMMA LoadStep ==
  ASSUME SearchInv, LoadCandidates
  PROVE  SearchInv'
<1>1. PICK best \in SUBSET {i \in Used(db.events) : db.events[i].hit} :
        \E score \in [best -> Scores] :
          find' = [find EXCEPT
            !.at = IF best = {} THEN "done" ELSE "scored",
            !.scored = Ranked(
              {[id |-> db.events[i].of, score |-> score[i], row |-> i,
                text |-> db.events[i].text] : i \in best})]
  BY DEF LoadCandidates
<1>2. PICK score \in [best -> Scores] :
        find' = [find EXCEPT
          !.at = IF best = {} THEN "done" ELSE "scored",
          !.scored = Ranked(
            {[id |-> db.events[i].of, score |-> score[i], row |-> i,
              text |-> db.events[i].text] : i \in best})]
  BY <1>1
<1> DEFINE q == Ranked({[id |-> db.events[i].of, score |-> score[i], row |-> i,
                         text |-> db.events[i].text] : i \in best})
           place == IF best = {} THEN "done" ELSE "scored"
<1>3. InOrder(q)
  BY BestRead DEF SearchInv, SearchTypeOK
<1>4. find' = [find EXCEPT !.at = place, !.scored = q]
  BY <1>2
<1>5. place \in {"done", "scored"}
  OBVIOUS
<1> HIDE DEF q, place
<1>6. /\ find'.at = place /\ find'.scored = q /\ find'.asked = find.asked
      /\ find'.edges = find.edges /\ find'.results = find.results /\ DOMAIN find' = DOMAIN find
  BY <1>4 DEF SearchInv, SearchShape
<1>7. find.results = <<>>
  BY DEF SearchInv, LoadCandidates, Idle, At
<1>8. q \in Seq(Found)
  BY <1>3 DEF InOrder
<1> QED
  BY <1>3, <1>5, <1>6, <1>7, <1>8
  DEF SearchInv, SearchTypeOK, SearchShape, At, LoadCandidates

LEMMA CollapseStep ==
  ASSUME SearchInv, CollapseLineage
  PROVE  SearchInv'
<1> DEFINE known == Closure({find.scored[i].id : i \in DOMAIN find.scored})
           edges == [known |-> known, parent |-> db.parent]
           results == Collapse(find.scored, edges)
           cut == Cut(results)
           n == Len(find.scored)
<1>1. find' = [find EXCEPT !.at = "collapsed", !.edges = edges, !.results = cut]
  BY DEF CollapseLineage
<1>2. InOrder(find.scored) /\ n \in Nat
  BY DEF SearchInv, InOrder
<1>3. known \subseteq Ids
  <2>1. known \subseteq db.archived
    BY DEF Closure
  <2> QED
    BY <2>1 DEF SearchInv, SearchTypeOK
<1> HIDE DEF known
<1>4. IsEdges(edges) /\ edges.known = known
  BY <1>3 DEF IsEdges, SearchInv, SearchTypeOK
<1> HIDE DEF edges, n
<1>5. Slots(results, find.scored, edges, n) /\ Covers(results, find.scored, n)
  BY <1>2, <1>4, CollapseRead DEF n
<1> HIDE DEF results
<1>6. IsCollapsed(find.scored, edges, cut) /\ Len(cut) <= Limit /\ cut \in Seq(Result)
  <2>1. /\ Slots(cut, find.scored, edges, n) /\ Len(cut) <= Limit
        /\ Len(cut) < Limit => Covers(cut, find.scored, n)
    BY <1>2, <1>5, CutRead
  <2>2. Slots(cut, find.scored, edges, n) => cut \in Seq(Result)
    BY DEF Slots
  <2> HIDE DEF cut
  <2> QED
    BY <2>1, <2>2 DEF IsCollapsed, n
<1> HIDE DEF cut
<1>7. /\ find'.at = "collapsed" /\ find'.scored = find.scored /\ find'.asked = find.asked
      /\ find'.edges = edges /\ find'.results = cut /\ DOMAIN find' = DOMAIN find
  BY <1>1 DEF SearchInv, SearchShape
<1>8. db' = db /\ writes' = writes
  BY DEF CollapseLineage
<1> QED
  BY <1>3, <1>4, <1>6, <1>7, <1>8 DEF SearchInv, SearchTypeOK, SearchShape, At

LEMMA SnipStep ==
  ASSUME SearchInv, AttachSnippets
  PROVE  SearchInv'
<1> DEFINE n == Len(find.results)
           all == [i \in DOMAIN find.results |-> Snipped(find.results[i])]
<1>1. find' = [find EXCEPT !.at = "presented", !.results = all]
  BY DEF AttachSnippets
<1>2. /\ n \in Nat /\ DOMAIN find.results = 1 .. n /\ n <= Limit
      /\ \A i \in 1 .. n : find.results[i] \in Result
  BY DEF SearchInv, SearchTypeOK
<1>3. ASSUME NEW r \in Result PROVE Snipped(r) \in Result
  <2> DEFINE event == db.events[r.row]
             snippet == IF event # Null /\ event.hit
                          THEN [of |-> event.of, text |-> event.text] ELSE Null
  <2>1. event \in Event \cup {Null}
    BY DEF Result, SearchInv, SearchTypeOK
  <2>2. event # Null => [of |-> event.of, text |-> event.text] \in Snippet
    <3> HIDE DEF event
    <3> QED
      BY <2>1 DEF Event, Snippet
  <2>3. snippet \in Snippet \cup {Null}
    BY <2>2
  <2>4. Snipped(r) = [r EXCEPT !.snippet = snippet]
    BY DEF Snipped
  <2> HIDE DEF snippet
  <2> QED
    BY <2>3, <2>4 DEF Result
<1>4. all \in Seq(Result) /\ Len(all) = n
  <2>1. \A i \in 1 .. n : Snipped(find.results[i]) \in Result
    BY <1>2, <1>3
  <2>2. all = [i \in 1 .. n |-> Snipped(find.results[i])]
    BY <1>2
  <2> HIDE DEF n, all
  <2> QED
    BY <1>2, <2>1, <2>2
<1> HIDE DEF all
<1>5. /\ find'.at = "presented" /\ find'.scored = find.scored /\ find'.asked = find.asked
      /\ find'.edges = find.edges /\ find'.results = all /\ DOMAIN find' = DOMAIN find
  BY <1>1 DEF SearchInv, SearchShape
<1>6. db' = db /\ writes' = writes
  BY DEF AttachSnippets
<1>7. IsEdges(find.edges)
  BY DEF SearchInv, AttachSnippets
<1> QED
  BY <1>2, <1>4, <1>5, <1>6, <1>7 DEF SearchInv, SearchTypeOK, SearchShape, At

\* A result is given the request of one of its lineage that was asked and has one.
LEMMA WithContextRead ==
  ASSUME NEW r \in Result, NEW answers, IsEdges(find.edges)
  PROVE  LET new == WithContext(r, answers)
         IN  /\ new \in Result /\ new.id = r.id /\ new.related = r.related
             /\ Members(new) = Members(r)
             /\ LineageOf(new, find.edges) = LineageOf(r, find.edges)
             /\ IF LineageOf(r, find.edges) \cap answers = {} THEN new.ask = Null
                ELSE new.ask \in LineageOf(r, find.edges) \cap answers
<1> DEFINE e == find.edges
           all == <<r.id>> \o r.related
           up == Ancestors(r, e)
           ids == all \o up
           first == FirstOf(ids, answers)
           new == WithContext(r, answers)
<1>1. all \in Seq(Ids) /\ ToSet(all) = Members(r)
  BY MembersRead
<1>2. /\ up \in Seq(Ids) /\ LineageOf(r, e) = Members(r) \cup ToSet(up)
      /\ LineageOf(r, e) \subseteq Ids
  BY AncestorsRead
<1>3. new = [r EXCEPT !.ask = FirstOf(<<r.id>> \o r.related \o Ancestors(r, e), answers)]
  BY DEF WithContext
<1>4. new = [r EXCEPT !.ask = first]
  BY <1>3
<1> HIDE DEF all, up
<1>5. ids \in Seq(Ids) /\ ToSet(ids) = LineageOf(r, e)
  BY <1>1, <1>2, ConcatRead
<1> HIDE DEF ids
<1>6. IF LineageOf(r, e) \cap answers = {} THEN first = Null
      ELSE first \in LineageOf(r, e) \cap answers
  BY <1>5, FirstOfRead
<1> HIDE DEF first, new
<1>7. first \in Ids \cup {Null}
  BY <1>2, <1>6
<1>8. new \in Result /\ new.id = r.id /\ new.related = r.related /\ new.ask = first
  BY <1>4, <1>7 DEF Result
<1>9. Members(new) = Members(r)
  BY <1>8 DEF Members
<1>10. LineageOf(new, e) = LineageOf(r, e)
  BY <1>9 DEF LineageOf
<1> QED
  BY <1>6, <1>8, <1>9, <1>10 DEF new

LEMMA ContextStep ==
  ASSUME SearchInv, AttachContext
  PROVE  SearchInv'
<1> DEFINE e == find.edges
           results == find.results
           n == Len(results)
           context == ContextIds(results, e)
<1>1. PICK asked \in SUBSET db.archived :
        find' = [find EXCEPT
          !.at = "done", !.asked = asked,
          !.results = [i \in DOMAIN results |->
                        WithContext(results[i], context \cap db.archived \cap asked)]]
  BY DEF AttachContext
<1> DEFINE answers == context \cap db.archived \cap asked
           all == [i \in DOMAIN results |-> WithContext(results[i], answers)]
           read == AllLineages(results, e)
<1>2. find' = [find EXCEPT !.at = "done", !.asked = asked, !.results = all]
  BY <1>1
<1>3. /\ results \in Seq(Result) /\ n \in Nat /\ DOMAIN results = 1 .. n /\ n <= Limit
      /\ \A i \in 1 .. n : results[i] \in Result
  BY DEF SearchInv, SearchTypeOK
<1>4. IsEdges(e)
  BY DEF SearchInv, AttachContext
<1>5. answers = context \cap asked /\ asked \subseteq Ids
  BY DEF SearchInv, SearchTypeOK
<1>6. /\ \A i \in 1 .. n : Members(results[i]) \subseteq context
      /\ Cardinality(read) <= ContextLimit =>
           \A i \in 1 .. n : LineageOf(results[i], e) \subseteq context
  BY <1>3, <1>4, ContextRead
<1> HIDE DEF context, answers
<1>7. \A i \in 1 .. n : all[i] = WithContext(results[i], answers)
  BY <1>3
<1>8. \A i \in 1 .. n :
        /\ all[i] \in Result
        /\ Members(all[i]) = Members(results[i])
        /\ LineageOf(all[i], e) = LineageOf(results[i], e)
        /\ IF LineageOf(results[i], e) \cap answers = {} THEN all[i].ask = Null
           ELSE all[i].ask \in LineageOf(results[i], e) \cap answers
  <2> TAKE i \in 1 .. n
  <2> DEFINE r == results[i]
             new == WithContext(r, answers)
  <2>1. r \in Result /\ all[i] = new
    BY <1>3, <1>7
  <2> HIDE DEF r
  <2>2. /\ new \in Result
        /\ Members(new) = Members(r)
        /\ LineageOf(new, e) = LineageOf(r, e)
        /\ IF LineageOf(r, e) \cap answers = {} THEN new.ask = Null
           ELSE new.ask \in LineageOf(r, e) \cap answers
    BY <1>4, <2>1, WithContextRead
  <2> HIDE DEF new, all
  <2> QED
    BY <2>1, <2>2 DEF r
<1>9. all \in Seq(Result) /\ Len(all) = n
  <2>1. all = [i \in 1 .. n |-> all[i]]
    BY <1>3
  <2> HIDE DEF all, n
  <2> QED
    BY <1>3, <1>8, <2>1
<1> HIDE DEF all
<1>10. AllLineages(all, e) = read
  BY <1>8, <1>9 DEF AllLineages
<1> HIDE DEF read
<1>11. ASSUME NEW i \in 1 .. n PROVE Answered(all[i], e, asked, read)
  <2> DEFINE line == LineageOf(results[i], e)
  <2>1. /\ Members(results[i]) \subseteq context
        /\ Cardinality(read) <= ContextLimit => line \subseteq context
        /\ Members(results[i]) \subseteq line /\ line \subseteq Ids
    BY <1>3, <1>4, <1>6, AncestorsRead DEF LineageOf
  <2>2. /\ Members(all[i]) = Members(results[i]) /\ LineageOf(all[i], e) = line
        /\ IF line \cap answers = {} THEN all[i].ask = Null
           ELSE all[i].ask \in line \cap answers
    BY <1>8
  <2>3. Null \notin Ids
    BY SearchAssumption
  <2> HIDE DEF line
  <2> QED
    BY <1>5, <2>1, <2>2, <2>3 DEF Answered
<1>12. AllAnswered(all, e, asked)
  BY <1>4, <1>9, <1>10, <1>11 DEF AllAnswered
<1>13. /\ find'.at = "done" /\ find'.scored = find.scored /\ find'.asked = asked
       /\ find'.edges = find.edges /\ find'.results = all /\ DOMAIN find' = DOMAIN find
  BY <1>2 DEF SearchInv, SearchShape
<1>14. db' = db /\ writes' = writes
  BY DEF AttachContext
<1> HIDE DEF n, results
<1> QED
  BY <1>3, <1>5, <1>9, <1>12, <1>13, <1>14 DEF SearchInv, SearchTypeOK, SearchShape, At

\* Every step of the search, and of another connection, keeps the invariant.
LEMMA SearchKeeps == SearchInv /\ [SearchNext]_searchVars => SearchInv'
<1> SUFFICES ASSUME SearchInv, [SearchNext]_searchVars PROVE SearchInv'
  OBVIOUS
<1>1. ASSUME NEW s \in Ids, Write(s) PROVE SearchInv'
  BY <1>1, WriteStep
<1>2. CASE LoadCandidates
  BY <1>2, LoadStep
<1>3. CASE CollapseLineage
  BY <1>3, CollapseStep
<1>4. CASE AttachSnippets
  BY <1>4, SnipStep
<1>5. CASE AttachContext
  BY <1>5, ContextStep
<1>6. CASE UNCHANGED searchVars
  BY <1>6 DEF searchVars, SearchInv, SearchTypeOK, SearchShape, At
<1> QED
  BY <1>1, <1>2, <1>3, <1>4, <1>5, <1>6 DEF SearchNext

\* The invariant of a search holds in every state.
THEOREM SearchInvAlways == SearchSpec => []SearchInv
  BY SearchStarts, SearchKeeps, PTL DEF SearchSpec

LEMMA SlotsHold == SearchInv => OneSlotPerLineage
<1> SUFFICES ASSUME SearchInv PROVE OneSlotPerLineage
  OBVIOUS
<1>1. SearchTypeOK
  BY DEF SearchInv
<1>2. CASE ~Collapsed
  BY <1>1, <1>2 DEF OneSlotPerLineage, MatchesPartitioned
<1>3. CASE Collapsed
  <2>1. /\ InOrder(find.scored) /\ IsEdges(find.edges)
        /\ IsCollapsed(find.scored, find.edges, find.results)
    BY <1>3 DEF SearchInv, Collapsed
  <2>2. MatchesPartitioned
    BY <2>1, PartitionRead
  <2>3. LET results == find.results
        IN  /\ \A i, j \in DOMAIN results :
                 i # j /\ ~Cyclic(results[i].id) /\ ~Cyclic(results[j].id)
                   => Above(results[i].id) \cap Above(results[j].id) = {}
            /\ \A i \in DOMAIN results : \A s \in Members(results[i]) :
                 Above(results[i].id) \cap Above(s) # {}
    BY <2>1, SlotsApart
  <2> QED
    BY <1>1, <2>2, <2>3 DEF OneSlotPerLineage
<1> QED
  BY <1>2, <1>3

\* collapse_lineage: for every archive, lineages in a circle included, whatever
\* is committed meanwhile and whatever the limits, a lineage has one result,
\* a result has one lineage, and every match is in one result unless the
\* limit cut it.
THEOREM OneSlotPerLineageAlways == SearchSpec => []OneSlotPerLineage
  BY SearchInvAlways, SlotsHold, PTL

\* What is above the members of a result is its lineage.
LEMMA LineageRead ==
  ASSUME IsEdges(find.edges), NEW r \in Result
  PROVE  UNION {Above(s) : s \in Members(r)} = LineageOf(r, find.edges)
<1> DEFINE P(s) == ToSet(LineagePath(s, find.edges))
<1>1. \A s \in Members(r) : Above(s) = {s} \cup P(s)
  BY MembersRead, AboveIsPath
<1>2. LineageOf(r, find.edges) = Members(r) \cup UNION {P(s) : s \in Members(r)}
  BY DEF LineageOf
<1> HIDE DEF P
<1> QED
  BY <1>1, <1>2

LEMMA ContextHolds == SearchInv => ContextFromLineage
<1> SUFFICES ASSUME SearchInv, At("done"), find.results # <<>>, NEW i \in DOMAIN find.results
             PROVE  LET r       == find.results[i]
                        lineage == UNION {Above(s) : s \in Members(r)}
                    IN  IF r.ask # Null
                          THEN r.ask \in lineage \cap find.asked
                          ELSE /\ Members(r) \cap find.asked = {}
                               /\ Cardinality(Read) <= ContextLimit =>
                                    lineage \cap find.asked = {}
  <2>1. find.results = <<>> => DOMAIN find.results = {}
    OBVIOUS
  <2> QED
    BY <2>1 DEF ContextFromLineage
<1> DEFINE e == find.edges
           results == find.results
           L == Len(results)
           r == results[i]
<1>1. AllAnswered(results, e, find.asked)
  BY DEF SearchInv
<1>2. DOMAIN results = 1 .. L /\ \A j \in 1 .. L : results[j] \in Result
  BY DEF SearchInv, SearchTypeOK
<1>3. IsEdges(e) /\ Answered(r, e, find.asked, AllLineages(results, e))
  BY <1>1, <1>2 DEF AllAnswered
<1>4. \A j \in 1 .. L :
        UNION {Above(s) : s \in Members(results[j])} = LineageOf(results[j], e)
  BY <1>2, <1>3, LineageRead
<1>5. Read = AllLineages(results, e)
  <2> DEFINE M(j) == Members(results[j])
             Line(j) == LineageOf(results[j], e)
  <2>1. Read = UNION {Above(s) : s \in UNION {M(j) : j \in 1 .. L}}
    BY <1>2 DEF Read
  <2>2. AllLineages(results, e) = UNION {Line(j) : j \in 1 .. L}
    BY DEF AllLineages
  <2>3. \A j \in 1 .. L : UNION {Above(s) : s \in M(j)} = Line(j)
    BY <1>4
  <2> HIDE DEF M, Line, L
  <2> QED
    BY <2>1, <2>2, <2>3
<1>6. UNION {Above(s) : s \in Members(r)} = LineageOf(r, e)
  BY <1>2, <1>4
<1> QED
  BY <1>3, <1>5, <1>6 DEF Answered

\* attach_context: the request of a result is of its own lineage, and it has one
\* if any session of the lineage had one, unless the query was full.
THEOREM ContextFromLineageAlways == SearchSpec => []ContextFromLineage
  BY SearchInvAlways, ContextHolds, PTL
===============================================================================
