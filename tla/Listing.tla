-------------------------------- MODULE Listing --------------------------------
(***************************************************************************)
(* Keyset pagination of `list` (store.rs) while ingests commit: a client   *)
(* follows `next_cursor` from page to page, each page is one statement     *)
(* over the last committed state, and sessions are written, re-timed and   *)
(* re-parented between two pages.                                          *)
(*                                                                         *)
(* Abstractions.  A session is a row with the columns `list` orders, joins *)
(* and filters by; the filters on agent, cwd, model, provider and          *)
(* since_ms, which the lineage collapse repeats for the parent, are one    *)
(* lower bound on the time and one label.  The cursor's encoding is        *)
(* left out.  Nothing deletes a session while a service runs.              *)
(***************************************************************************)
EXTENDS Integers, FiniteSets

CONSTANTS
  Sessions,   \* session ids: numbers, in the order of the ids
  Times,      \* values of sort_time
  Parents,    \* the parents a parse may name: sessions, or None
  Labels,     \* values of the columns a request compares (agent, model, ...)
  Clients,    \* those who page
  Requests,   \* [collapse, since, label, limit]: label None asks for every label,
              \* limit is the page size after its clamp
  MaxCommits, \* bound: commits
  None

ASSUME ListingAssumption ==
  /\ Sessions \subseteq Nat /\ IsFiniteSet(Sessions)
  /\ Times \subseteq Nat
  /\ Parents \subseteq Sessions \cup {None}
  /\ Requests \subseteq [collapse : BOOLEAN, since : Nat, label : Labels \cup {None},
                   limit : Nat \ {0}]
  /\ MaxCommits \in Nat
  /\ None \notin Nat \cup Labels \cup Requests \cup [time : Times, id : Sessions]

VARIABLES
  rows,    \* rows[s]: the committed session, or None
  commits, \* commits so far
  walk     \* walk[c]: the request c pages through, its cursor, and what it is
           \* owed and has seen; request None: no walk under way

vars == <<rows, commits, walk>>

Row == [time : Times, parent : Parents, label : Labels]

NoWalk == [request |-> None, cursor |-> None, owed |-> {}, seen |-> {}]

Init ==
  /\ rows = [s \in Sessions |-> None]
  /\ commits = 0
  /\ walk = [c \in Clients |-> NoWalk]

(***************************************************************************)
(* The statement                                                           *)
(***************************************************************************)
\* The filters of the WHERE clause.
Matches(request, row) ==
  /\ row # None
  /\ row.time >= request.since
  /\ request.label \in {None, row.label}

\* The lineage collapse: a parent that passes the same filters hides the row.
Hidden(request, row) ==
  /\ request.collapse
  /\ row.parent \in Sessions
  /\ Matches(request, rows[row.parent])

Listed(request) ==
  {s \in Sessions : Matches(request, rows[s]) /\ ~Hidden(request, rows[s])}

\* ORDER BY sort_time DESC, id ASC.
Before(s, t) ==
  \/ rows[s].time > rows[t].time
  \/ rows[s].time = rows[t].time /\ s < t

\* Mutated form: rows of the cursor's time are taken for seen.
AfterByTime(cursor, s) ==
  \/ cursor = None
  \/ rows[s].time < cursor.time

After(cursor, s) ==
  \/ cursor = None
  \/ rows[s].time < cursor.time
  \/ rows[s].time = cursor.time /\ s > cursor.id

\* The page after the cursor; LIMIT asks for one row more than a page, and the
\* cursor of the last row returned is handed out when that row is there.
Remaining(request, cursor) == {s \in Listed(request) : After(cursor, s)}

Page(request, cursor) ==
  LET from == Remaining(request, cursor)
  IN  {s \in from : Cardinality({t \in from : Before(t, s)}) < request.limit}

HasMore(request, cursor) == Cardinality(Remaining(request, cursor)) > request.limit

LastOf(page) == CHOOSE s \in page : \A t \in page : t = s \/ Before(t, s)

NextCursor(page) == [time |-> rows[LastOf(page)].time, id |-> LastOf(page)]

(***************************************************************************)
(* Clients and commits                                                     *)
(***************************************************************************)
\* What a client has after reading a page: the walk goes on from its cursor, or
\* it is over and what has not been delivered remains owed.
Delivered(w, page, more) ==
  [request |-> IF more THEN w.request ELSE None,
   cursor |-> IF more THEN NextCursor(page) ELSE None,
   owed |-> w.owed \ page,
   seen |-> w.seen \cup page]

\* The first page of a walk, without a cursor.  What is listed now is owed.
ListFirst(c, request) ==
  /\ walk[c].request = None
  /\ walk' = [walk EXCEPT ![c] =
                Delivered([NoWalk EXCEPT !.request = request, !.owed = Listed(request)],
                          Page(request, None), HasMore(request, None))]
  /\ UNCHANGED <<rows, commits>>

ListNext(c) ==
  LET w == walk[c]
  IN  /\ w.request # None
      /\ walk' = [walk EXCEPT ![c] =
                    Delivered(w, Page(w.request, w.cursor), HasMore(w.request, w.cursor))]
      /\ UNCHANGED <<rows, commits>>

\* A commit of s touches a walk: s is not owed any more and may be listed again,
\* and in a collapsed listing neither are the children it may now hide.
Touched(w, s) ==
  [w EXCEPT !.owed = {t \in @ : t # s /\ ~(w.request.collapse /\ rows[t].parent = s)},
            !.seen = @ \ {s}]

\* One upsert_many of an ingest: a new or changed session.
Commit(s, row) ==
  /\ commits < MaxCommits
  /\ commits' = commits + 1
  /\ rows' = [rows EXCEPT ![s] = row]
  /\ walk' = [c \in Clients |->
                IF walk[c].request = None THEN walk[c] ELSE Touched(walk[c], s)]

Next ==
  \/ \E c \in Clients, request \in Requests : ListFirst(c, request)
  \/ \E c \in Clients : ListNext(c)
  \/ \E s \in Sessions, row \in Row : Commit(s, row)

Spec == Init /\ [][Next]_vars

(***************************************************************************)
(* Properties                                                              *)
(***************************************************************************)
Cursor == [time : Times, id : Sessions]

TypeOK ==
  /\ rows \in [Sessions -> Row \cup {None}]
  /\ commits \in 0 .. MaxCommits
  /\ walk \in [Clients -> [request : Requests \cup {None}, cursor : Cursor \cup {None},
                           owed : SUBSET Sessions, seen : SUBSET Sessions]]

\* The variables keep their types, and a walk delivers what it should once: the
\* page that follows repeats no session, unless that was written again since it
\* was listed, and a walk that is over has delivered every session that the
\* listing showed when it began, but for those that commits have since touched
\* (facade.rs: "stable keyset pagination").
WalkExact ==
  /\ TypeOK
  /\ \A c \in Clients :
       IF walk[c].request = None THEN walk[c].owed = {}
       ELSE Page(walk[c].request, walk[c].cursor) \cap walk[c].seen = {}
=============================================================================
