-------------------------------- MODULE Search --------------------------------
(***************************************************************************)
(* A search: ranked candidates, the collapse of sessions of one lineage    *)
(* into one result, snippets and context, read by four statements between  *)
(* any two of which another connection may commit (search.rs: search,      *)
(* load_candidates, load_lineage_edges, lineage_path, attach_snippets,     *)
(* attach_context).                                                        *)
(*                                                                         *)
(* Abstractions.  A session has one event, which matches the query or not. *)
(* Scores are small numbers chosen freely, of which a tenth goes to the    *)
(* representative; equal scores are ordered by id, so sessions are         *)
(* numbers.  Of the two bookends of a session the first request stands for *)
(* both, and as it is read once, which sessions have one is chosen there.  *)
(* Filters restrict what is found and are left out.  A behaviour is one    *)
(* call; what was committed before it is in SearchInit.                    *)
(***************************************************************************)
EXTENDS Naturals, Sequences, FiniteSets, SequencesExt

CONSTANTS
  Ids,             \* session ids: numbers, in the order of the ids
  CandidateLimit,  \* candidate_limit
  Limit,           \* the request's limit
  ContextLimit,    \* MAX_CONTEXT_SESSIONS
  Scores,          \* scores told apart, and what they add to a representative
  MaxWrites,       \* bound: commits of other connections
  Null             \* no parent, no row, no text

ASSUME SearchAssumption ==
  /\ Ids \subseteq Nat /\ IsFiniteSet(Ids)
  /\ {CandidateLimit, Limit, ContextLimit, MaxWrites} \subseteq Nat
  /\ Scores \subseteq Nat
  /\ Null \notin Nat

VARIABLES
  db,      \* the archive, as of the last commit
  writes,  \* history: commits so far
  find     \* the local variables of the search

searchVars == <<db, writes, find>>

Rows == 1 .. Cardinality(Ids) + MaxWrites
Texts == 0 .. MaxWrites
Event == [of : Ids, text : Texts, hit : BOOLEAN]
Snippet == [of : Ids, text : Texts]
Found == [id : Ids, score : Scores, row : Rows, text : Texts]

Idle == [at |-> "idle", scored |-> <<>>, asked |-> {},
         edges |-> [known |-> {}, parent |-> <<>>], results |-> <<>>]

\* Every lineage, cyclic ones included: nothing in the archive forbids them.
\* The sessions were archived in the order of their ids.
SearchInit ==
  /\ \E archived \in SUBSET Ids, parent \in [Ids -> Ids \cup {Null}] :
     \E hits \in SUBSET archived :
       /\ \A s \in Ids \ archived : parent[s] = Null
       /\ db = [archived |-> archived, parent |-> parent,
                events |-> [i \in Rows |-> IF i \in archived
                              THEN [of |-> i, text |-> 0, hit |-> i \in hits] ELSE Null]]
  /\ writes = 0
  /\ find = Idle

(***************************************************************************)
(* Another connection                                                      *)
(***************************************************************************)
Used(events) == {i \in Rows : events[i] # Null}

\* `id INTEGER PRIMARY KEY`: a new row is numbered past the largest one, so the
\* number of a deleted last row is given out again.
NextRow(events) == 1 + Max(Used(events) \cup {0})

\* write_session: the events are deleted and inserted again if they differ.
Rewritten(events, s, hit) ==
  LET kept == [i \in Rows |-> IF events[i] # Null /\ events[i].of = s THEN Null ELSE events[i]]
  IN  [kept EXCEPT ![NextRow(kept)] = [of |-> s, text |-> writes + 1, hit |-> hit]]

Write(s) ==
  /\ find.at \notin {"idle", "done"}
  /\ writes < MaxWrites
  /\ writes' = writes + 1
  /\ \E parent \in Ids \cup {Null} :
       \/ /\ s \in db.archived
          /\ db' = [db EXCEPT !.parent[s] = parent]
       \/ \E hit \in BOOLEAN :
            db' = [db EXCEPT
              !.archived = @ \cup {s},
              !.parent[s] = parent,
              !.events = Rewritten(@, s, hit)]
  /\ UNCHANGED find

(***************************************************************************)
(* The search                                                              *)
(***************************************************************************)
At(place) == find.at = place

Smaller(m, n) == IF m < n THEN m ELSE n

Stronger(a, b) == a.score > b.score \/ (a.score = b.score /\ a.id < b.id)

\* The strongest first.
Ranked(S) ==
  [n \in 1 .. Cardinality(S) |->
    CHOOSE x \in S : Cardinality({y \in S : Stronger(y, x)}) = n - 1]

\* load_candidates, group_candidates and score_session: the best of the matching
\* rows, up to the limit, with a score each.
LoadCandidates ==
  LET rows == {i \in Used(db.events) : db.events[i].hit}
  IN  /\ At("idle")
      /\ \E best \in SUBSET rows :
           /\ Cardinality(best) = Smaller(CandidateLimit, Cardinality(rows))
           /\ \E score \in [best -> Scores] :
                find' = [find EXCEPT
                  !.at = IF best = {} THEN "done" ELSE "scored",
                  !.scored = Ranked(
                    {[id |-> db.events[i].of, score |-> score[i], row |-> i,
                      text |-> db.events[i].text] : i \in best})]
      /\ UNCHANGED <<db, writes>>

\* The recursive query of load_lineage_edges.
Closure(ids) ==
  LET Up(S) == S \cup {db.parent[s] : s \in {t \in S : db.parent[t] # Null}}
      Reached[n \in 0 .. Cardinality(Ids)] == IF n = 0 THEN ids ELSE Up(Reached[n - 1])
  IN  Reached[Cardinality(Ids)] \cap db.archived

\* One round of lineage_path's loop.  It ends at a session that was seen before,
\* has no parent, or whose parent is not archived.
Climb(path, edges) ==
  LET s == Last(path)
  IN  IF \/ s \in ToSet(Front(path))
         \/ s \notin edges.known
         \/ edges.parent[s] \notin edges.known
        THEN path
        ELSE Append(path, edges.parent[s])

LineagePath(id, edges) ==
  LET path[n \in 0 .. Cardinality(Ids)] ==
        IF n = 0 THEN <<id>> ELSE Climb(path[n - 1], edges)
  IN  Tail(path[Cardinality(Ids)])

\* Mutated form: the parent, not the root.
LineageRootIsParent(id, edges) ==
  LET path == LineagePath(id, edges) IN IF path = <<>> THEN id ELSE Head(path)

LineageRoot(id, edges) ==
  LET path == LineagePath(id, edges) IN IF path = <<>> THEN id ELSE Last(path)

\* A related session adds its hits and a tenth of its score.
Absorb(result, m) ==
  [result EXCEPT !.hits = @ + 1, !.score = @ + m.score \div 10, !.related = Append(@, m.id)]

\* What the loop makes of one more session.
Collect(results, m, edges) ==
  LET root == LineageRoot(m.id, edges)
      at   == {i \in DOMAIN results : results[i].root = root}
  IN  IF at = {}
        THEN Append(results, [id |-> m.id, root |-> root, score |-> m.score, hits |-> 1,
                              related |-> <<>>, row |-> m.row, snippet |-> Null, ask |-> Null])
        ELSE [i \in DOMAIN results |->
               IF i \in at THEN Absorb(results[i], m) ELSE results[i]]

\* The loop over the scored sessions, strongest first.
Collapse(scored, edges) ==
  LET results[n \in 0 .. Len(scored)] ==
        IF n = 0 THEN <<>> ELSE Collect(results[n - 1], scored[n], edges)
  IN  results[Len(scored)]

\* The second sort, and the cut.
Cut(results) ==
  LET sorted == Ranked(ToSet(results))
  IN  SubSeq(sorted, 1, Smaller(Limit, Len(sorted)))

CollapseLineage ==
  LET known == Closure({find.scored[i].id : i \in DOMAIN find.scored})
      edges == [known |-> known, parent |-> db.parent]
  IN  /\ At("scored")
      /\ find' = [find EXCEPT
           !.at = "collapsed",
           !.edges = edges,
           !.results = Cut(Collapse(find.scored, edges))]
      /\ UNCHANGED <<db, writes>>

\* The same query again, for the rows of the results.
Snipped(r) ==
  LET event == db.events[r.row]
  IN  [r EXCEPT !.snippet = IF event # Null /\ event.hit
                              THEN [of |-> event.of, text |-> event.text] ELSE Null]

AttachSnippets ==
  /\ At("collapsed")
  /\ find' = [find EXCEPT
       !.at = "presented",
       !.results = [i \in DOMAIN find.results |-> Snipped(find.results[i])]]
  /\ UNCHANGED <<db, writes>>

\* The ancestors of the representative, then of its related sessions.
Ancestors(r, edges) ==
  FlattenSeq([i \in 1 .. 1 + Len(r.related) |->
    LineagePath((<<r.id>> \o r.related)[i], edges)])

\* The sessions of the context query: the ancestors of a result are left out
\* once there are too many.
Wanted(ids, r, edges) ==
  LET ancestors == Ancestors(r, edges)
      known[n \in 0 .. Len(ancestors)] ==
        IF n = 0 THEN ids \cup {r.id} \cup ToSet(r.related)
        ELSE IF Cardinality(known[n - 1]) >= ContextLimit THEN known[n - 1]
        ELSE known[n - 1] \cup {ancestors[n]}
  IN  known[Len(ancestors)]

ContextIds(results, edges) ==
  LET ids[n \in 0 .. Len(results)] ==
        IF n = 0 THEN {} ELSE Wanted(ids[n - 1], results[n], edges)
  IN  ids[Len(results)]

\* related_context: the first one that has an answer.
FirstOf(ids, answers) ==
  IF \E i \in DOMAIN ids : ids[i] \in answers
    THEN ids[CHOOSE i \in DOMAIN ids : ids[i] \in answers /\ \A j \in 1 .. i - 1 : ids[j] \notin answers]
    ELSE Null

\* Mutated form: what has not matched is not asked.
WithContextOfMatches(r, answers) == [r EXCEPT !.ask = FirstOf(<<r.id>> \o r.related, answers)]

\* The representative's own, or a related session's, or an ancestor's.
WithContext(r, answers) ==
  [r EXCEPT !.ask = FirstOf(<<r.id>> \o r.related \o Ancestors(r, find.edges), answers)]

AttachContext ==
  LET ids == ContextIds(find.results, find.edges) \cap db.archived
  IN  /\ At("presented")
      /\ \E asked \in SUBSET db.archived : find' = [find EXCEPT
           !.at = "done",
           !.asked = asked,
           !.results = [i \in DOMAIN find.results |-> WithContext(find.results[i], ids \cap asked)]]
      /\ UNCHANGED <<db, writes>>

SearchNext ==
  \/ \E s \in Ids : Write(s)
  \/ LoadCandidates
  \/ CollapseLineage
  \/ AttachSnippets
  \/ AttachContext

SearchSpec == SearchInit /\ [][SearchNext]_searchVars

(***************************************************************************)
(* Properties                                                              *)
(***************************************************************************)
Result ==
  [id : Ids, root : Ids, score : Nat, hits : Nat, related : Seq(Ids), row : Rows,
   snippet : Snippet \cup {Null}, ask : Ids \cup {Null}]

SearchTypeOK ==
  /\ db.archived \in SUBSET Ids
  /\ db.parent \in [Ids -> Ids \cup {Null}]
  /\ db.events \in [Rows -> Event \cup {Null}]
  /\ writes \in 0 .. MaxWrites
  /\ find.at \in {"idle", "scored", "collapsed", "presented", "done"}
  /\ find.scored \in Seq(Found)
  /\ find.asked \in SUBSET Ids
  /\ find.edges.known \in SUBSET Ids
  /\ find.results \in Seq(Result)
  /\ Len(find.results) <= Limit

\* What is chosen and folded stays so until the call returns.
Collapsed == At("collapsed")

Members(r) == {r.id} \cup ToSet(r.related)
Matched == {find.scored[i].id : i \in DOMAIN find.scored}
ScoreOf(s) == LET i == CHOOSE j \in DOMAIN find.scored : find.scored[j].id = s IN find.scored[i].score

\* Up[s]: s and all that is above it in the edges the search has loaded.
Above(s) ==
  LET Parent(t) == IF t \in find.edges.known /\ find.edges.parent[t] \in find.edges.known
                     THEN {find.edges.parent[t]} ELSE {}
      Up[n \in 0 .. Cardinality(Ids)] == IF n = 0 THEN {s} ELSE Up[n - 1] \cup UNION {Parent(t) : t \in Up[n - 1]}
  IN  Up[Cardinality(Ids)]

Cyclic(s) == \E t \in Above(s) : find.edges.parent[t] \in Above(s) /\ t \in Above(find.edges.parent[t])

\* Every session that matched is in one result and in one only, counts as one,
\* and is no stronger than the one that represents it; only the request's limit
\* leaves any out.
MatchesPartitioned ==
  Collapsed =>
    LET results == find.results
    IN  /\ \A i, j \in DOMAIN results : i # j => Members(results[i]) \cap Members(results[j]) = {}
        /\ \A i \in DOMAIN results :
             /\ results[i].hits = Cardinality(Members(results[i]))
             /\ Len(results[i].related) = results[i].hits - 1
             /\ \A s \in Members(results[i]) : ScoreOf(s) <= ScoreOf(results[i].id)
        /\ Len(results) < Limit => UNION {Members(results[i]) : i \in DOMAIN results} = Matched

\* A parent task and its subagents do not occupy two slots, however deep and
\* whether or not what joins them has matched; and nothing else is folded
\* together (search-algorithm.md, "Lineage collapse").  Edges that run in a
\* circle end the walk, and say nothing.  Every match is in its slot.
OneSlotPerLineage ==
  SearchTypeOK /\ MatchesPartitioned /\ (Collapsed =>
    LET results == find.results
    IN  /\ \A i, j \in DOMAIN results :
             i # j /\ ~Cyclic(results[i].id) /\ ~Cyclic(results[j].id)
               => Above(results[i].id) \cap Above(results[j].id) = {}
        /\ \A i \in DOMAIN results : \A s \in Members(results[i]) :
             Above(results[i].id) \cap Above(s) # {})

\* All sessions whose bookends the results could need.
Read == UNION {Above(s) : s \in UNION {Members(find.results[i]) : i \in DOMAIN find.results}}

\* The request shown with a result comes from its own lineage, and there is one
\* if any session of that lineage had one when it was read, unless the context
\* query was full (search-algorithm.md: "so an unmatched parent can still supply
\* the task request").
ContextFromLineage ==
  At("done") =>
    \A i \in DOMAIN find.results :
      LET r       == find.results[i]
          lineage == UNION {Above(s) : s \in Members(r)}
      IN  IF r.ask # Null
            THEN r.ask \in lineage \cap find.asked
            ELSE /\ Members(r) \cap find.asked = {}
                 /\ Cardinality(Read) <= ContextLimit => lineage \cap find.asked = {}

\* search.rs:10: "deferring snippet generation cannot alter output text".
SnippetUnaltered ==
  At("done") => \A i \in DOMAIN find.results :
    LET r == find.results[i]
    IN  \E j \in DOMAIN find.scored :
          /\ find.scored[j].id = r.id
          /\ r.snippet = [of |-> r.id, text |-> find.scored[j].text]
=============================================================================
