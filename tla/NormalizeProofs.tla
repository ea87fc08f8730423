---------------------------- MODULE NormalizeProofs ----------------------------
(***************************************************************************)
(* Theorems about Normalize, for every agent, every vocabulary of facts    *)
(* and any number of them, and the lemmas about Projection and Parsers     *)
(* they rest on.                                                           *)
(*                                                                         *)
(* The passes over records and events are recursive functions.  A lemma    *)
(* says of each that it is what its step makes of the one before           *)
(* (AggregatesRead, TasksRead, SpansRead, Flattened, CodexRead,            *)
(* GeminiRead), and what the parsers make of a longer file follows from    *)
(* what they make of the shorter one: Claude's and Pi's records add events *)
(* of their own, Codex's may be the mirror of one that was read, Gemini's  *)
(* may list again what was read.                                           *)
(*                                                                         *)
(* EachSaidOnce needs what the parser remembers (CodexSaid: the users'     *)
(* messages seen carry the times told; GeminiSaid: the ids seen are        *)
(* numbers told), and of Gemini's messages that each tells all it was      *)
(* given, behind an empty answer at most (TellsAll, which two sequences of *)
(* events keep when they are joined: AllJoined). ChecksAccept needs that   *)
(* whatever is parsed can be derived from, also in a read in progress, and *)
(* that the archived spans and aggregates are derived from the archived    *)
(* events. SnapshotCovers and PrintCovers need what each read of           *)
(* OpenCode's database has in common with the ones before it. GrowthKeeps  *)
(* needs that what is archived is a beginning of what the parser would     *)
(* make of the session now, and of what a run has read since.              *)
(***************************************************************************)
EXTENDS Normalize, FiniteSetTheorems, NaturalsInduction, WellFoundedInduction, TLAPS

(***************************************************************************)
(* Sequences                                                               *)
(***************************************************************************)
Entries(s) == {s[i] : i \in DOMAIN s}
IsSequence(s) == s \in Seq(Entries(s))

LEMMA TypedSequence ==
  ASSUME NEW S, NEW s \in Seq(S)
  PROVE  IsSequence(s)
  BY DEF IsSequence, Entries

LEMMA SequenceShape ==
  ASSUME NEW s, IsSequence(s)
  PROVE  Len(s) \in Nat /\ DOMAIN s = 1 .. Len(s)
  BY DEF IsSequence, Entries

LEMMA SequenceOf ==
  ASSUME NEW n \in Nat, NEW f
  PROVE  /\ IsSequence([i \in 1 .. n |-> f[i]])
         /\ Len([i \in 1 .. n |-> f[i]]) = n
  BY DEF IsSequence, Entries

LEMMA SameSequence ==
  ASSUME NEW s, NEW t, IsSequence(s), IsSequence(t), Len(s) = Len(t),
         \A i \in 1 .. Len(s) : s[i] = t[i]
  PROVE  s = t
  BY DEF IsSequence, Entries

LEMMA Appended ==
  ASSUME NEW s, NEW x, IsSequence(s)
  PROVE  /\ IsSequence(Append(s, x))
         /\ Len(Append(s, x)) = Len(s) + 1
         /\ Append(s, x)[Len(s) + 1] = x
         /\ \A i \in 1 .. Len(s) : Append(s, x)[i] = s[i]
  BY DEF IsSequence, Entries

LEMMA Joined ==
  ASSUME NEW s, NEW t, IsSequence(s), IsSequence(t)
  PROVE  /\ IsSequence(s \o t)
         /\ Len(s \o t) = Len(s) + Len(t)
         /\ \A i \in 1 .. Len(s) : (s \o t)[i] = s[i]
         /\ \A i \in 1 .. Len(t) : (s \o t)[Len(s) + i] = t[i]
<1> DEFINE S == Entries(s) \cup Entries(t)
<1>1. s \in Seq(S) /\ t \in Seq(S)
  BY DEF IsSequence, Entries
<1> HIDE DEF S
<1>2. s \o t \in Seq(S)
  BY <1>1
<1>3. IsSequence(s \o t)
  BY <1>2, TypedSequence
<1>4. /\ Len(s \o t) = Len(s) + Len(t)
      /\ \A i \in 1 .. Len(s) : (s \o t)[i] = s[i]
      /\ \A i \in 1 .. Len(t) : (s \o t)[Len(s) + i] = t[i]
  BY <1>1
<1> QED
  BY <1>3, <1>4

(***************************************************************************)
(* Recursion over the events.  A pass is a recursive function of the       *)
(* position: it exists because a least position at which it did not would  *)
(* have a predecessor at which it does.                                    *)
(***************************************************************************)
\* A set of numbers that is not empty has a least one.
LEMMA LeastExists ==
  ASSUME NEW S, S \subseteq Nat, S # {}
  PROVE  \E n \in S : \A m \in S : n <= m
<1>1. IsWellFoundedOn(OpToRel(<, Nat), Nat)
  BY NatLessThanWellFounded
<1>2. PICK n \in S : \A m \in S : <<m, n>> \notin OpToRel(<, Nat)
  BY <1>1, WFMin
<1>3. \A m \in S : ~(m < n)
  BY <1>2 DEF OpToRel
<1> QED
  BY <1>3

\* What holds at 0 and is kept by every step up to a length holds there.
LEMMA UpTo ==
  ASSUME NEW L \in Nat, NEW T, T \subseteq 0 .. L, 0 \in T,
         \A n \in 1 .. L : n - 1 \in T => n \in T
  PROVE  T = 0 .. L
<1> DEFINE Missed == (0 .. L) \ T
<1>1. SUFFICES ASSUME Missed # {} PROVE FALSE
  OBVIOUS
<1>2. PICK n \in Missed : \A m \in Missed : n <= m
  <2>1. Missed \subseteq Nat
    OBVIOUS
  <2> HIDE DEF Missed
  <2> QED
    BY <1>1, <2>1, LeastExists
<1>3. n \in 1 .. L
  OBVIOUS
<1>4. n - 1 \in 0 .. L /\ n - 1 \notin Missed
  BY <1>2, <1>3
<1> QED
  BY <1>3, <1>4

\* Events that can be derived from: a sequence, each with a sequence of tasks.
Listed(events) ==
  /\ IsSequence(events)
  /\ \A i \in DOMAIN events : IsSequence(events[i].tasks)

\* The pass of the aggregates.
NoneSeen(events, session, now) ==
  [event_count |-> Len(events),
   turn_count |-> CountOf(events, LAMBDA e : e.kind \in TurnKinds),
   tool_call_count |-> 0, error_count |-> 0, total_tokens |-> None,
   first_user |-> None, last_assistant |-> None,
   sort_time |-> OrElse(session.ended, OrElse(session.started, now))]

EventSeen(a, e) ==
  [a EXCEPT
     !.tool_call_count = @ + (IF e.kind = "tool_call" THEN 1 ELSE 0),
     !.error_count = @ + (IF e.error THEN 1 ELSE 0),
     !.total_tokens = IF e.usage = None THEN @ ELSE OrElse(@, 0) + e.usage,
     !.first_user = IF e.kind = "user" THEN OrElse(@, Preview(e.text)) ELSE @,
     !.last_assistant = IF e.kind = "assistant" THEN Preview(e.text) ELSE @]

LEMMA AggregatesRead ==
  ASSUME NEW events, Listed(events), NEW session, NEW now
  PROVE  \E pass :
           /\ pass = [i \in 0 .. Len(events) |->
                        IF i = 0 THEN NoneSeen(events, session, now)
                        ELSE EventSeen(pass[i-1], events[i])]
           /\ Aggregates(events, session, now) = pass[Len(events)]
<1> DEFINE none == NoneSeen(events, session, now)
           pass[i \in 0 .. Len(events)] ==
             IF i = 0 THEN none ELSE EventSeen(pass[i-1], events[i])
<1>1. Aggregates(events, session, now) = pass[Len(events)]
  BY DEF Aggregates, NoneSeen, EventSeen
<1>2. Len(events) \in Nat /\ DOMAIN events = 1 .. Len(events)
  BY SequenceShape DEF Listed
<1> HIDE DEF none
<1>3. \E f : f = [i \in 0 .. Len(events) |-> IF i = 0 THEN none ELSE EventSeen(f[i-1], events[i])]
  <2> DEFINE Is(f, n) ==
               f = [i \in 0 .. n |-> IF i = 0 THEN none ELSE EventSeen(f[i-1], events[i])]
             T == {n \in 0 .. Len(events) : \E f : Is(f, n)}
  <2>1. 0 \in T
    <3> DEFINE f == [i \in 0 .. 0 |-> none]
    <3>1. f = [i \in 0 .. 0 |-> IF i = 0 THEN none ELSE EventSeen(f[i-1], events[i])]
      OBVIOUS
    <3>2. Is(f, 0)
      BY <3>1
    <3> HIDE DEF Is, f
    <3> QED
      BY <1>2, <3>2
  <2>2. ASSUME NEW n \in 1 .. Len(events), n - 1 \in T PROVE n \in T
    <3>1. PICK f : Is(f, n - 1)
      BY <2>2
    <3> DEFINE g == [i \in 0 .. n |-> IF i = n THEN EventSeen(f[n-1], events[n]) ELSE f[i]]
    <3>2. \A i \in 0 .. n : g[i] = IF i = 0 THEN none ELSE EventSeen(g[i-1], events[i])
      <4>1. n \in Nat /\ n # 0
        BY <1>2
      <4> QED
        BY <4>1, <3>1
    <3>3. Is(g, n)
      BY <3>2
    <3> HIDE DEF Is, g
    <3> QED
      BY <1>2, <3>3
  <2>3. T \subseteq 0 .. Len(events)
    OBVIOUS
  <2>4. \A n \in 1 .. Len(events) : n - 1 \in T => n \in T
    BY <2>2
  <2> HIDE DEF T
  <2>5. T = 0 .. Len(events)
    BY <1>2, <2>1, <2>3, <2>4, UpTo
  <2>6. Len(events) \in T
    BY <1>2, <2>5
  <2> QED
    BY <2>6 DEF T
<1>4. pass = [i \in 0 .. Len(events) |-> IF i = 0 THEN none ELSE EventSeen(pass[i-1], events[i])]
  BY <1>3
<1> HIDE DEF pass
<1> QED
  BY <1>1, <1>4 DEF none

\* Its counters are those of the events.
CountsOf(events, session, now, a) ==
  /\ a.event_count = Len(events)
  /\ a.turn_count = Cardinality({i \in DOMAIN events : events[i].kind \in TurnKinds})
  /\ a.tool_call_count = Cardinality({i \in DOMAIN events : events[i].kind = "tool_call"})
  /\ a.sort_time = OrElse(session.ended, OrElse(session.started, now))

LEMMA AggregatesCount ==
  ASSUME NEW events, Listed(events), NEW session, NEW now
  PROVE  CountsOf(events, session, now, Aggregates(events, session, now))
<1> DEFINE none == NoneSeen(events, session, now)
           calls_before(n) == {i \in 1 .. n : events[i].kind = "tool_call"}
<1>1. PICK pass : /\ pass = [i \in 0 .. Len(events) |->
                               IF i = 0 THEN none ELSE EventSeen(pass[i-1], events[i])]
                  /\ Aggregates(events, session, now) = pass[Len(events)]
  BY AggregatesRead
<1>2. Len(events) \in Nat /\ DOMAIN events = 1 .. Len(events)
  BY SequenceShape DEF Listed
<1>3. /\ none.event_count = Len(events)
      /\ none.turn_count = Cardinality({i \in DOMAIN events : events[i].kind \in TurnKinds})
      /\ none.tool_call_count = 0
      /\ none.sort_time = OrElse(session.ended, OrElse(session.started, now))
      /\ DOMAIN none = {"event_count", "turn_count", "tool_call_count", "error_count",
                        "total_tokens", "first_user", "last_assistant", "sort_time"}
  BY DEF CountOf, NoneSeen
<1>4. ASSUME NEW a, NEW e, DOMAIN a = DOMAIN none
      PROVE  /\ DOMAIN EventSeen(a, e) = DOMAIN none
             /\ EventSeen(a, e).event_count = a.event_count
             /\ EventSeen(a, e).turn_count = a.turn_count
             /\ EventSeen(a, e).sort_time = a.sort_time
             /\ EventSeen(a, e).tool_call_count =
                  a.tool_call_count + (IF e.kind = "tool_call" THEN 1 ELSE 0)
  BY <1>3, <1>4 DEF EventSeen
<1> HIDE DEF none
<1> DEFINE Counted(n) ==
             /\ DOMAIN pass[n] = DOMAIN none
             /\ pass[n].event_count = none.event_count
             /\ pass[n].turn_count = none.turn_count
             /\ pass[n].sort_time = none.sort_time
             /\ IsFiniteSet(calls_before(n))
             /\ pass[n].tool_call_count = Cardinality(calls_before(n))
           T == {n \in 0 .. Len(events) : Counted(n)}
<1>5. 0 \in T
  <2>1. calls_before(0) = {}
    OBVIOUS
  <2>2. IsFiniteSet(calls_before(0)) /\ Cardinality(calls_before(0)) = 0
    BY <2>1, FS_EmptySet
  <2>3. pass[0] = none
    BY <1>1, <1>2
  <2> HIDE DEF calls_before
  <2> QED
    BY <1>2, <1>3, <2>2, <2>3
<1>6. ASSUME NEW n \in 1 .. Len(events), n - 1 \in T PROVE n \in T
  <2>1. Counted(n - 1)
    BY <1>6
  <2>2. pass[n] = EventSeen(pass[n-1], events[n])
    BY <1>1, <1>2
  <2>3. calls_before(n) = IF events[n].kind = "tool_call" THEN calls_before(n - 1) \cup {n}
                          ELSE calls_before(n - 1)
    BY <1>2
  <2>4. n \notin calls_before(n - 1)
    BY <1>2
  <2> HIDE DEF calls_before
  <2>5. /\ IsFiniteSet(calls_before(n))
        /\ Cardinality(calls_before(n)) =
             Cardinality(calls_before(n - 1)) + (IF events[n].kind = "tool_call" THEN 1 ELSE 0)
    <3>1. IsFiniteSet(calls_before(n - 1)) /\ Cardinality(calls_before(n - 1)) \in Nat
      BY <2>1, FS_CardinalityType
    <3>2. CASE events[n].kind = "tool_call"
      BY <2>3, <2>4, <3>1, <3>2, FS_AddElement
    <3>3. CASE events[n].kind # "tool_call"
      BY <2>3, <3>1, <3>3
    <3> QED
      BY <3>2, <3>3
  <2>6. Counted(n)
    BY <1>4, <2>1, <2>2, <2>5
  <2> HIDE DEF Counted
  <2> QED
    BY <2>6
<1>7. Len(events) \in T
  <2>1. T \subseteq 0 .. Len(events)
    OBVIOUS
  <2>2. \A n \in 1 .. Len(events) : n - 1 \in T => n \in T
    BY <1>6
  <2> HIDE DEF T
  <2>3. T = 0 .. Len(events)
    BY <1>2, <1>5, <2>1, <2>2, UpTo
  <2> QED
    BY <1>2, <2>3
<1>8. Counted(Len(events))
  BY <1>7
<1> QED
  BY <1>1, <1>2, <1>3, <1>8 DEF CountsOf

(***************************************************************************)
(* The spans of a transcript                                               *)
(***************************************************************************)
SpanFields == {"parent", "kind", "status", "started", "ended", "first", "last"}

\* Spans whose parents are among them and whose ranges lie below an index.
SpansBelow(spans, limit) ==
  \A id \in DOMAIN spans :
    /\ DOMAIN spans[id] = SpanFields
    /\ spans[id].parent \in DOMAIN spans \cup {None}
    /\ spans[id].first \in 0 .. limit - 1
    /\ spans[id].last # None => spans[id].last \in spans[id].first .. limit - 1

CallKey(c) == <<"call", c>>

\* No tool call is recorded twice: all that a call id is used for after its
\* first event is the result.
CallsOnce(events) ==
  \A i, j \in DOMAIN events :
    i < j /\ InSpan(events[i]) /\ InSpan(events[j]) /\ events[i].call = events[j].call =>
      events[j].kind = "tool_result"

\* The first n events have their spans, and no other call has one; a span begins
\* no later than its events and, if no call is recorded twice, ends no earlier.
CallsSpanned(spans, events, n) ==
  /\ \A i \in 1 .. n : InSpan(events[i]) =>
       /\ CallId(events[i]) \in DOMAIN spans
       /\ spans[CallId(events[i])].first <= i - 1
       /\ CallsOnce(events) =>
            OrElse(spans[CallId(events[i])].last, spans[CallId(events[i])].first) >= i - 1
  /\ \A c : CallKey(c) \in DOMAIN spans =>
       \E i \in 1 .. n : InSpan(events[i]) /\ events[i].call = c

\* Nothing is lost, and the spans of calls stay as they are.
CallsKept(old, new) ==
  /\ DOMAIN old \subseteq DOMAIN new
  /\ \A c : /\ CallKey(c) \in DOMAIN new => CallKey(c) \in DOMAIN old
            /\ CallKey(c) \in DOMAIN old => new[CallKey(c)] = old[CallKey(c)]

LEMMA CallsKeptOn ==
  ASSUME NEW a, NEW b, NEW c, CallsKept(a, b), CallsKept(b, c)
  PROVE  CallsKept(a, c)
<1>1. DOMAIN a \subseteq DOMAIN c
  BY DEF CallsKept
<1>2. ASSUME NEW x
      PROVE  /\ CallKey(x) \in DOMAIN c => CallKey(x) \in DOMAIN a
             /\ CallKey(x) \in DOMAIN a => c[CallKey(x)] = a[CallKey(x)]
  BY DEF CallsKept
<1> QED
  BY <1>1, <1>2 DEF CallsKept

\* One task record adds its span or extends it.
LEMMA TaskAdded ==
  ASSUME NEW spans, NEW e, NEW task, NEW idx \in Nat,
         SpansBelow(spans, idx + 1), CallId(e) \in DOMAIN spans
  PROVE  /\ SpansBelow(Put(spans, TaskId(task), TaskSpan(spans, e, idx, task)), idx + 1)
         /\ CallsKept(spans, Put(spans, TaskId(task), TaskSpan(spans, e, idx, task)))
<1> DEFINE id == TaskId(task)
           span == TaskSpan(spans, e, idx, task)
           new == Put(spans, id, span)
<1>1. \A c : CallKey(c) # id
  BY DEF CallKey, TaskId
<1>2. /\ DOMAIN span = SpanFields
      /\ span.parent \in DOMAIN spans \cup {None}
      /\ span.first \in 0 .. idx
      /\ span.last # None => span.last \in span.first .. idx
  <2> DEFINE old == At(spans, id, NewSpan(CallId(e), "delegation", task.status, e, idx))
             told == [old EXCEPT !.status = IF task.status = None THEN @ ELSE task.status]
  <2>1. /\ DOMAIN old = SpanFields
        /\ old.parent \in DOMAIN spans \cup {None}
        /\ old.first \in 0 .. idx
        /\ old.last # None => old.last \in old.first .. idx
    BY DEF At, NewSpan, SpansBelow, SpanFields
  <2>2. span = IF task.status \in {None, "active"} THEN told
               ELSE [told EXCEPT !.ended = e.time, !.last = idx]
    BY DEF TaskSpan
  <2> HIDE DEF old, span
  <2>3. /\ DOMAIN told = SpanFields
        /\ told.parent = old.parent /\ told.first = old.first /\ told.last = old.last
    BY <2>1 DEF SpanFields
  <2> HIDE DEF told
  <2> QED
    BY <2>1, <2>2, <2>3 DEF SpanFields
<1> HIDE DEF id, span
<1>3. /\ DOMAIN new = DOMAIN spans \cup {id}
      /\ new[id] = span
      /\ \A x \in DOMAIN spans : x # id => new[x] = spans[x]
  BY DEF Put
<1> HIDE DEF new
<1>4. SpansBelow(new, idx + 1)
  BY <1>2, <1>3 DEF SpansBelow
<1>5. CallsKept(spans, new)
  BY <1>1, <1>3 DEF CallsKept
<1> QED
  BY <1>4, <1>5 DEF id, span, new

\* All task records of an event.
TaskPut(spans, e, idx, i) ==
  Put(spans, TaskId(e.tasks[i]), TaskSpan(spans, e, idx, e.tasks[i]))

LEMMA TasksRead ==
  ASSUME NEW spans, NEW e, IsSequence(e.tasks), NEW idx
  PROVE  \E add :
           /\ add = [i \in 0 .. Len(e.tasks) |->
                       IF i = 0 THEN spans ELSE TaskPut(add[i-1], e, idx, i)]
           /\ AddTasks(spans, e, idx) = add[Len(e.tasks)]
<1> DEFINE
      step(a, i) == TaskPut(a, e, idx, i)
      add[i \in 0 .. Len(e.tasks)] ==
        IF i = 0 THEN spans
        ELSE Put(add[i-1], TaskId(e.tasks[i]), TaskSpan(add[i-1], e, idx, e.tasks[i]))
<1>1. AddTasks(spans, e, idx) = add[Len(e.tasks)]
  BY DEF AddTasks
<1>2. Len(e.tasks) \in Nat
  BY SequenceShape
<1>3. add = CHOOSE f : f = [i \in 0 .. Len(e.tasks) |-> IF i = 0 THEN spans ELSE step(f[i-1], i)]
  BY DEF TaskPut
<1> HIDE DEF step, add
<1>4. \E f : f = [i \in 0 .. Len(e.tasks) |-> IF i = 0 THEN spans ELSE step(f[i-1], i)]
  <2> DEFINE Is(f, n) == f = [i \in 0 .. n |-> IF i = 0 THEN spans ELSE step(f[i-1], i)]
             T == {n \in 0 .. Len(e.tasks) : \E f : Is(f, n)}
  <2>1. 0 \in T
    <3> DEFINE f == [i \in 0 .. 0 |-> spans]
    <3>1. f = [i \in 0 .. 0 |-> IF i = 0 THEN spans ELSE step(f[i-1], i)]
      OBVIOUS
    <3>2. Is(f, 0)
      BY <3>1
    <3> HIDE DEF Is, f
    <3> QED
      BY <1>2, <3>2
  <2>2. ASSUME NEW n \in 1 .. Len(e.tasks), n - 1 \in T PROVE n \in T
    <3>1. PICK f : Is(f, n - 1)
      BY <2>2
    <3> DEFINE g == [i \in 0 .. n |-> IF i = n THEN step(f[n-1], n) ELSE f[i]]
    <3>2. \A i \in 0 .. n : g[i] = IF i = 0 THEN spans ELSE step(g[i-1], i)
      <4>1. n \in Nat /\ n # 0
        BY <1>2
      <4> QED
        BY <4>1, <3>1
    <3>3. Is(g, n)
      BY <3>2
    <3> HIDE DEF Is, g
    <3> QED
      BY <1>2, <3>3
  <2>3. T \subseteq 0 .. Len(e.tasks)
    OBVIOUS
  <2>4. \A n \in 1 .. Len(e.tasks) : n - 1 \in T => n \in T
    BY <2>2
  <2>5. Len(e.tasks) \in T
    <3> HIDE DEF T
    <3>1. T = 0 .. Len(e.tasks)
      BY <1>2, <2>1, <2>3, <2>4, UpTo
    <3> QED
      BY <1>2, <3>1
  <2> QED
    BY <2>5
<1>5. add = [i \in 0 .. Len(e.tasks) |-> IF i = 0 THEN spans ELSE step(add[i-1], i)]
  BY <1>3, <1>4
<1> QED
  BY <1>1, <1>5 DEF step

LEMMA TasksAdded ==
  ASSUME NEW spans, NEW e, IsSequence(e.tasks), NEW idx \in Nat,
         SpansBelow(spans, idx + 1), CallId(e) \in DOMAIN spans
  PROVE  /\ SpansBelow(AddTasks(spans, e, idx), idx + 1)
         /\ CallsKept(spans, AddTasks(spans, e, idx))
<1>1. PICK add : /\ add = [i \in 0 .. Len(e.tasks) |->
                             IF i = 0 THEN spans ELSE TaskPut(add[i-1], e, idx, i)]
                 /\ AddTasks(spans, e, idx) = add[Len(e.tasks)]
  BY TasksRead
<1>2. Len(e.tasks) \in Nat
  BY SequenceShape
<1>3. ASSUME NEW a, NEW i, SpansBelow(a, idx + 1), CallId(e) \in DOMAIN a
      PROVE  SpansBelow(TaskPut(a, e, idx, i), idx + 1) /\ CallsKept(a, TaskPut(a, e, idx, i))
  BY <1>3, TaskAdded DEF TaskPut
<1> DEFINE Added(n) == SpansBelow(add[n], idx + 1) /\ CallsKept(spans, add[n])
           T == {n \in 0 .. Len(e.tasks) : Added(n)}
<1>4. 0 \in T
  <2>1. add[0] = spans
    BY <1>1, <1>2
  <2>2. CallsKept(spans, spans)
    BY DEF CallsKept
  <2> QED
    BY <1>2, <2>1, <2>2
<1>5. ASSUME NEW n \in 1 .. Len(e.tasks), n - 1 \in T PROVE n \in T
  <2>1. Added(n - 1)
    BY <1>5
  <2>0. n \in 0 .. Len(e.tasks) /\ n # 0
    BY <1>2
  <2>2. add[n] = TaskPut(add[n-1], e, idx, n)
    BY <1>1, <2>0
  <2>3. CallId(e) \in DOMAIN add[n-1]
    BY <2>1 DEF CallsKept
  <2>4. SpansBelow(add[n], idx + 1) /\ CallsKept(add[n-1], add[n])
    BY <1>3, <2>1, <2>2, <2>3
  <2>5. Added(n)
    BY <2>1, <2>4, CallsKeptOn
  <2> HIDE DEF Added
  <2> QED
    BY <2>5
<1>6. Len(e.tasks) \in T
  <2>1. T \subseteq 0 .. Len(e.tasks)
    OBVIOUS
  <2>2. \A n \in 1 .. Len(e.tasks) : n - 1 \in T => n \in T
    BY <1>5
  <2> HIDE DEF T
  <2>3. T = 0 .. Len(e.tasks)
    BY <1>2, <1>4, <2>1, <2>2, UpTo
  <2> QED
    BY <1>2, <2>3
<1> QED
  BY <1>1, <1>6

\* A tool event adds the span of its call or extends it.
CallGoes(spans, e, idx, new) ==
  /\ SpansBelow(new, idx + 1)
  /\ DOMAIN new = DOMAIN spans \cup {CallId(e)}
  /\ \A id \in DOMAIN spans : id # CallId(e) => new[id] = spans[id]
  /\ new[CallId(e)].first \in 0 .. idx
  /\ new[CallId(e)].first = IF CallId(e) \in DOMAIN spans THEN spans[CallId(e)].first ELSE idx
  /\ CallId(e) \notin DOMAIN spans => new[CallId(e)].last \in {None, idx}
  /\ e.kind = "tool_result" => new[CallId(e)].last = idx

LEMMA CallAdded ==
  ASSUME NEW spans, NEW e, IsSequence(e.tasks), NEW idx \in Nat, SpansBelow(spans, idx)
  PROVE  CallGoes(spans, e, idx, Put(spans, CallId(e), CallSpan(spans, e, idx)))
<1> DEFINE id == CallId(e)
           span == CallSpan(spans, e, idx)
           new == Put(spans, id, span)
           old == At(spans, id, NewSpan(None, "tool", "active", e, idx))
           seen == [old EXCEPT !.kind = IF e.delegates THEN "delegation" ELSE @,
                               !.started = OrElse(@, e.time)]
<1>1. /\ DOMAIN old = SpanFields
      /\ old.parent \in DOMAIN spans \cup {None}
      /\ old.first \in 0 .. idx
      /\ old.last # None => old.last \in old.first .. idx
      /\ old.first = IF id \in DOMAIN spans THEN spans[id].first ELSE idx
      /\ id \notin DOMAIN spans => old.last = None
  BY DEF At, NewSpan, SpansBelow, SpanFields
<1>2. span = IF e.kind = "tool_result"
             THEN [seen EXCEPT !.ended = e.time, !.last = idx,
                               !.status = IF e.error THEN "failed" ELSE "completed"]
             ELSE seen
  BY DEF CallSpan
<1> HIDE DEF old, span
<1>3. /\ DOMAIN seen = SpanFields
      /\ seen.parent = old.parent /\ seen.first = old.first /\ seen.last = old.last
  BY <1>1 DEF SpanFields
<1> HIDE DEF seen
<1>4. /\ DOMAIN span = SpanFields
      /\ span.parent = old.parent
      /\ span.first = old.first
      /\ span.last = IF e.kind = "tool_result" THEN idx ELSE old.last
  BY <1>2, <1>3 DEF SpanFields
<1> HIDE DEF id
<1>5. /\ DOMAIN new = DOMAIN spans \cup {id}
      /\ new[id] = span
      /\ \A x \in DOMAIN spans : x # id => new[x] = spans[x]
  BY DEF Put
<1> HIDE DEF new
<1>6. SpansBelow(new, idx + 1)
  <2> SUFFICES ASSUME NEW x \in DOMAIN new
               PROVE  /\ DOMAIN new[x] = SpanFields
                      /\ new[x].parent \in DOMAIN new \cup {None}
                      /\ new[x].first \in 0 .. idx
                      /\ new[x].last # None => new[x].last \in new[x].first .. idx
    BY DEF SpansBelow
  <2>1. CASE x = id
    BY <1>1, <1>4, <1>5, <2>1
  <2>2. CASE x # id
    BY <1>5, <2>2 DEF SpansBelow
  <2> QED
    BY <2>1, <2>2
<1> QED
  BY <1>1, <1>4, <1>5, <1>6 DEF CallGoes, id, span, new

\* What one more event of a transcript does to its spans.
LEMMA EventSpanned ==
  ASSUME NEW events, Listed(events), NEW n \in 1 .. Len(events), NEW spans,
         SpansBelow(spans, n - 1), CallsSpanned(spans, events, n - 1), InSpan(events[n]),
         NEW new,
         new = AddTasks(Put(spans, CallId(events[n]), CallSpan(spans, events[n], n - 1)),
                        events[n], n - 1)
  PROVE  SpansBelow(new, n) /\ CallsSpanned(new, events, n)
<1> DEFINE e == events[n]
           idx == n - 1
           id == CallId(e)
           mid == Put(spans, id, CallSpan(spans, e, idx))
<1>1. IsSequence(e.tasks) /\ idx \in Nat /\ n \in Nat /\ idx + 1 = n /\ idx = n - 1
  BY SequenceShape DEF Listed
<1>0. new = AddTasks(mid, e, idx) /\ SpansBelow(spans, idx)
  OBVIOUS
<1> HIDE DEF idx
<1>2. /\ SpansBelow(mid, n)
      /\ DOMAIN mid = DOMAIN spans \cup {id}
      /\ \A x \in DOMAIN spans : x # id => mid[x] = spans[x]
      /\ mid[id].first \in 0 .. n - 1
      /\ mid[id].first = IF id \in DOMAIN spans THEN spans[id].first ELSE n - 1
      /\ id \notin DOMAIN spans => mid[id].last \in {None, n - 1}
      /\ e.kind = "tool_result" => mid[id].last = n - 1
  <2> HIDE DEF e
  <2>1. CallGoes(spans, e, idx, mid)
    BY <1>0, <1>1, CallAdded
  <2> HIDE DEF mid
  <2> QED
    BY <1>1, <2>1 DEF CallGoes
<1> HIDE DEF mid
<1>3. SpansBelow(new, n) /\ CallsKept(mid, new)
  <2>1. SpansBelow(mid, idx + 1) /\ CallId(e) \in DOMAIN mid
    BY <1>1, <1>2
  <2> HIDE DEF e
  <2>2. SpansBelow(new, idx + 1) /\ CallsKept(mid, new)
    BY <1>0, <1>1, <2>1, TasksAdded
  <2> QED
    BY <1>1, <2>2
<1>4. \A c : CallKey(c) = id <=> c = e.call
  BY DEF CallKey, CallId
<1>5. \A i \in 1 .. Len(events) : CallId(events[i]) = CallKey(events[i].call)
  BY DEF CallKey, CallId
<1>6. ASSUME NEW i \in 1 .. n, InSpan(events[i])
      PROVE  /\ CallId(events[i]) \in DOMAIN new
             /\ new[CallId(events[i])].first <= i - 1
             /\ CallsOnce(events) =>
                  OrElse(new[CallId(events[i])].last, new[CallId(events[i])].first) >= i - 1
  <2> DEFINE key == CallId(events[i])
  <2>1. key \in DOMAIN mid => key \in DOMAIN new /\ new[key] = mid[key]
    BY <1>3, <1>5 DEF CallsKept
  <2>2. CASE i = n
    <3>1. key = id
      BY <2>2
    <3>2. id \in DOMAIN spans /\ CallsOnce(events) => e.kind = "tool_result"
      <4>1. SUFFICES ASSUME id \in DOMAIN spans, CallsOnce(events) PROVE e.kind = "tool_result"
        OBVIOUS
      <4>2. PICK j \in 1 .. n - 1 : InSpan(events[j]) /\ events[j].call = e.call
        BY <1>4, <4>1 DEF CallsSpanned
      <4>3. j \in DOMAIN events /\ n \in DOMAIN events /\ j < n
        OBVIOUS
      <4> QED
        BY <4>1, <4>2, <4>3 DEF CallsOnce
    <3>3. CallsOnce(events) => OrElse(mid[id].last, mid[id].first) >= n - 1
      BY <1>1, <1>2, <3>2, ProjectionAssumption DEF OrElse
    <3> QED
      BY <1>1, <1>2, <2>1, <2>2, <3>1, <3>3
  <2>3. CASE i # n /\ events[i].call # e.call
    <3>1. i \in 1 .. n - 1
      BY <2>3
    <3>2. key # id
      BY <2>3 DEF CallId
    <3>3. key \in DOMAIN spans
      BY <1>6, <3>1 DEF CallsSpanned
    <3>4. new[key] = spans[key] /\ key \in DOMAIN new
      BY <1>2, <2>1, <3>2, <3>3
    <3> QED
      BY <1>6, <3>1, <3>4 DEF CallsSpanned
  <2>4. CASE i # n /\ events[i].call = e.call
    <3>1. i \in 1 .. n - 1
      BY <2>4
    <3>2. key = id
      BY <2>4 DEF CallId
    <3>3. id \in DOMAIN spans /\ spans[id].first <= i - 1
      BY <1>6, <3>1, <3>2 DEF CallsSpanned
    <3>4. mid[id].first = spans[id].first
      BY <1>2, <3>3
    <3>5. CallsOnce(events) => e.kind = "tool_result"
      BY <1>6, <2>4, <3>1 DEF CallsOnce
    <3>6. CallsOnce(events) => OrElse(mid[id].last, mid[id].first) >= i - 1
      BY <1>1, <1>2, <3>1, <3>5, ProjectionAssumption DEF OrElse
    <3> QED
      BY <1>2, <2>1, <3>2, <3>3, <3>4, <3>6
  <2> QED
    BY <2>2, <2>3, <2>4
<1>7. ASSUME NEW c, CallKey(c) \in DOMAIN new
      PROVE  \E i \in 1 .. n : InSpan(events[i]) /\ events[i].call = c
  <2>1. CallKey(c) \in DOMAIN mid
    BY <1>3, <1>7 DEF CallsKept
  <2>2. CASE CallKey(c) = id
    BY <1>4, <2>2
  <2>3. CASE CallKey(c) # id
    <3>1. CallKey(c) \in DOMAIN spans
      BY <1>2, <2>1, <2>3
    <3> QED
      BY <3>1 DEF CallsSpanned
  <2> QED
    BY <2>2, <2>3
<1> QED
  BY <1>3, <1>6, <1>7 DEF CallsSpanned

\* The pass of the spans.
NoSpans == [id \in {} |-> None]

EventPut(spans, e, i) ==
  IF InSpan(e) THEN AddTasks(Put(spans, CallId(e), CallSpan(spans, e, i - 1)), e, i - 1)
  ELSE spans

LEMMA SpansRead ==
  ASSUME NEW events, Listed(events)
  PROVE  \E derive :
           /\ derive = [i \in 0 .. Len(events) |->
                          IF i = 0 THEN NoSpans ELSE EventPut(derive[i-1], events[i], i)]
           /\ DeriveSpans(events) = derive[Len(events)]
<1> DEFINE
      none == NoSpans
      step(a, i) == EventPut(a, events[i], i)
      derive[i \in 0 .. Len(events)] ==
        IF i = 0 THEN [id \in {} |-> None]
        ELSE LET e == events[i]
                 spans == derive[i-1]
             IN IF InSpan(e)
                THEN AddTasks(Put(spans, CallId(e), CallSpan(spans, e, i - 1)), e, i - 1)
                ELSE spans
<1>1. DeriveSpans(events) = derive[Len(events)]
  BY DEF DeriveSpans
<1>2. Len(events) \in Nat /\ DOMAIN events = 1 .. Len(events)
  BY SequenceShape DEF Listed
<1>3. derive = CHOOSE f : f = [i \in 0 .. Len(events) |-> IF i = 0 THEN none ELSE step(f[i-1], i)]
  BY DEF EventPut, NoSpans
<1> HIDE DEF step, derive, none
<1>4. \E f : f = [i \in 0 .. Len(events) |-> IF i = 0 THEN none ELSE step(f[i-1], i)]
  <2> DEFINE Is(f, n) == f = [i \in 0 .. n |-> IF i = 0 THEN none ELSE step(f[i-1], i)]
             T == {n \in 0 .. Len(events) : \E f : Is(f, n)}
  <2>1. 0 \in T
    <3> DEFINE f == [i \in 0 .. 0 |-> none]
    <3>1. f = [i \in 0 .. 0 |-> IF i = 0 THEN none ELSE step(f[i-1], i)]
      OBVIOUS
    <3>2. Is(f, 0)
      BY <3>1
    <3> HIDE DEF Is, f
    <3> QED
      BY <1>2, <3>2
  <2>2. ASSUME NEW n \in 1 .. Len(events), n - 1 \in T PROVE n \in T
    <3>1. PICK f : Is(f, n - 1)
      BY <2>2
    <3> DEFINE g == [i \in 0 .. n |-> IF i = n THEN step(f[n-1], n) ELSE f[i]]
    <3>2. \A i \in 0 .. n : g[i] = IF i = 0 THEN none ELSE step(g[i-1], i)
      <4>1. n \in Nat /\ n # 0
        BY <1>2
      <4> QED
        BY <4>1, <3>1
    <3>3. Is(g, n)
      BY <3>2
    <3> HIDE DEF Is, g
    <3> QED
      BY <1>2, <3>3
  <2>3. T \subseteq 0 .. Len(events)
    OBVIOUS
  <2>4. \A n \in 1 .. Len(events) : n - 1 \in T => n \in T
    BY <2>2
  <2>5. Len(events) \in T
    <3> HIDE DEF T
    <3>1. T = 0 .. Len(events)
      BY <1>2, <2>1, <2>3, <2>4, UpTo
    <3> QED
      BY <1>2, <3>1
  <2> QED
    BY <2>5
<1>5. derive = [i \in 0 .. Len(events) |-> IF i = 0 THEN none ELSE step(derive[i-1], i)]
  BY <1>3, <1>4
<1> QED
  BY <1>1, <1>5 DEF step, none

\* The spans of a transcript: what verify checks of them, and what a window of
\* show relies on.
LEMMA SpansDerived ==
  ASSUME NEW events, Listed(events)
  PROVE  /\ SpansBelow(DeriveSpans(events), Len(events))
         /\ CallsSpanned(DeriveSpans(events), events, Len(events))
<1> DEFINE step(a, i) == EventPut(a, events[i], i)
<1>1. PICK derive : /\ derive = [i \in 0 .. Len(events) |->
                                   IF i = 0 THEN NoSpans ELSE EventPut(derive[i-1], events[i], i)]
                    /\ DeriveSpans(events) = derive[Len(events)]
  BY SpansRead
<1>2. Len(events) \in Nat /\ DOMAIN events = 1 .. Len(events)
  BY SequenceShape DEF Listed
<1>3. ASSUME NEW a, NEW n \in 1 .. Len(events),
             SpansBelow(a, n - 1), CallsSpanned(a, events, n - 1)
      PROVE  SpansBelow(step(a, n), n) /\ CallsSpanned(step(a, n), events, n)
  <2>1. CASE InSpan(events[n])
    BY <1>3, <2>1, EventSpanned DEF EventPut
  <2>2. CASE ~InSpan(events[n])
    <3>1. step(a, n) = a
      BY <2>2 DEF EventPut
    <3>2. SpansBelow(a, n)
      BY <1>2, <1>3 DEF SpansBelow
    <3>3. CallsSpanned(a, events, n)
      BY <1>2, <1>3, <2>2 DEF CallsSpanned
    <3> QED
      BY <3>1, <3>2, <3>3
  <2> QED
    BY <2>1, <2>2
<1>4. SpansBelow(NoSpans, 0) /\ CallsSpanned(NoSpans, events, 0)
  BY DEF NoSpans, SpansBelow, CallsSpanned
<1> DEFINE Derived(n) == SpansBelow(derive[n], n) /\ CallsSpanned(derive[n], events, n)
           T == {n \in 0 .. Len(events) : Derived(n)}
<1>5. 0 \in T
  <2>1. derive[0] = NoSpans
    BY <1>1, <1>2
  <2> QED
    BY <1>2, <1>4, <2>1
<1>6. ASSUME NEW n \in 1 .. Len(events), n - 1 \in T PROVE n \in T
  <2>1. Derived(n - 1)
    BY <1>6
  <2>2. derive[n] = step(derive[n-1], n)
    BY <1>1, <1>2
  <2>3. Derived(n)
    BY <1>3, <2>1, <2>2
  <2> HIDE DEF Derived
  <2> QED
    BY <2>3
<1>7. Len(events) \in T
  <2>1. T \subseteq 0 .. Len(events)
    OBVIOUS
  <2>2. \A n \in 1 .. Len(events) : n - 1 \in T => n \in T
    BY <1>6
  <2> HIDE DEF T
  <2>3. T = 0 .. Len(events)
    BY <1>2, <1>5, <2>1, <2>2, UpTo
  <2> QED
    BY <1>2, <2>3
<1> QED
  BY <1>1, <1>7

(***************************************************************************)
(* OpenCode's database                                                     *)
(***************************************************************************)
\* What one more row of the join adds.
RowJoined(db, events, i) ==
  IF db.parts[i].message \in db.messages
  THEN Append(events, EventOf(db.parts[i].fact.kind, db.parts[i].fact))
  ELSE events

LEMMA JoinedRows ==
  ASSUME NEW db, IsSequence(db.parts)
  PROVE  \E joined :
           /\ joined = [i \in 0 .. Len(db.parts) |->
                          IF i = 0 THEN <<>> ELSE RowJoined(db, joined[i-1], i)]
           /\ OpenCodeEvents(db) = Unflagged(joined[Len(db.parts)])
<1> DEFINE joined[i \in 0 .. Len(db.parts)] ==
             IF i = 0 THEN <<>>
             ELSE IF db.parts[i].message \in db.messages
                  THEN Append(joined[i-1], EventOf(db.parts[i].fact.kind, db.parts[i].fact))
                  ELSE joined[i-1]
<1>1. OpenCodeEvents(db) = Unflagged(joined[Len(db.parts)])
  BY DEF OpenCodeEvents
<1>2. Len(db.parts) \in Nat
  BY SequenceShape
<1>3. joined = CHOOSE f : f = [i \in 0 .. Len(db.parts) |->
                                 IF i = 0 THEN <<>> ELSE RowJoined(db, f[i-1], i)]
  BY DEF RowJoined
<1> HIDE DEF joined
<1>4. \E f : f = [i \in 0 .. Len(db.parts) |-> IF i = 0 THEN <<>> ELSE RowJoined(db, f[i-1], i)]
  <2> DEFINE Is(f, n) == f = [i \in 0 .. n |-> IF i = 0 THEN <<>> ELSE RowJoined(db, f[i-1], i)]
             T == {n \in 0 .. Len(db.parts) : \E f : Is(f, n)}
  <2>1. 0 \in T
    <3> DEFINE f == [i \in 0 .. 0 |-> <<>>]
    <3>1. f = [i \in 0 .. 0 |-> IF i = 0 THEN <<>> ELSE RowJoined(db, f[i-1], i)]
      OBVIOUS
    <3>2. Is(f, 0)
      BY <3>1
    <3> HIDE DEF Is, f
    <3> QED
      BY <1>2, <3>2
  <2>2. ASSUME NEW n \in 1 .. Len(db.parts), n - 1 \in T PROVE n \in T
    <3>1. PICK f : Is(f, n - 1)
      BY <2>2
    <3> DEFINE g == [i \in 0 .. n |-> IF i = n THEN RowJoined(db, f[n-1], n) ELSE f[i]]
    <3>2. \A i \in 0 .. n : g[i] = IF i = 0 THEN <<>> ELSE RowJoined(db, g[i-1], i)
      <4>1. n \in Nat /\ n # 0
        BY <1>2
      <4> QED
        BY <4>1, <3>1
    <3>3. Is(g, n)
      BY <3>2
    <3> HIDE DEF Is, g
    <3> QED
      BY <1>2, <3>3
  <2>3. T \subseteq 0 .. Len(db.parts)
    OBVIOUS
  <2>4. \A n \in 1 .. Len(db.parts) : n - 1 \in T => n \in T
    BY <2>2
  <2>5. Len(db.parts) \in T
    <3> HIDE DEF T
    <3>1. T = 0 .. Len(db.parts)
      BY <1>2, <2>1, <2>3, <2>4, UpTo
    <3> QED
      BY <1>2, <3>1
  <2> QED
    BY <2>5
<1>5. joined = [i \in 0 .. Len(db.parts) |-> IF i = 0 THEN <<>> ELSE RowJoined(db, joined[i-1], i)]
  BY <1>3, <1>4
<1> QED
  BY <1>1, <1>5

\* Every event is made of a part whose message is there; and if all messages
\* are, every part makes the event of its place.
LEMMA OpenCodeRead ==
  ASSUME NEW db, IsSequence(db.parts)
  PROVE  LET events == OpenCodeEvents(db)
             made(p) == [EventOf(p.fact.kind, p.fact) EXCEPT !.error = FALSE]
         IN /\ IsSequence(events)
            /\ \A i \in DOMAIN events :
                 \E k \in DOMAIN db.parts :
                   /\ db.parts[k].message \in db.messages
                   /\ events[i] = made(db.parts[k])
            /\ (\A k \in DOMAIN db.parts : db.parts[k].message \in db.messages) =>
                 /\ Len(events) = Len(db.parts)
                 /\ \A k \in 1 .. Len(db.parts) : events[k] = made(db.parts[k])
<1> DEFINE L == Len(db.parts)
           event(k) == EventOf(db.parts[k].fact.kind, db.parts[k].fact)
           all == \A k \in DOMAIN db.parts : db.parts[k].message \in db.messages
<1>1. PICK joined :
        /\ joined = [i \in 0 .. L |-> IF i = 0 THEN <<>> ELSE RowJoined(db, joined[i-1], i)]
        /\ OpenCodeEvents(db) = Unflagged(joined[L])
  BY JoinedRows
<1>2. L \in Nat /\ DOMAIN db.parts = 1 .. L
  BY SequenceShape
<1> HIDE DEF L, event
<1> DEFINE Good(n) ==
             /\ IsSequence(joined[n])
             /\ \A i \in DOMAIN joined[n] :
                  \E k \in 1 .. n : db.parts[k].message \in db.messages /\ joined[n][i] = event(k)
             /\ all => Len(joined[n]) = n /\ \A k \in 1 .. n : joined[n][k] = event(k)
           T == {n \in 0 .. L : Good(n)}
<1>3. 0 \in T
  <2>1. joined[0] = <<>>
    BY <1>1, <1>2
  <2>2. IsSequence(<<>>) /\ DOMAIN <<>> = {} /\ Len(<<>>) = 0
    BY DEF IsSequence, Entries
  <2> QED
    BY <1>2, <2>1, <2>2
<1>4. ASSUME NEW n \in 1 .. L, n - 1 \in T PROVE n \in T
  <2>1. Good(n - 1)
    BY <1>4
  <2>2. joined[n] = RowJoined(db, joined[n-1], n)
    BY <1>1, <1>2
  <2>3. CASE db.parts[n].message \in db.messages
    <3>1. joined[n] = Append(joined[n-1], event(n))
      BY <2>2, <2>3 DEF RowJoined, event
    <3>2. /\ IsSequence(joined[n]) /\ Len(joined[n]) = Len(joined[n-1]) + 1
          /\ joined[n][Len(joined[n-1]) + 1] = event(n)
          /\ \A i \in 1 .. Len(joined[n-1]) : joined[n][i] = joined[n-1][i]
      BY <2>1, <3>1, Appended
    <3>3. /\ Len(joined[n-1]) \in Nat /\ DOMAIN joined[n-1] = 1 .. Len(joined[n-1])
          /\ DOMAIN joined[n] = 1 .. Len(joined[n])
      BY <2>1, <3>2, SequenceShape
    <3>4. \A i \in DOMAIN joined[n] :
            \E k \in 1 .. n : db.parts[k].message \in db.messages /\ joined[n][i] = event(k)
      <4> SUFFICES ASSUME NEW i \in DOMAIN joined[n]
                   PROVE  \E k \in 1 .. n : db.parts[k].message \in db.messages
                                            /\ joined[n][i] = event(k)
        OBVIOUS
      <4>1. CASE i = Len(joined[n-1]) + 1
        BY <1>2, <2>3, <3>2, <4>1
      <4>2. CASE i \in 1 .. Len(joined[n-1])
        <5>1. PICK k \in 1 .. n - 1 : db.parts[k].message \in db.messages
                                      /\ joined[n-1][i] = event(k)
          BY <2>1, <3>3, <4>2
        <5>2. k \in 1 .. n
          BY <1>2
        <5> QED
          BY <3>2, <4>2, <5>1, <5>2
      <4>3. i = Len(joined[n-1]) + 1 \/ i \in 1 .. Len(joined[n-1])
        BY <3>2, <3>3
      <4> QED
        BY <4>1, <4>2, <4>3
    <3>5. all => Len(joined[n]) = n /\ \A k \in 1 .. n : joined[n][k] = event(k)
      <4> SUFFICES ASSUME all, NEW k \in 1 .. n PROVE Len(joined[n]) = n /\ joined[n][k] = event(k)
        BY <1>2
      <4>1. Len(joined[n-1]) = n - 1 /\ \A j \in 1 .. n - 1 : joined[n-1][j] = event(j)
        BY <2>1
      <4>2. k = n \/ k \in 1 .. n - 1
        BY <1>2
      <4> HIDE DEF all
      <4> QED
        BY <1>2, <3>2, <4>1, <4>2
    <3> QED
      BY <3>2, <3>4, <3>5
  <2>4. CASE db.parts[n].message \notin db.messages
    <3>1. joined[n] = joined[n-1]
      BY <2>2, <2>4 DEF RowJoined
    <3>2. ~all
      BY <1>2, <2>4
    <3>3. \A k \in 1 .. n - 1 : k \in 1 .. n
      BY <1>2
    <3> QED
      BY <2>1, <3>1, <3>2, <3>3
  <2> QED
    BY <2>3, <2>4
<1>5. Good(L)
  <2>1. T \subseteq 0 .. L
    OBVIOUS
  <2>2. \A n \in 1 .. L : n - 1 \in T => n \in T
    BY <1>4
  <2> HIDE DEF T
  <2>3. T = 0 .. L
    BY <1>2, <1>3, <2>1, <2>2, UpTo
  <2>4. L \in T
    BY <1>2, <2>3
  <2> QED
    BY <2>4 DEF T
<1> DEFINE raw == joined[L]
           events == OpenCodeEvents(db)
<1>6. /\ events = [i \in 1 .. Len(raw) |-> [raw[i] EXCEPT !.error = FALSE]]
      /\ Len(raw) \in Nat
  BY <1>1, <1>5, SequenceShape DEF Unflagged
<1>7. /\ IsSequence(events) /\ Len(events) = Len(raw)
      /\ \A i \in 1 .. Len(raw) : events[i] = [raw[i] EXCEPT !.error = FALSE]
  <2> DEFINE f == [i \in 1 .. Len(raw) |-> [raw[i] EXCEPT !.error = FALSE]]
  <2>1. IsSequence([i \in 1 .. Len(raw) |-> f[i]]) /\ Len([i \in 1 .. Len(raw) |-> f[i]]) = Len(raw)
    BY <1>6, SequenceOf
  <2>2. f = [i \in 1 .. Len(raw) |-> f[i]]
    OBVIOUS
  <2> QED
    BY <1>6, <2>1, <2>2
<1>8. DOMAIN raw = 1 .. Len(raw) /\ DOMAIN events = 1 .. Len(raw)
  BY <1>5, <1>6, SequenceShape
<1> HIDE DEF raw, events
<1>9. ASSUME NEW i \in DOMAIN events
      PROVE  \E k \in DOMAIN db.parts :
               /\ db.parts[k].message \in db.messages
               /\ events[i] = [event(k) EXCEPT !.error = FALSE]
  <2>1. PICK k \in 1 .. L : db.parts[k].message \in db.messages /\ raw[i] = event(k)
    BY <1>5, <1>8 DEF raw
  <2> QED
    BY <1>2, <1>7, <1>8, <2>1
<1>10. all => /\ Len(events) = Len(db.parts)
              /\ \A k \in 1 .. Len(db.parts) : events[k] = [event(k) EXCEPT !.error = FALSE]
  BY <1>5, <1>7 DEF raw, L
<1> QED
  BY <1>7, <1>9, <1>10 DEF events, event

(***************************************************************************)
(* OpenCode: what is read of a database that is written meanwhile          *)
(***************************************************************************)
FactFields == {"n", "kind", "call", "delegates", "tasks", "error", "usage", "text",
               "time", "state"}

ReadingFields == {"at", "print", "updated", "events", "messages", "parts", "bundled", "bundle"}

\* The rows: every part belongs to a message that is there.
Database ==
  LiveDatabase =>
    /\ DOMAIN native = {"messages", "parts", "updated"}
    /\ native.updated \in Nat
    /\ IsSequence(native.parts)
    /\ \A i \in DOMAIN native.parts :
         /\ DOMAIN native.parts[i] = {"message", "fact"}
         /\ DOMAIN native.parts[i].fact = FactFields
         /\ native.parts[i].message \in native.messages
    /\ reading # None => DOMAIN reading = ReadingFields
    /\ reading # None /\ reading.at \in {"events", "joined"} => reading.events = <<>>

\* Events that were read under a fingerprint are OpenCode's for as long as no write
\* has advanced the time in it.
Current(print, events) ==
  /\ print[1] \in Nat /\ print[1] <= native.updated
  /\ print[1] = native.updated => events = OpenCodeEvents(native)

PrintInv ==
  LiveDatabase =>
    /\ reading # None => reading.print[1] \in Nat /\ reading.print[1] <= native.updated
    /\ reading # None /\ reading.at \notin {"events", "joined"} =>
         Current(reading.print, reading.events)
    /\ archived # None => Current(archived.print, archived.events)

\* A part tells a fact, and its message is there.
FactShown(messages, parts, n) ==
  \E i \in DOMAIN parts : parts[i].fact.n = n /\ parts[i].message \in messages

\* What was indexed is still there, and each copy holds it once it was made.
CopiesInv ==
  (LiveDatabase /\ reading # None) =>
    \A i \in DOMAIN reading.events :
      LET n == reading.events[i].of
      IN /\ FactShown(native.messages, native.parts, n)
         /\ reading.at \in {"parts", "bundle", "rows", "backup"} =>
              FactShown(reading.messages, native.parts, n)
         /\ reading.at \in {"bundle", "rows", "backup"} =>
              FactShown(reading.messages, reading.parts, n)
         /\ reading.at \in {"rows", "backup"} => FactShown(reading.bundled, native.parts, n)
         /\ reading.at = "backup" => FactShown(reading.bundled, reading.bundle, n)
\* A part told again, with the state of its call.
LEMMA PartFinished ==
  ASSUME LiveDatabase, Database, NEW i \in DOMAIN native.parts, NEW parts,
         parts = [native EXCEPT !.parts[i].fact.state = 1].parts
  PROVE  /\ IsSequence(parts) /\ Len(parts) = Len(native.parts)
         /\ DOMAIN parts = DOMAIN native.parts
         /\ \A j \in DOMAIN parts :
              /\ DOMAIN parts[j] = {"message", "fact"}
              /\ DOMAIN parts[j].fact = FactFields
              /\ parts[j].message = native.parts[j].message
              /\ \A field \in FactFields \ {"state"} :
                   parts[j].fact[field] = native.parts[j].fact[field]
<1> DEFINE old == native.parts
           part == [old[i] EXCEPT !.fact = [old[i].fact EXCEPT !.state = 1]]
<1>1. /\ DOMAIN native = {"messages", "parts", "updated"} /\ IsSequence(old)
      /\ \A j \in DOMAIN old : /\ DOMAIN old[j] = {"message", "fact"}
                               /\ DOMAIN old[j].fact = FactFields
  BY DEF Database
<1>2. parts = [old EXCEPT ![i] = part]
  BY <1>1
<1>3. Len(old) \in Nat /\ DOMAIN old = 1 .. Len(old)
  BY <1>1, SequenceShape
<1>4. /\ DOMAIN part = {"message", "fact"} /\ part.message = old[i].message
      /\ DOMAIN part.fact = FactFields
      /\ \A field \in FactFields \ {"state"} : part.fact[field] = old[i].fact[field]
  BY <1>1 DEF FactFields
<1> HIDE DEF old, part
<1>5. parts = [j \in 1 .. Len(old) |-> parts[j]]
  BY <1>2, <1>3
<1>6. IsSequence(parts) /\ Len(parts) = Len(old)
  BY <1>3, <1>5, SequenceOf
<1>7. /\ DOMAIN parts = DOMAIN old
      /\ \A j \in DOMAIN parts : parts[j] = IF j = i THEN part ELSE old[j]
  BY <1>2, <1>3
<1> QED
  BY <1>1, <1>4, <1>6, <1>7 DEF old

\* What OpenCode writes only adds to what is there, and advances the session's time
\* unless it edits a part quietly.
LEMMA DatabaseWritten ==
  ASSUME LiveDatabase, Database, OpenMessage \/ AddPart \/ FinishPart
  PROVE  /\ Database'
         /\ native'.updated >= native.updated
         /\ QuietEdits = FALSE => native'.updated > native.updated
         /\ native.messages \subseteq native'.messages
         /\ \A messages, n : FactShown(messages, native.parts, n) => FactShown(messages, native'.parts, n)
         /\ UNCHANGED <<agent, path, reading, archived>>
<1>0. /\ DOMAIN native = {"messages", "parts", "updated"}
      /\ native.updated \in Nat /\ IsSequence(native.parts)
      /\ \A i \in DOMAIN native.parts :
           /\ DOMAIN native.parts[i] = {"message", "fact"}
           /\ DOMAIN native.parts[i].fact = FactFields
           /\ native.parts[i].message \in native.messages
      /\ Len(native.parts) \in Nat /\ DOMAIN native.parts = 1 .. Len(native.parts)
  BY SequenceShape DEF Database
<1>1. UNCHANGED <<agent, path, reading, archived>>
  BY DEF OpenMessage, AddPart, FinishPart
<1>2. SUFFICES
        /\ DOMAIN native' = {"messages", "parts", "updated"}
        /\ native'.updated \in Nat /\ native'.updated >= native.updated
        /\ QuietEdits = FALSE => native'.updated > native.updated
        /\ native.messages \subseteq native'.messages
        /\ IsSequence(native'.parts)
        /\ \A i \in DOMAIN native'.parts :
             /\ DOMAIN native'.parts[i] = {"message", "fact"}
             /\ DOMAIN native'.parts[i].fact = FactFields
             /\ native'.parts[i].message \in native'.messages
        /\ \A i \in DOMAIN native.parts :
             /\ i \in DOMAIN native'.parts
             /\ native'.parts[i].message = native.parts[i].message
             /\ native'.parts[i].fact.n = native.parts[i].fact.n
  <2>1. ASSUME NEW messages, NEW n, FactShown(messages, native.parts, n),
               \A i \in DOMAIN native.parts :
                 /\ i \in DOMAIN native'.parts
                 /\ native'.parts[i].message = native.parts[i].message
                 /\ native'.parts[i].fact.n = native.parts[i].fact.n
        PROVE  FactShown(messages, native'.parts, n)
    BY <2>1 DEF FactShown
  <2> QED
    BY <1>1, <2>1 DEF Database, LiveDatabase
<1>3. CASE OpenMessage
  BY <1>0, <1>3 DEF OpenMessage
<1>4. CASE AddPart
  <2>1. PICK t \in Vocabulary[agent], m \in native.messages :
          native' = [native EXCEPT
                       !.parts = Append(@, [message |-> m, fact |-> Fact(t, Len(said) + 1)]),
                       !.updated = @ + 1]
    BY <1>4 DEF AddPart
  <2> DEFINE part == [message |-> m, fact |-> Fact(t, Len(said) + 1)]
  <2>2. DOMAIN part = {"message", "fact"} /\ DOMAIN part.fact = FactFields /\ part.message = m
    BY DEF Fact, FactFields
  <2> HIDE DEF part
  <2>3. /\ DOMAIN native' = {"messages", "parts", "updated"}
        /\ native'.updated = native.updated + 1 /\ native'.messages = native.messages
        /\ native'.parts = Append(native.parts, part)
    BY <1>0, <2>1 DEF part
  <2>4. /\ IsSequence(native'.parts) /\ Len(native'.parts) = Len(native.parts) + 1
        /\ native'.parts[Len(native.parts) + 1] = part
        /\ \A i \in 1 .. Len(native.parts) : native'.parts[i] = native.parts[i]
    BY <1>0, <2>3, Appended
  <2>5. DOMAIN native'.parts = 1 .. Len(native.parts) + 1
    BY <2>4, SequenceShape
  <2> QED
    BY <1>0, <2>2, <2>3, <2>4, <2>5
<1>5. CASE FinishPart
  <2>1. PICK i \in DOMAIN native.parts, quiet \in {FALSE, QuietEdits} :
          native' = [native EXCEPT !.parts[i].fact.state = 1,
                                   !.updated = IF quiet THEN @ ELSE @ + 1]
    BY <1>5 DEF FinishPart
  <2> DEFINE edited == [native EXCEPT !.parts[i].fact.state = 1]
  <2>2. native' = [edited EXCEPT !.updated = IF quiet THEN @ ELSE @ + 1]
    BY <2>1
  <2>3. /\ DOMAIN edited = {"messages", "parts", "updated"}
        /\ edited.updated = native.updated /\ edited.messages = native.messages
    BY <1>0
  <2> HIDE DEF edited
  <2>4. /\ DOMAIN native' = {"messages", "parts", "updated"}
        /\ native'.updated = IF quiet THEN native.updated ELSE native.updated + 1
        /\ native'.messages = native.messages
        /\ native'.parts = edited.parts
    BY <2>2, <2>3
  <2>5. /\ IsSequence(edited.parts) /\ DOMAIN edited.parts = DOMAIN native.parts
        /\ \A j \in DOMAIN edited.parts :
              /\ DOMAIN edited.parts[j] = {"message", "fact"}
              /\ DOMAIN edited.parts[j].fact = FactFields
              /\ edited.parts[j].message = native.parts[j].message
              /\ \A field \in FactFields \ {"state"} :
                   edited.parts[j].fact[field] = native.parts[j].fact[field]
    BY PartFinished DEF edited
  <2>6. "n" \in FactFields \ {"state"}
    BY DEF FactFields
  <2>7. QuietEdits = FALSE => ~quiet
    BY Zenon
  <2> QED
    BY <1>0, <2>4, <2>5, <2>6, <2>7
<1> QED
  BY <1>3, <1>4, <1>5

LEMMA DatabaseStarts == NormalizeInit => Database /\ PrintInv /\ CopiesInv
  BY DEF NormalizeInit, Database, PrintInv, CopiesInv, LiveDatabase, Started, IsSequence, Entries

\* Where the events of a session read come from.
LEMMA EventsShown ==
  ASSUME LiveDatabase, Database, NEW i \in DOMAIN OpenCodeEvents(native)
  PROVE  FactShown(native.messages, native.parts, OpenCodeEvents(native)[i].of)
<1>1. PICK k \in DOMAIN native.parts :
        /\ native.parts[k].message \in native.messages
        /\ OpenCodeEvents(native)[i] =
             [EventOf(native.parts[k].fact.kind, native.parts[k].fact) EXCEPT !.error = FALSE]
  BY OpenCodeRead DEF Database
<1>2. OpenCodeEvents(native)[i].of = native.parts[k].fact.n
  BY <1>1 DEF EventOf
<1> QED
  BY <1>1, <1>2 DEF FactShown

\* The steps of a run that reads the database.
Reads ==
  Discover \/ ReadRow \/ ReadEvents \/ ReadMessages \/ ReadParts \/ CopyMessages \/ CopyParts

LEMMA DatabaseRead ==
  ASSUME LiveDatabase, Database, CopiesInv, Reads
  PROVE  Database' /\ CopiesInv' /\ (PrintInv => PrintInv') /\ UNCHANGED <<agent, archived>>
<1>1. UNCHANGED <<agent, native, archived>> /\ LiveDatabase'
  BY DEF Reads, Discover, ReadRow, ReadEvents, ReadMessages, ReadParts, CopyMessages, CopyParts,
         Read, LiveDatabase
<1>2. OpenCodePrint(native)[1] = native.updated /\ native.updated \in Nat
  BY DEF OpenCodePrint, Database
<1>3. CASE Discover
  <2>1. reading' = Fresh
    BY <1>3 DEF Discover
  <2>2. /\ DOMAIN reading' = ReadingFields /\ reading'.at = "events" /\ reading'.events = <<>>
        /\ reading'.print = OpenCodePrint(native)
    BY <2>1 DEF Fresh, ReadingFields
  <2> QED
    BY <1>1, <1>2, <2>2 DEF Database, PrintInv, CopiesInv, Current
<1>4. CASE ReadEvents
  <2>1. reading # None /\ reading.at = "joined" /\ DOMAIN reading = ReadingFields
    BY <1>4 DEF ReadEvents, Read, Database
  <2>2. /\ DOMAIN reading' = ReadingFields /\ reading'.at = "messages"
        /\ reading'.events = OpenCodeEvents(native) /\ reading'.print = reading.print
    BY <1>4, <2>1 DEF ReadEvents, Read, ReadingFields
  <2>3. \A i \in DOMAIN reading'.events :
          FactShown(native.messages, native.parts, reading'.events[i].of)
    BY <2>2, EventsShown
  <2>4. Database' /\ (PrintInv => PrintInv')
    BY <1>1, <2>1, <2>2 DEF Database, PrintInv, Current
  <2>5. CopiesInv'
    BY <1>1, <2>2, <2>3 DEF CopiesInv
  <2> QED
    BY <1>1, <2>4, <2>5
<1>5. CASE ReadRow \/ ReadMessages \/ ReadParts \/ CopyMessages \/ CopyParts
  <2>1. reading # None /\ DOMAIN reading = ReadingFields
    BY <1>5 DEF ReadRow, ReadMessages, ReadParts, CopyMessages, CopyParts, Read, Database
  <2>2. /\ DOMAIN reading' = ReadingFields
        /\ reading'.events = reading.events /\ reading'.print = reading.print
        /\ \/ reading.at = "events" /\ reading'.at = "joined"
           \/ reading.at = "messages" /\ reading'.at = "parts" /\ reading'.messages = native.messages
           \/ /\ reading.at = "parts" /\ reading'.at = "bundle" /\ reading'.parts = native.parts
              /\ reading'.messages = reading.messages
           \/ /\ reading.at = "bundle" /\ reading'.at = "rows" /\ reading'.bundled = native.messages
              /\ reading'.messages = reading.messages /\ reading'.parts = reading.parts
           \/ /\ reading.at = "rows" /\ reading'.at = "backup" /\ reading'.bundle = native.parts
              /\ reading'.messages = reading.messages /\ reading'.parts = reading.parts
              /\ reading'.bundled = reading.bundled
    BY <1>5, <2>1 DEF ReadRow, ReadMessages, ReadParts, CopyMessages, CopyParts, Read, ReadingFields
  <2>3. Database' /\ (PrintInv => PrintInv')
    BY <1>1, <2>1, <2>2 DEF Database, PrintInv, Current
  <2>4. CopiesInv'
    <3> SUFFICES ASSUME NEW i \in DOMAIN reading'.events
                 PROVE  LET n == reading'.events[i].of
                        IN /\ FactShown(native.messages, native.parts, n)
                           /\ reading'.at \in {"parts", "bundle", "rows", "backup"} =>
                                FactShown(reading'.messages, native.parts, n)
                           /\ reading'.at \in {"bundle", "rows", "backup"} =>
                                FactShown(reading'.messages, reading'.parts, n)
                           /\ reading'.at \in {"rows", "backup"} =>
                                FactShown(reading'.bundled, native.parts, n)
                           /\ reading'.at = "backup" => FactShown(reading'.bundled, reading'.bundle, n)
      BY <1>1 DEF CopiesInv
    <3>1. i \in DOMAIN reading.events
      BY <2>2
    <3> QED
      BY <2>1, <2>2, <3>1 DEF CopiesInv
  <2> QED
    BY <1>1, <2>3, <2>4
<1> QED
  BY <1>1, <1>3, <1>4, <1>5 DEF Reads

LEMMA DatabaseStored ==
  ASSUME LiveDatabase, Database, CopiesInv, Store
  PROVE  /\ Database' /\ CopiesInv' /\ SnapshotCovers' /\ (PrintInv => PrintInv')
         /\ agent' = agent
<1>1. /\ UNCHANGED <<agent, native>> /\ LiveDatabase'
      /\ reading # None /\ reading.at = "backup" /\ reading' = None
      /\ archived'.print = reading.print /\ archived'.events = reading.events
      /\ archived'.copies = [messages |-> reading.messages, parts |-> reading.parts,
                             bundled |-> reading.bundled, bundle |-> reading.bundle,
                             backup |-> native]
  BY DEF Store, Normalized, LiveDatabase
<1>2. Database' /\ CopiesInv' /\ (PrintInv => PrintInv')
  BY <1>1 DEF Database, PrintInv, Current, CopiesInv
<1>3. SnapshotCovers'
  BY <1>1 DEF SnapshotCovers, CopiesInv, FactShown
<1> QED
  BY <1>1, <1>2, <1>3

\* A step of the agent beside a run, and beside what is archived.
LEMMA DatabaseWrites ==
  ASSUME LiveDatabase, Database, CopiesInv, OpenMessage \/ AddPart \/ FinishPart
  PROVE  Database' /\ CopiesInv' /\ (QuietEdits = FALSE /\ PrintInv => PrintInv')
<1>1. /\ Database'
      /\ native'.updated >= native.updated
      /\ QuietEdits = FALSE => native'.updated > native.updated
      /\ native.messages \subseteq native'.messages
      /\ \A messages, n : FactShown(messages, native.parts, n) => FactShown(messages, native'.parts, n)
      /\ UNCHANGED <<agent, path, reading, archived>>
  BY DatabaseWritten
<1>2. native.updated \in Nat /\ native'.updated \in Nat
  BY <1>1 DEF Database, LiveDatabase
<1>3. ASSUME QuietEdits = FALSE, PrintInv PROVE PrintInv'
  BY <1>1, <1>2, <1>3 DEF PrintInv, Current
<1>4. \A n : FactShown(native.messages, native.parts, n) => FactShown(native'.messages, native'.parts, n)
  BY <1>1 DEF FactShown
<1>5. CopiesInv'
  BY <1>1, <1>4 DEF CopiesInv, LiveDatabase
<1> QED
  BY <1>1, <1>3, <1>5

\* A file is read in one step: there are no copies of rows.
OpenCodeInv ==
  /\ Database /\ CopiesInv /\ SnapshotCovers
  /\ ~LiveDatabase => reading = None /\ (archived # None => archived.copies = None)

LEMMA OpenCodeStarts == NormalizeInit => OpenCodeInv /\ PrintInv
  BY DatabaseStarts DEF NormalizeInit, OpenCodeInv, SnapshotCovers, LiveDatabase

LEMMA OpenCodeStep ==
  ASSUME OpenCodeInv, [NormalizeNext]_normalizeVars
  PROVE  OpenCodeInv' /\ (QuietEdits = FALSE /\ PrintInv => PrintInv')
<1>1. CASE Say \/ IngestFile
  <2>1. ~LiveDatabase /\ UNCHANGED <<agent, reading>>
    BY <1>1 DEF Say, IngestFile
  <2>2. archived' = archived \/ (archived' # None => archived'.copies = None)
    BY <1>1 DEF Say, IngestFile, Normalized
  <2>3. ~LiveDatabase'
    BY <2>1 DEF LiveDatabase
  <2> QED
    BY <2>1, <2>2, <2>3 DEF OpenCodeInv, Database, CopiesInv, SnapshotCovers, PrintInv
<1>2. CASE OpenMessage \/ AddPart \/ FinishPart
  <2>1. LiveDatabase
    BY <1>2 DEF OpenMessage, AddPart, FinishPart
  <2>2. UNCHANGED <<agent, archived>>
    BY <1>2, <2>1, DatabaseWritten DEF OpenCodeInv
  <2> QED
    BY <1>2, <2>1, <2>2, DatabaseWrites DEF OpenCodeInv, SnapshotCovers, LiveDatabase
<1>3. CASE Reads
  <2>1. LiveDatabase
    BY <1>3 DEF Reads, Discover, ReadRow, ReadEvents, ReadMessages, ReadParts, CopyMessages,
                CopyParts, Read, OpenCodeInv
  <2>2. Database' /\ CopiesInv' /\ (PrintInv => PrintInv') /\ UNCHANGED <<agent, archived>>
    BY <1>3, <2>1, DatabaseRead DEF OpenCodeInv
  <2> QED
    BY <2>1, <2>2 DEF OpenCodeInv, SnapshotCovers, LiveDatabase
<1>4. CASE Store
  <2>1. LiveDatabase
    BY <1>4 DEF Store, OpenCodeInv
  <2> QED
    BY <1>4, <2>1, DatabaseStored DEF OpenCodeInv, LiveDatabase
<1>5. CASE UNCHANGED normalizeVars
  BY <1>5 DEF normalizeVars, OpenCodeInv, Database, CopiesInv, SnapshotCovers, PrintInv, Current,
              LiveDatabase
<1> QED
  BY <1>1, <1>2, <1>3, <1>4, <1>5 DEF NormalizeNext, Reads

\* Whatever OpenCode writes between the reads of a run, for any number of messages and
\* parts, all three copies of its rows hold what was indexed.
THEOREM SnapshotCoversAlways == NormalizeSpec => []SnapshotCovers
<1>1. NormalizeInit => OpenCodeInv
  BY OpenCodeStarts
<1>2. OpenCodeInv /\ [NormalizeNext]_normalizeVars => OpenCodeInv'
  BY OpenCodeStep
<1>3. OpenCodeInv => SnapshotCovers
  BY DEF OpenCodeInv
<1> QED
  BY <1>1, <1>2, <1>3, PTL DEF NormalizeSpec

\* As long as every write advances the session's time, an unchanged fingerprint means
\* unchanged events, so that no write is lost to the incremental discovery.
THEOREM PrintCoversAlways ==
  ASSUME QuietEdits = FALSE
  PROVE  NormalizeSpec => []PrintCovers
<1> DEFINE Inv == OpenCodeInv /\ PrintInv
<1>1. NormalizeInit => Inv
  BY OpenCodeStarts
<1>2. Inv /\ [NormalizeNext]_normalizeVars => Inv'
  BY OpenCodeStep
<1>3. Inv => PrintCovers
  <2> SUFFICES ASSUME PrintInv, LiveDatabase, archived # None,
                      archived.print = OpenCodePrint(native)
               PROVE  archived.events = OpenCodeEvents(native)
    BY DEF PrintCovers
  <2>1. archived.print[1] = native.updated
    BY DEF OpenCodePrint
  <2> QED
    BY <2>1 DEF PrintInv, Current
<1> QED
  BY <1>1, <1>2, <1>3, PTL DEF NormalizeSpec

(***************************************************************************)
(* The parts of a sequence of sequences, one after the other               *)
(***************************************************************************)
AllSequences(ss) == IsSequence(ss) /\ \A i \in DOMAIN ss : IsSequence(ss[i])

LEMMA EmptySequence == IsSequence(<<>>) /\ Len(<<>>) = 0 /\ DOMAIN <<>> = {}
  BY DEF IsSequence, Entries

LEMMA JoinedEmpty ==
  ASSUME NEW s, IsSequence(s)
  PROVE  <<>> \o s = s /\ s \o <<>> = s
<1>1. s \in Seq(Entries(s)) /\ <<>> \in Seq(Entries(s))
  BY DEF IsSequence, Entries
<1> QED
  BY <1>1

LEMMA Flattened ==
  ASSUME NEW ss, AllSequences(ss)
  PROVE  \E flat :
           /\ flat = [i \in 0 .. Len(ss) |-> IF i = 0 THEN <<>> ELSE flat[i-1] \o ss[i]]
           /\ FlattenSeq(ss) = flat[Len(ss)]
<1> DEFINE L == Len(ss)
           flatten[i \in 1 .. Len(ss)] == IF i = 1 THEN ss[i] ELSE flatten[i-1] \o ss[i]
<1>1. L \in Nat /\ DOMAIN ss = 1 .. L
  BY SequenceShape DEF AllSequences
<1>2. \E f : f = [i \in 0 .. L |-> IF i = 0 THEN <<>> ELSE f[i-1] \o ss[i]]
  <2> DEFINE Is(f, n) == f = [i \in 0 .. n |-> IF i = 0 THEN <<>> ELSE f[i-1] \o ss[i]]
             T == {n \in 0 .. L : \E f : Is(f, n)}
  <2>1. 0 \in T
    <3> DEFINE f == [i \in 0 .. 0 |-> <<>>]
    <3>1. f = [i \in 0 .. 0 |-> IF i = 0 THEN <<>> ELSE f[i-1] \o ss[i]]
      OBVIOUS
    <3>2. Is(f, 0)
      BY <3>1
    <3> HIDE DEF Is, f
    <3> QED
      BY <1>1, <3>2
  <2>2. ASSUME NEW n \in 1 .. L, n - 1 \in T PROVE n \in T
    <3>1. PICK f : Is(f, n - 1)
      BY <2>2
    <3> DEFINE g == [i \in 0 .. n |-> IF i = n THEN f[n-1] \o ss[n] ELSE f[i]]
    <3>2. \A i \in 0 .. n : g[i] = IF i = 0 THEN <<>> ELSE g[i-1] \o ss[i]
      <4>1. n \in Nat /\ n # 0
        BY <1>1
      <4> QED
        BY <4>1, <3>1
    <3>3. Is(g, n)
      BY <3>2
    <3> HIDE DEF Is, g
    <3> QED
      BY <1>1, <3>3
  <2>3. T \subseteq 0 .. L
    OBVIOUS
  <2>4. \A n \in 1 .. L : n - 1 \in T => n \in T
    BY <2>2
  <2>5. L \in T
    <3> HIDE DEF T
    <3>1. T = 0 .. L
      BY <1>1, <2>1, <2>3, <2>4, UpTo
    <3> QED
      BY <1>1, <3>1
  <2> QED
    BY <2>5
<1>3. PICK flat : flat = [i \in 0 .. L |-> IF i = 0 THEN <<>> ELSE flat[i-1] \o ss[i]]
  BY <1>2
<1>6. flat[0] = <<>> /\ \A i \in 1 .. L : flat[i] = flat[i-1] \o ss[i]
  <2> HIDE DEF L
  <2>1. \A i \in 1 .. L : i # 0 /\ i \in 0 .. L
    BY <1>1
  <2>2. flat[0] = <<>>
    BY <1>1, <1>3
  <2>3. \A i \in 1 .. L : flat[i] = flat[i-1] \o ss[i]
    BY <1>3, <2>1
  <2> QED
    BY <2>2, <2>3
<1>4. CASE L = 0
  <2>1. ss = <<>>
    BY <1>1, <1>4, EmptySequence, SameSequence DEF AllSequences
  <2>2. FlattenSeq(ss) = <<>>
    BY <1>4, <2>1 DEF FlattenSeq
  <2> QED
    BY <1>3, <1>4, <2>2
<1>5. CASE L # 0
  <2>1. FlattenSeq(ss) = flatten[L]
    BY <1>5 DEF FlattenSeq
  <2>2. flatten = CHOOSE f : f = [i \in 1 .. L |-> IF i = 1 THEN ss[i] ELSE f[i-1] \o ss[i]]
    OBVIOUS
  <2> HIDE DEF flatten, L
  <2>3. \E f : f = [i \in 1 .. L |-> IF i = 1 THEN ss[i] ELSE f[i-1] \o ss[i]]
    <3> DEFINE f == [i \in 1 .. L |-> flat[i]]
    <3>1. \A i \in 1 .. L : i = 1 => flat[i] = ss[i]
      <4>1. 1 \in 1 .. L => IsSequence(ss[1]) /\ flat[1] = flat[0] \o ss[1]
        <5>1. \A i \in 1 .. L : IsSequence(ss[i])
          BY <1>1 DEF AllSequences
        <5>2. 1 - 1 = 0
          OBVIOUS
        <5> QED
          BY <1>6, <5>1, <5>2
      <4> QED
        BY <1>6, <4>1, JoinedEmpty
    <3>2. \A i \in 1 .. L : i # 1 => flat[i] = f[i-1] \o ss[i]
      <4>1. \A i \in 1 .. L : i # 1 => i - 1 \in 1 .. L
        BY <1>1
      <4> QED
        BY <1>6, <4>1
    <3>3. f = [i \in 1 .. L |-> IF i = 1 THEN ss[i] ELSE f[i-1] \o ss[i]]
      BY <3>1, <3>2
    <3> HIDE DEF f
    <3> QED
      BY <3>3
  <2>4. flatten = [i \in 1 .. L |-> IF i = 1 THEN ss[i] ELSE flatten[i-1] \o ss[i]]
    BY <2>2, <2>3
  <2> DEFINE g == [i \in 0 .. L |-> IF i = 0 THEN <<>> ELSE flatten[i]]
  <2>5. \A i \in 0 .. L : g[i] = IF i = 0 THEN <<>> ELSE g[i-1] \o ss[i]
    <3>1. \A i \in 0 .. L : i # 0 => i \in 1 .. L /\ i - 1 \in 0 .. L
      BY <1>1
    <3>2. ASSUME NEW i \in 1 .. L PROVE flatten[i] = g[i-1] \o ss[i]
      <4>1. CASE i = 1
        <5>1. 0 \in 0 .. L /\ i - 1 = 0
          BY <1>1, <4>1
        <5>2. g[i-1] = <<>> /\ flatten[i] = ss[i]
          BY <2>4, <4>1, <5>1
        <5> QED
          BY <1>1, <5>2, JoinedEmpty DEF AllSequences
      <4>2. CASE i # 1
        <5>1. i - 1 \in 0 .. L /\ i - 1 # 0
          BY <1>1, <4>2
        <5> QED
          BY <2>4, <4>2, <5>1
      <4> QED
        BY <4>1, <4>2
    <3> QED
      BY <3>1, <3>2
  <2>6. g = [i \in 0 .. L |-> IF i = 0 THEN <<>> ELSE g[i-1] \o ss[i]]
    BY <2>5
  <2>7. FlattenSeq(ss) = g[L]
    BY <1>1, <1>5, <2>1
  <2> HIDE DEF g
  <2> QED
    BY <2>6, <2>7 DEF L
<1> QED
  BY <1>4, <1>5

LEMMA FlatItems ==
  ASSUME NEW ss, AllSequences(ss)
  PROVE  /\ IsSequence(FlattenSeq(ss))
         /\ \A k \in DOMAIN FlattenSeq(ss) :
              \E i \in DOMAIN ss : \E j \in DOMAIN ss[i] : FlattenSeq(ss)[k] = ss[i][j]
<1> DEFINE L == Len(ss)
           items == UNION {Entries(ss[i]) : i \in DOMAIN ss}
<1>1. PICK flat : /\ flat = [i \in 0 .. L |-> IF i = 0 THEN <<>> ELSE flat[i-1] \o ss[i]]
                  /\ FlattenSeq(ss) = flat[L]
  BY Flattened
<1>2. L \in Nat /\ DOMAIN ss = 1 .. L
  BY SequenceShape DEF AllSequences
<1>3. \A i \in 1 .. L : ss[i] \in Seq(items)
  <2> SUFFICES ASSUME NEW i \in 1 .. L PROVE ss[i] \in Seq(items)
    OBVIOUS
  <2>1. ss[i] \in Seq(Entries(ss[i]))
    BY <1>2 DEF AllSequences, IsSequence
  <2>2. Entries(ss[i]) \subseteq items
    BY <1>2
  <2> HIDE DEF items
  <2> QED
    BY <2>1, <2>2
<1> DEFINE T == {n \in 0 .. L : flat[n] \in Seq(items)}
<1> HIDE DEF L, items
<1>4. 0 \in T
  BY <1>1, <1>2
<1>5. \A n \in 1 .. L : n - 1 \in T => n \in T
  <2>1. \A n \in 1 .. L : n \in 0 .. L /\ n # 0
    BY <1>2
  <2>2. \A n \in 1 .. L : flat[n] = flat[n-1] \o ss[n]
    BY <1>1, <2>1
  <2>3. ASSUME NEW n \in 1 .. L, flat[n-1] \in Seq(items) PROVE flat[n] \in Seq(items)
    <3>1. ss[n] \in Seq(items) /\ flat[n] = flat[n-1] \o ss[n]
      BY <1>3, <2>2
    <3> QED
      BY <2>3, <3>1
  <2> QED
    BY <2>1, <2>3
<1>6. L \in T
  <2>1. T \subseteq 0 .. L
    OBVIOUS
  <2> HIDE DEF T
  <2>2. T = 0 .. L
    BY <1>2, <1>4, <1>5, <2>1, UpTo
  <2> QED
    BY <1>2, <2>2
<1>7. FlattenSeq(ss) \in Seq(items)
  BY <1>1, <1>6
<1>8. \A k \in DOMAIN FlattenSeq(ss) : FlattenSeq(ss)[k] \in items
  BY <1>7
<1> QED
  BY <1>7, <1>8, TypedSequence DEF items, Entries

\* One more part goes to the end.
LEMMA FlatAppended ==
  ASSUME NEW ss, AllSequences(ss), NEW s, IsSequence(s)
  PROVE  /\ AllSequences(Append(ss, s))
         /\ FlattenSeq(Append(ss, s)) = FlattenSeq(ss) \o s
<1> DEFINE L == Len(ss)
           more == Append(ss, s)
<1>1. L \in Nat /\ DOMAIN ss = 1 .. L
  BY SequenceShape DEF AllSequences
<1>2. /\ IsSequence(more) /\ Len(more) = L + 1 /\ more[L + 1] = s
      /\ \A i \in 1 .. L : more[i] = ss[i]
  BY Appended DEF AllSequences
<1>3. DOMAIN more = 1 .. L + 1
  BY <1>2, SequenceShape
<1> HIDE DEF more
<1>4. AllSequences(more)
  BY <1>1, <1>2, <1>3 DEF AllSequences
<1>5. PICK flat : /\ flat = [i \in 0 .. L |-> IF i = 0 THEN <<>> ELSE flat[i-1] \o ss[i]]
                  /\ FlattenSeq(ss) = flat[L]
  BY Flattened
<1>6. PICK longer :
        /\ longer = [i \in 0 .. L + 1 |-> IF i = 0 THEN <<>> ELSE longer[i-1] \o more[i]]
        /\ FlattenSeq(more) = longer[L + 1]
  BY <1>2, <1>4, Flattened
<1> HIDE DEF L
<1> DEFINE T == {n \in 0 .. L : longer[n] = flat[n]}
<1>7. 0 \in T
  BY <1>1, <1>5, <1>6
<1>8. \A n \in 1 .. L : n - 1 \in T => n \in T
  <2>1. \A n \in 1 .. L : n \in 0 .. L /\ n \in 0 .. L + 1 /\ n # 0
    BY <1>1
  <2>2. \A n \in 1 .. L : flat[n] = flat[n-1] \o ss[n] /\ longer[n] = longer[n-1] \o more[n]
    BY <1>5, <1>6, <2>1
  <2> QED
    BY <1>2, <2>1, <2>2
<1>9. T \subseteq 0 .. L
  OBVIOUS
<1>10. L \in T
  <2> HIDE DEF T
  <2>1. T = 0 .. L
    BY <1>1, <1>7, <1>8, <1>9, UpTo
  <2> QED
    BY <1>1, <2>1
<1>11. longer[L + 1] = longer[L] \o more[L + 1]
  BY <1>1, <1>6
<1> QED
  BY <1>2, <1>4, <1>5, <1>6, <1>10, <1>11 DEF more

(***************************************************************************)
(* Facts and the events they become                                        *)
(***************************************************************************)
\* Facts, or events, that can be derived from.
Derivable(told) ==
  /\ IsSequence(told)
  /\ \A i \in DOMAIN told : IsSequence(told[i].tasks) /\ Preview(told[i].text) # None

\* Events are facts, each once and in order.
Tells(events, facts) ==
  /\ IsSequence(events) /\ IsSequence(facts) /\ Len(events) = Len(facts)
  /\ \A i \in 1 .. Len(facts) : events[i].of = facts[i].n /\ events[i].kind = facts[i].kind

LEMMA SoundEmpty == Derivable(<<>>) /\ Tells(<<>>, <<>>)
  BY EmptySequence DEF Derivable, Tells

LEMMA SingleSequence ==
  ASSUME NEW x
  PROVE  IsSequence(<<x>>) /\ Len(<<x>>) = 1 /\ DOMAIN <<x>> = {1} /\ <<x>>[1] = x
  BY DEF IsSequence, Entries

LEMMA OneItem ==
  ASSUME NEW s, IsSequence(s), Len(s) = 1
  PROVE  s = <<s[1]>>
<1> DEFINE t == <<s[1]>>
<1>1. IsSequence(t) /\ Len(t) = 1 /\ t[1] = s[1]
  BY SingleSequence
<1> HIDE DEF t
<1>2. \A i \in 1 .. Len(s) : s[i] = t[i]
  BY <1>1
<1>3. s = t
  BY <1>1, <1>2, SameSequence
<1> QED
  BY <1>3 DEF t

LEMMA JoinedItems ==
  ASSUME NEW s, NEW t, IsSequence(s), IsSequence(t), NEW i \in DOMAIN (s \o t)
  PROVE  \/ i \in 1 .. Len(s) /\ (s \o t)[i] = s[i]
         \/ \E j \in 1 .. Len(t) : i = Len(s) + j /\ (s \o t)[i] = t[j]
<1>1. /\ IsSequence(s \o t) /\ Len(s \o t) = Len(s) + Len(t)
      /\ \A k \in 1 .. Len(s) : (s \o t)[k] = s[k]
      /\ \A k \in 1 .. Len(t) : (s \o t)[Len(s) + k] = t[k]
  BY Joined
<1>2. Len(s) \in Nat /\ Len(t) \in Nat /\ i \in 1 .. Len(s) + Len(t)
  BY <1>1, SequenceShape
<1>3. CASE i \in 1 .. Len(s)
  BY <1>1, <1>3
<1>4. CASE i \notin 1 .. Len(s)
  <2>1. i - Len(s) \in 1 .. Len(t) /\ i = Len(s) + (i - Len(s))
    BY <1>2, <1>4
  <2> QED
    BY <1>1, <2>1
<1> QED
  BY <1>3, <1>4

LEMMA SoundJoined ==
  ASSUME NEW s, NEW t, Derivable(s), Derivable(t)
  PROVE  Derivable(s \o t)
<1>1. IsSequence(s \o t)
  BY Joined DEF Derivable
<1>2. DOMAIN s = 1 .. Len(s) /\ DOMAIN t = 1 .. Len(t)
  BY SequenceShape DEF Derivable
<1>3. ASSUME NEW i \in DOMAIN (s \o t)
      PROVE  IsSequence((s \o t)[i].tasks) /\ Preview((s \o t)[i].text) # None
  BY <1>2, JoinedItems DEF Derivable
<1> QED
  BY <1>1, <1>3 DEF Derivable

LEMMA TellsJoined ==
  ASSUME NEW s, NEW t, NEW f, NEW g, Tells(s, f), Tells(t, g)
  PROVE  Tells(s \o t, f \o g)
<1>0. IsSequence(s) /\ IsSequence(t) /\ IsSequence(f) /\ IsSequence(g)
  BY DEF Tells
<1>1. /\ IsSequence(s \o t) /\ Len(s \o t) = Len(s) + Len(t)
      /\ \A k \in 1 .. Len(s) : (s \o t)[k] = s[k]
      /\ \A k \in 1 .. Len(t) : (s \o t)[Len(s) + k] = t[k]
  BY <1>0, Joined
<1>2. IsSequence(f \o g) /\ Len(f \o g) = Len(f) + Len(g) /\ DOMAIN (f \o g) = 1 .. Len(f \o g)
  BY <1>0, Joined, SequenceShape
<1>3. ASSUME NEW i \in 1 .. Len(f \o g)
      PROVE  (s \o t)[i].of = (f \o g)[i].n /\ (s \o t)[i].kind = (f \o g)[i].kind
  <2>1. \/ i \in 1 .. Len(f) /\ (f \o g)[i] = f[i]
        \/ \E j \in 1 .. Len(g) : i = Len(f) + j /\ (f \o g)[i] = g[j]
    BY <1>0, <1>2, JoinedItems
  <2>2. CASE i \in 1 .. Len(f) /\ (f \o g)[i] = f[i]
    BY <1>1, <2>2 DEF Tells
  <2>3. ASSUME NEW j \in 1 .. Len(g), i = Len(f) + j, (f \o g)[i] = g[j]
        PROVE  (s \o t)[i].of = (f \o g)[i].n /\ (s \o t)[i].kind = (f \o g)[i].kind
    BY <1>1, <2>3 DEF Tells
  <2> QED
    BY <2>1, <2>2, <2>3
<1> QED
  BY <1>1, <1>2, <1>3 DEF Tells

LEMMA SoundFlat ==
  ASSUME NEW ss, IsSequence(ss), \A i \in DOMAIN ss : Derivable(ss[i])
  PROVE  AllSequences(ss) /\ Derivable(FlattenSeq(ss))
<1>1. AllSequences(ss)
  BY DEF AllSequences, Derivable
<1>2. Derivable(FlattenSeq(ss))
  BY <1>1, FlatItems DEF Derivable
<1> QED
  BY <1>1, <1>2

\* What one fact becomes.
LEMMA EventSound ==
  ASSUME NEW facts, Derivable(facts), NEW i \in DOMAIN facts, NEW kind
  PROVE  LET e == EventOf(kind, facts[i])
         IN /\ e.of = facts[i].n /\ e.kind = kind
            /\ IsSequence(e.tasks) /\ Preview(e.text) # None
            /\ DOMAIN e = {"kind", "of", "call", "delegates", "tasks", "error", "time",
                           "usage", "text", "state"}
  BY DEF EventOf, Derivable

LEMMA UnflaggedSame ==
  ASSUME NEW events, IsSequence(events),
         \A i \in DOMAIN events : {"kind", "of", "tasks", "text"} \subseteq DOMAIN events[i]
  PROVE  LET same == Unflagged(events)
         IN /\ IsSequence(same) /\ Len(same) = Len(events)
            /\ \A i \in 1 .. Len(events) :
                 /\ same[i].of = events[i].of /\ same[i].kind = events[i].kind
                 /\ same[i].tasks = events[i].tasks /\ same[i].text = events[i].text
                 /\ DOMAIN same[i] = DOMAIN events[i]
<1> DEFINE f == [i \in 1 .. Len(events) |-> [events[i] EXCEPT !.error = FALSE]]
<1>1. Len(events) \in Nat /\ DOMAIN events = 1 .. Len(events)
  BY SequenceShape
<1>2. IsSequence([i \in 1 .. Len(events) |-> f[i]])
      /\ Len([i \in 1 .. Len(events) |-> f[i]]) = Len(events)
  BY <1>1, SequenceOf
<1>3. f = [i \in 1 .. Len(events) |-> f[i]] /\ Unflagged(events) = f
  BY <1>1 DEF Unflagged
<1> DEFINE same == Unflagged(events)
<1>4. IsSequence(same) /\ Len(same) = Len(events)
  BY <1>2, <1>3
<1>5. \A i \in 1 .. Len(events) : same[i] = [events[i] EXCEPT !.error = FALSE]
  BY <1>3
<1> HIDE DEF same
<1>6. \A i \in 1 .. Len(events) :
        /\ same[i].of = events[i].of /\ same[i].kind = events[i].kind
        /\ same[i].tasks = events[i].tasks /\ same[i].text = events[i].text
        /\ DOMAIN same[i] = DOMAIN events[i]
  BY <1>1, <1>5
<1> QED
  BY <1>4, <1>6 DEF same

(***************************************************************************)
(* Files: what one record adds to the events of those before it            *)
(***************************************************************************)
Heads == {"ai-title", "session_meta", "header", "session"}

\* A message of Gemini's that can be told.
SoundRow(row) ==
  /\ DOMAIN row = {"id", "text", "thoughts", "calls", "time"}
  /\ Derivable(row.text) /\ Derivable(row.thoughts)
  /\ IsSequence(row.calls) /\ \A i \in DOMAIN row.calls : Derivable(row.calls[i])

\* A record that tells something, and whose messages do.
SoundRecord(r) ==
  /\ Derivable(r.facts) /\ (r.type \notin Heads => Len(r.facts) > 0)
  /\ IsSequence(r.rows) /\ \A i \in DOMAIN r.rows : SoundRow(r.rows[i])

\* A sequence of as many events as facts.
LEMMA EventsOfFacts ==
  ASSUME NEW facts, Derivable(facts), NEW events, events = [i \in DOMAIN facts |-> events[i]],
         \A i \in DOMAIN facts :
           /\ events[i].of = facts[i].n /\ events[i].kind = facts[i].kind
           /\ IsSequence(events[i].tasks) /\ events[i].text = facts[i].text
  PROVE  Derivable(events) /\ Tells(events, facts)
<1>1. Len(facts) \in Nat /\ DOMAIN facts = 1 .. Len(facts) /\ IsSequence(facts)
  BY SequenceShape DEF Derivable
<1>2. IsSequence(events) /\ Len(events) = Len(facts)
  BY <1>1, SequenceOf
<1>3. DOMAIN events = DOMAIN facts
  BY <1>1, <1>2, SequenceShape
<1>4. Derivable(events)
  BY <1>2, <1>3 DEF Derivable
<1>5. Tells(events, facts)
  BY <1>1, <1>2 DEF Tells
<1> QED
  BY <1>4, <1>5

\* One event for a record of one fact.
LEMMA EventOfFact ==
  ASSUME NEW facts, Derivable(facts), Len(facts) > 0, NEW e, NEW kind,
         e.of = facts[1].n, e.kind = kind, IsSequence(e.tasks), e.text = facts[1].text
  PROVE  /\ Derivable(<<e>>)
         /\ OneOf(facts, {kind}) => Tells(<<e>>, facts)
<1>1. Len(facts) \in Nat /\ DOMAIN facts = 1 .. Len(facts) /\ IsSequence(facts)
  BY SequenceShape DEF Derivable
<1>2. IsSequence(<<e>>) /\ Len(<<e>>) = 1 /\ DOMAIN <<e>> = {1} /\ <<e>>[1] = e
  BY SingleSequence
<1>3. Preview(facts[1].text) # None
  BY <1>1 DEF Derivable
<1>4. Derivable(<<e>>)
  BY <1>2, <1>3 DEF Derivable
<1>5. ASSUME OneOf(facts, {kind}) PROVE Tells(<<e>>, facts)
  BY <1>1, <1>2, <1>5 DEF Tells, OneOf
<1> QED
  BY <1>4, <1>5

LEMMA ClaudeTold ==
  ASSUME NEW r, SoundRecord(r)
  PROVE  /\ Derivable(ClaudeEvents(r))
         /\ r.type \in {"user", "tool_result", "system"} /\ OneOf(r.facts, {r.type}) =>
              Tells(ClaudeEvents(r), r.facts)
         /\ r.type = "assistant" => Tells(ClaudeEvents(r), r.facts)
<1> DEFINE tasks == FlattenSeq([i \in DOMAIN r.facts |-> r.facts[i].tasks])
           told(kind, f) == [EventOf(kind, f) EXCEPT !.tasks = tasks,
                                                    !.time = OrElse(r.time, 0)]
<1>1. Derivable(r.facts) /\ Len(r.facts) \in Nat /\ DOMAIN r.facts = 1 .. Len(r.facts)
  BY SequenceShape DEF SoundRecord, Derivable
<1>2. IsSequence(tasks)
  <2> DEFINE ss == [i \in 1 .. Len(r.facts) |-> r.facts[i].tasks]
  <2>1. IsSequence([i \in 1 .. Len(r.facts) |-> ss[i]])
    BY <1>1, SequenceOf
  <2>2. ss = [i \in 1 .. Len(r.facts) |-> ss[i]] /\ tasks = FlattenSeq(ss)
    BY <1>1
  <2>3. AllSequences(ss)
    BY <1>1, <2>1, <2>2 DEF AllSequences, Derivable
  <2> HIDE DEF ss
  <2> QED
    BY <2>2, <2>3, FlatItems
<1> HIDE DEF tasks
<1>3. ASSUME NEW kind, NEW f
      PROVE  /\ told(kind, f).of = f.n /\ told(kind, f).kind = kind
             /\ told(kind, f).tasks = tasks /\ told(kind, f).text = f.text
             /\ {"kind", "of", "tasks", "text"} \subseteq DOMAIN told(kind, f)
  BY DEF EventOf
<1>4. CASE r.type \in {"user", "system"}
  <2>1. ClaudeEvents(r) = <<told(r.type, r.facts[1])>> /\ Len(r.facts) > 0
    BY <1>4 DEF ClaudeEvents, SoundRecord, Heads, tasks
  <2> DEFINE e == told(r.type, r.facts[1])
  <2>2. e.of = r.facts[1].n /\ e.kind = r.type /\ e.tasks = tasks /\ e.text = r.facts[1].text
    BY <1>3
  <2> HIDE DEF e
  <2>3. Derivable(<<e>>) /\ (OneOf(r.facts, {r.type}) => Tells(<<e>>, r.facts))
    BY <1>1, <1>2, <2>1, <2>2, EventOfFact
  <2> QED
    BY <1>4, <2>1, <2>3 DEF e
<1>5. CASE r.type = "tool_result"
  <2>1. ClaudeEvents(r) = Unflagged(<<told("tool_result", r.facts[1])>>) /\ Len(r.facts) > 0
    BY <1>5 DEF ClaudeEvents, SoundRecord, Heads, tasks
  <2> DEFINE e == told("tool_result", r.facts[1])
             events == Unflagged(<<e>>)
  <2>2. /\ e.of = r.facts[1].n /\ e.kind = "tool_result" /\ e.tasks = tasks
        /\ e.text = r.facts[1].text /\ {"kind", "of", "tasks", "text"} \subseteq DOMAIN e
    BY <1>3
  <2> HIDE DEF e
  <2>3. IsSequence(<<e>>) /\ Len(<<e>>) = 1 /\ DOMAIN <<e>> = {1} /\ <<e>>[1] = e
    BY SingleSequence
  <2>4. /\ IsSequence(events) /\ Len(events) = 1
        /\ events[1].of = e.of /\ events[1].kind = e.kind
        /\ events[1].tasks = e.tasks /\ events[1].text = e.text
    BY <2>2, <2>3, UnflaggedSame
  <2>5. events = <<events[1]>>
    BY <2>4, OneItem
  <2> HIDE DEF events
  <2>6. /\ Derivable(<<events[1]>>)
        /\ OneOf(r.facts, {"tool_result"}) => Tells(<<events[1]>>, r.facts)
    BY <1>1, <1>2, <2>1, <2>2, <2>4, EventOfFact
  <2> QED
    BY <1>5, <2>1, <2>5, <2>6 DEF e, events
<1>6. CASE r.type = "assistant"
  <2> DEFINE events == [i \in DOMAIN r.facts |-> told(r.facts[i].kind, r.facts[i])]
  <2>1. ClaudeEvents(r) = events
    BY <1>6 DEF ClaudeEvents, tasks
  <2>2. \A i \in DOMAIN r.facts :
          /\ events[i].of = r.facts[i].n /\ events[i].kind = r.facts[i].kind
          /\ IsSequence(events[i].tasks) /\ events[i].text = r.facts[i].text
    BY <1>2, <1>3
  <2>3. events = [i \in DOMAIN r.facts |-> events[i]]
    OBVIOUS
  <2> HIDE DEF events
  <2> QED
    BY <1>1, <1>6, <2>1, <2>2, <2>3, EventsOfFacts
<1>7. CASE r.type \notin {"user", "system", "tool_result", "assistant"}
  <2>1. ClaudeEvents(r) = <<>>
    BY <1>7 DEF ClaudeEvents
  <2> QED
    BY <1>7, <2>1, SoundEmpty
<1> QED
  BY <1>4, <1>5, <1>6, <1>7

LEMMA PiTold ==
  ASSUME NEW r, SoundRecord(r)
  PROVE  /\ Derivable(PiEvents(r))
         /\ r.type = "message" => Tells(PiEvents(r), r.facts)
         /\ r.type = "model_change" /\ OneOf(r.facts, {"system"}) => Tells(PiEvents(r), r.facts)
<1>1. Derivable(r.facts) /\ Len(r.facts) \in Nat /\ DOMAIN r.facts = 1 .. Len(r.facts)
  BY SequenceShape DEF SoundRecord, Derivable
<1>2. CASE r.type = "message"
  <2> DEFINE events == [i \in DOMAIN r.facts |-> EventOf(r.facts[i].kind, r.facts[i])]
  <2>1. PiEvents(r) = events
    BY <1>2 DEF PiEvents
  <2>2. \A i \in DOMAIN r.facts :
          /\ events[i].of = r.facts[i].n /\ events[i].kind = r.facts[i].kind
          /\ IsSequence(events[i].tasks) /\ events[i].text = r.facts[i].text
    BY <1>1 DEF EventOf, Derivable
  <2>3. events = [i \in DOMAIN r.facts |-> events[i]]
    OBVIOUS
  <2> HIDE DEF events
  <2> QED
    BY <1>1, <1>2, <2>1, <2>2, <2>3, EventsOfFacts
<1>3. CASE r.type \in {"model_change", "thinking_level_change"}
  <2> DEFINE e == EventOf("system", r.facts[1])
  <2>1. PiEvents(r) = <<e>> /\ Len(r.facts) > 0
    BY <1>3 DEF PiEvents, SoundRecord, Heads
  <2>2. /\ e.of = r.facts[1].n /\ e.kind = "system" /\ e.text = r.facts[1].text
        /\ IsSequence(e.tasks)
    BY <1>1, <2>1 DEF EventOf, Derivable
  <2> HIDE DEF e
  <2> QED
    BY <1>1, <1>3, <2>1, <2>2, EventOfFact
<1>4. CASE r.type \notin {"message", "model_change", "thinking_level_change"}
  <2>1. PiEvents(r) = <<>>
    BY <1>4 DEF PiEvents
  <2> QED
    BY <1>4, <2>1, SoundEmpty
<1> QED
  BY <1>2, <1>3, <1>4

(***************************************************************************)
(* Codex: what the records read so far have told                           *)
(***************************************************************************)
Nothing == [events |-> <<>>, seen |-> {}]

CodexReads(records, told) ==
  \E parse :
    /\ parse = [i \in 0 .. Len(records) |->
                  IF i = 0 THEN Nothing ELSE CodexRecord(parse[i-1], records[i])]
    /\ told = parse[Len(records)]

LEMMA CodexNothing == CodexReads(<<>>, Nothing)
<1> DEFINE parse == [i \in 0 .. 0 |-> Nothing]
<1>1. parse = [i \in 0 .. 0 |-> IF i = 0 THEN Nothing ELSE CodexRecord(parse[i-1], <<>>[i])]
  OBVIOUS
<1>2. parse[0] = Nothing
  OBVIOUS
<1> HIDE DEF parse
<1> QED
  BY <1>1, <1>2, EmptySequence DEF CodexReads

LEMMA CodexMore ==
  ASSUME NEW records, IsSequence(records), NEW told, CodexReads(records, told), NEW r
  PROVE  CodexReads(Append(records, r), CodexRecord(told, r))
<1> DEFINE L == Len(records)
           more == Append(records, r)
<1>1. PICK parse : /\ parse = [i \in 0 .. L |->
                                 IF i = 0 THEN Nothing ELSE CodexRecord(parse[i-1], records[i])]
                   /\ told = parse[L]
  BY DEF CodexReads
<1>2. L \in Nat /\ DOMAIN records = 1 .. L
  BY SequenceShape
<1>3. Len(more) = L + 1 /\ more[L + 1] = r /\ \A i \in 1 .. L : more[i] = records[i]
  BY Appended
<1> HIDE DEF L, more
<1> DEFINE longer == [i \in 0 .. L + 1 |-> IF i = L + 1 THEN CodexRecord(told, r) ELSE parse[i]]
<1>4. ASSUME NEW i \in 0 .. L + 1
      PROVE  longer[i] = IF i = 0 THEN Nothing ELSE CodexRecord(longer[i-1], more[i])
  <2>1. CASE i = L + 1
    <3>1. i # 0 /\ i - 1 \in 0 .. L + 1 /\ i - 1 # L + 1 /\ i - 1 = L
      BY <1>2, <2>1
    <3>2. longer[i-1] = told
      BY <1>1, <3>1
    <3> QED
      BY <1>3, <2>1, <3>1, <3>2
  <2>2. CASE i = 0
    BY <1>1, <1>2, <2>2
  <2>3. CASE i # 0 /\ i # L + 1
    <3>1. i \in 1 .. L /\ i \in 0 .. L /\ i - 1 \in 0 .. L + 1 /\ i - 1 # L + 1
      BY <1>2, <2>3
    <3>2. parse[i] = CodexRecord(parse[i-1], records[i])
      BY <1>1, <2>3, <3>1
    <3> QED
      BY <1>3, <2>3, <3>1, <3>2
  <2> QED
    BY <2>1, <2>2, <2>3
<1>5. longer = [i \in 0 .. Len(more) |->
                  IF i = 0 THEN Nothing ELSE CodexRecord(longer[i-1], more[i])]
  BY <1>3, <1>4
<1>6. longer[Len(more)] = CodexRecord(told, r)
  BY <1>2, <1>3
<1> HIDE DEF longer
<1> QED
  BY <1>5, <1>6 DEF CodexReads, more

LEMMA CodexRead ==
  ASSUME NEW records, IsSequence(records), NEW told, CodexReads(records, told)
  PROVE  CodexEvents(records) = Unflagged(told.events)
<1> DEFINE L == Len(records)
           parse[i \in 0 .. Len(records)] ==
             IF i = 0 THEN [events |-> <<>>, seen |-> {}]
             ELSE CodexRecord(parse[i-1], records[i])
<1>1. CodexEvents(records) = Unflagged(parse[L].events)
  BY DEF CodexEvents
<1>2. PICK other : /\ other = [i \in 0 .. L |->
                                 IF i = 0 THEN Nothing ELSE CodexRecord(other[i-1], records[i])]
                   /\ told = other[L]
  BY DEF CodexReads
<1>3. parse = CHOOSE f : f = [i \in 0 .. L |->
                                IF i = 0 THEN Nothing ELSE CodexRecord(f[i-1], records[i])]
  BY DEF Nothing
<1>4. L \in Nat
  BY SequenceShape
<1> HIDE DEF parse, L
<1>5. parse = [i \in 0 .. L |-> IF i = 0 THEN Nothing ELSE CodexRecord(parse[i-1], records[i])]
  BY <1>2, <1>3
<1> DEFINE T == {n \in 0 .. L : parse[n] = other[n]}
<1>6. 0 \in T
  BY <1>2, <1>4, <1>5
<1>7. \A n \in 1 .. L : n - 1 \in T => n \in T
  <2>1. \A n \in 1 .. L : n \in 0 .. L /\ n # 0
    BY <1>4
  <2>2. \A n \in 1 .. L : /\ parse[n] = CodexRecord(parse[n-1], records[n])
                          /\ other[n] = CodexRecord(other[n-1], records[n])
    BY <1>2, <1>5, <2>1
  <2> QED
    BY <2>1, <2>2
<1>8. L \in T
  <2>1. T \subseteq 0 .. L
    OBVIOUS
  <2> HIDE DEF T
  <2>2. T = 0 .. L
    BY <1>4, <1>6, <1>7, <2>1, UpTo
  <2> QED
    BY <1>4, <2>2
<1> QED
  BY <1>1, <1>2, <1>8 DEF L

\* What has been told: whole events, that can be derived from.
Complete(events) ==
  /\ Derivable(events)
  /\ \A i \in DOMAIN events : {"kind", "of", "tasks", "text"} \subseteq DOMAIN events[i]

LEMMA WholeAppended ==
  ASSUME NEW events, Complete(events), NEW facts, Derivable(facts), NEW i \in DOMAIN facts, NEW kind
  PROVE  Complete(Append(events, EventOf(kind, facts[i])))
<1> DEFINE e == EventOf(kind, facts[i])
           more == Append(events, e)
<1>1. /\ IsSequence(e.tasks) /\ Preview(e.text) # None
      /\ {"kind", "of", "tasks", "text"} \subseteq DOMAIN e
  BY EventSound
<1> HIDE DEF e
<1>2. /\ IsSequence(more) /\ Len(more) = Len(events) + 1 /\ more[Len(events) + 1] = e
      /\ \A k \in 1 .. Len(events) : more[k] = events[k]
  BY Appended DEF Complete, Derivable
<1>3. /\ DOMAIN events = 1 .. Len(events) /\ Len(events) \in Nat
      /\ DOMAIN more = 1 .. Len(events) + 1
  BY <1>2, SequenceShape DEF Complete, Derivable
<1> HIDE DEF more
<1>4. ASSUME NEW k \in DOMAIN more
      PROVE  /\ IsSequence(more[k].tasks) /\ Preview(more[k].text) # None
             /\ {"kind", "of", "tasks", "text"} \subseteq DOMAIN more[k]
  <2>1. k = Len(events) + 1 \/ k \in 1 .. Len(events)
    BY <1>3
  <2> QED
    BY <1>1, <1>2, <1>3, <2>1 DEF Complete, Derivable
<1>5. Complete(more)
  BY <1>2, <1>4 DEF Complete, Derivable
<1> QED
  BY <1>5 DEF e, more

LEMMA UnflaggedWhole ==
  ASSUME NEW events, Complete(events)
  PROVE  /\ Complete(Unflagged(events))
         /\ \A facts : Tells(events, facts) => Tells(Unflagged(events), facts)
<1> DEFINE same == Unflagged(events)
<1>1. /\ IsSequence(same) /\ Len(same) = Len(events)
      /\ \A i \in 1 .. Len(events) :
           /\ same[i].of = events[i].of /\ same[i].kind = events[i].kind
           /\ same[i].tasks = events[i].tasks /\ same[i].text = events[i].text
           /\ DOMAIN same[i] = DOMAIN events[i]
  BY UnflaggedSame DEF Complete, Derivable
<1>2. DOMAIN events = 1 .. Len(events) /\ DOMAIN same = 1 .. Len(events)
  BY <1>1, SequenceShape DEF Complete, Derivable
<1> HIDE DEF same
<1>3. Complete(same)
  BY <1>1, <1>2 DEF Complete, Derivable
<1>4. ASSUME NEW facts, Tells(events, facts) PROVE Tells(same, facts)
  BY <1>1, <1>4 DEF Tells
<1> QED
  BY <1>3, <1>4 DEF same

CodexSound(told) == DOMAIN told = {"events", "seen"} /\ Complete(told.events)

LEMMA CodexRecordSound ==
  ASSUME NEW told, CodexSound(told), NEW r, SoundRecord(r)
  PROVE  CodexSound(CodexRecord(told, r))
<1>1. Derivable(r.facts)
  BY DEF SoundRecord
<1>2. r.type \notin Heads => 1 \in DOMAIN r.facts
  BY <1>1, SequenceShape DEF SoundRecord, Derivable
<1> DEFINE key == <<r.facts[1].text, OrElse(r.time, 0)>>
<1>3. CASE r.type \in {"user_message", "message_user"}
  <2>0. r.type \notin DOMAIN CodexKinds
    BY <1>3 DEF CodexKinds
  <2>1. CodexRecord(told, r) =
          IF key \in told.seen THEN told
          ELSE [events |-> Append(told.events, EventOf("user", r.facts[1])),
                seen |-> told.seen \cup {key}]
    BY <1>3, <2>0 DEF CodexRecord
  <2>2. Complete(Append(told.events, EventOf("user", r.facts[1])))
    BY <1>1, <1>2, <1>3, WholeAppended DEF CodexSound, Heads
  <2> HIDE DEF key
  <2> QED
    BY <2>1, <2>2 DEF CodexSound
<1>4. CASE r.type \in DOMAIN CodexKinds
  <2>1. r.type \notin {"user_message", "message_user"} /\ r.type \notin Heads
    BY <1>4 DEF CodexKinds, Heads
  <2>2. CodexRecord(told, r) =
          [told EXCEPT !.events = Append(@, EventOf(CodexKinds[r.type], r.facts[1]))]
    BY <1>4, <2>1 DEF CodexRecord
  <2>3. Complete(Append(told.events, EventOf(CodexKinds[r.type], r.facts[1])))
    BY <1>1, <1>2, <2>1, WholeAppended DEF CodexSound
  <2> QED
    BY <2>2, <2>3 DEF CodexSound
<1>5. CASE r.type \notin {"user_message", "message_user"} /\ r.type \notin DOMAIN CodexKinds
  <2>1. CodexRecord(told, r) = told
    BY <1>5 DEF CodexRecord
  <2> QED
    BY <2>1
<1> QED
  BY <1>3, <1>4, <1>5

LEMMA AppendJoins ==
  ASSUME NEW s, NEW x, IsSequence(s)
  PROVE  Append(s, x) = s \o <<x>>
<1> DEFINE more == Append(s, x)
           one == <<x>>
           joined == s \o one
<1>1. IsSequence(one) /\ Len(one) = 1 /\ one[1] = x
  BY SingleSequence
<1> HIDE DEF one
<1>2. /\ IsSequence(more) /\ Len(more) = Len(s) + 1 /\ more[Len(s) + 1] = x
      /\ \A i \in 1 .. Len(s) : more[i] = s[i]
  BY Appended
<1>3. /\ IsSequence(joined) /\ Len(joined) = Len(s) + 1
      /\ \A i \in 1 .. Len(s) : joined[i] = s[i]
      /\ \A i \in 1 .. 1 : joined[Len(s) + i] = one[i]
  <2>1. IsSequence(one)
    BY <1>1
  <2>2. /\ IsSequence(joined) /\ Len(joined) = Len(s) + Len(one)
        /\ \A i \in 1 .. Len(s) : joined[i] = s[i]
        /\ \A i \in 1 .. Len(one) : joined[Len(s) + i] = one[i]
    BY <2>1, Joined
  <2> QED
    BY <1>1, <2>2
<1>4. Len(s) \in Nat
  BY SequenceShape
<1> HIDE DEF more, joined
<1>5. joined[Len(s) + 1] = x
  BY <1>1, <1>3
<1>6. \A i \in 1 .. Len(more) : more[i] = joined[i]
  <2>1. \A i \in 1 .. Len(more) : i \in 1 .. Len(s) \/ i = Len(s) + 1
    BY <1>2, <1>4
  <2> QED
    BY <1>2, <1>3, <1>5, <2>1
<1>7. more = joined
  BY <1>2, <1>3, <1>6, SameSequence
<1> QED
  BY <1>7 DEF more, joined, one

LEMMA TellsAppended ==
  ASSUME NEW events, NEW facts, Tells(events, facts), NEW e, NEW f, e.of = f.n, e.kind = f.kind
  PROVE  Tells(Append(events, e), facts \o <<f>>)
<1>1. Tells(<<e>>, <<f>>)
  <2> DEFINE es == <<e>>
             fs == <<f>>
  <2>1. IsSequence(es) /\ Len(es) = 1 /\ es[1] = e /\ IsSequence(fs) /\ Len(fs) = 1 /\ fs[1] = f
    BY SingleSequence
  <2> HIDE DEF es, fs
  <2>2. Tells(es, fs)
    BY <2>1 DEF Tells
  <2> QED
    BY <2>2 DEF es, fs
<1>2. Append(events, e) = events \o <<e>>
  BY AppendJoins DEF Tells
<1> QED
  BY <1>1, <1>2, TellsJoined

\* Every fact so far is an event, and no message of a later time was seen.
CodexSaid(told, facts) ==
  /\ CodexSound(told) /\ Tells(told.events, facts)
  /\ \A key \in told.seen : key[2] \in 0 .. Len(facts)

LEMMA CodexRecordSaid ==
  ASSUME NEW told, NEW facts, CodexSaid(told, facts), NEW f, Derivable(<<f>>),
         f.n = Len(facts) + 1, NEW r, r.facts = <<f>>, r.time = f.n
  PROVE  /\ (\/ r.type \in {"user_message", "message_user"} /\ f.kind = "user"
             \/ r.type \in DOMAIN CodexKinds /\ f.kind = CodexKinds[r.type]) =>
               CodexSaid(CodexRecord(told, r), facts \o <<f>>)
         /\ r.type = "agent_message" => CodexRecord(told, r) = told
         /\ r.type \in {"user_message", "message_user"} =>
              \A again : again.type \in {"user_message", "message_user"}
                         /\ again.facts = r.facts /\ again.time = r.time =>
                           CodexRecord(CodexRecord(told, r), again) = CodexRecord(told, r)
<1>1. Len(facts) \in Nat /\ IsSequence(facts)
  BY SequenceShape DEF CodexSaid, Tells
<1>2. r.time \in Nat /\ r.time # None /\ OrElse(r.time, 0) = r.time
  BY <1>1, ProjectionAssumption DEF OrElse
<1>3. DOMAIN told = {"events", "seen"} /\ Complete(told.events) /\ Tells(told.events, facts)
  BY DEF CodexSaid, CodexSound
<1>4. r.facts[1] = f /\ 1 \in DOMAIN <<f>> /\ <<f>>[1] = f
  BY SingleSequence
<1> DEFINE key == <<f.text, r.time>>
<1>5. key \notin told.seen
  <2>1. key[2] \notin 0 .. Len(facts)
    BY <1>1
  <2> HIDE DEF key
  <2> QED
    BY <2>1 DEF CodexSaid
<1>6. Len(facts \o <<f>>) = Len(facts) + 1
  BY <1>1, SingleSequence, Joined
<1>7. ASSUME NEW kind
      PROVE  /\ Complete(Append(told.events, EventOf(kind, f)))
             /\ f.kind = kind => Tells(Append(told.events, EventOf(kind, f)), facts \o <<f>>)
  <2>1. Complete(Append(told.events, EventOf(kind, <<f>>[1])))
    BY <1>3, <1>4, WholeAppended
  <2>2. EventOf(kind, f).of = f.n /\ EventOf(kind, f).kind = kind
    BY DEF EventOf
  <2> QED
    BY <1>3, <1>4, <2>1, <2>2, TellsAppended
<1>8. \A other \in told.seen : other[2] \in 0 .. Len(facts) + 1
  BY <1>1 DEF CodexSaid
<1>9. CASE r.type \in {"user_message", "message_user"}
  <2> DEFINE new == [events |-> Append(told.events, EventOf("user", f)),
                     seen |-> told.seen \cup {key}]
  <2>1. r.type \notin DOMAIN CodexKinds /\ r.type # "agent_message"
    BY <1>9 DEF CodexKinds
  <2>2. CodexRecord(told, r) = new
    BY <1>2, <1>4, <1>5, <1>9, <2>1 DEF CodexRecord
  <2>3. /\ DOMAIN new = {"events", "seen"} /\ new.seen = told.seen \cup {key}
        /\ new.events = Append(told.events, EventOf("user", f))
    OBVIOUS
  <2>4. key[2] \in 0 .. Len(facts) + 1 /\ key \in told.seen \cup {key}
    BY <1>1
  <2> HIDE DEF new
  <2>5. \A other \in new.seen : other[2] \in 0 .. Len(facts) + 1
    <3> HIDE DEF key
    <3> QED
      BY <1>8, <2>3, <2>4
  <2>6. f.kind = "user" => CodexSaid(new, facts \o <<f>>)
    BY <1>6, <1>7, <2>3, <2>5 DEF CodexSaid, CodexSound
  <2>7. ASSUME NEW again, again.type \in {"user_message", "message_user"},
               again.facts = r.facts, again.time = r.time
        PROVE  CodexRecord(new, again) = new
    <3>1. again.type \notin DOMAIN CodexKinds
      BY <2>7 DEF CodexKinds
    <3>2. <<again.facts[1].text, OrElse(again.time, 0)>> = key
      BY <1>2, <1>4, <2>7
    <3> QED
      BY <2>3, <2>4, <2>7, <3>1, <3>2 DEF CodexRecord
  <2>8. r.type \in {"user_message", "message_user"} =>
          \A again : again.type \in {"user_message", "message_user"}
                     /\ again.facts = r.facts /\ again.time = r.time =>
                       CodexRecord(CodexRecord(told, r), again) = CodexRecord(told, r)
    <3>1. ASSUME NEW again, again.type \in {"user_message", "message_user"},
                 again.facts = r.facts, again.time = r.time
          PROVE  CodexRecord(CodexRecord(told, r), again) = CodexRecord(told, r)
      <4> HIDE DEF new
      <4>1. CodexRecord(new, again) = new
        BY <2>7, <3>1
      <4> QED
        BY <2>2, <4>1
    <3> QED
      BY <3>1
  <2>9. f.kind = "user" => CodexSaid(CodexRecord(told, r), facts \o <<f>>)
    BY <2>2, <2>6
  <2> HIDE DEF new
  <2>10. ~(r.type \in DOMAIN CodexKinds /\ f.kind = CodexKinds[r.type])
    BY <2>1
  <2>11. r.type # "agent_message"
    BY <2>1
  <2> QED
    BY <2>8, <2>9, <2>10, <2>11
<1>10. CASE r.type \in DOMAIN CodexKinds
  <2>1. r.type \notin {"user_message", "message_user"} /\ r.type # "agent_message"
    BY <1>10 DEF CodexKinds
  <2>2. CodexRecord(told, r) =
          [told EXCEPT !.events = Append(@, EventOf(CodexKinds[r.type], f))]
    BY <1>4, <1>10, <2>1 DEF CodexRecord
  <2> DEFINE new == CodexRecord(told, r)
  <2>3. /\ DOMAIN new = {"events", "seen"} /\ new.seen = told.seen
        /\ new.events = Append(told.events, EventOf(CodexKinds[r.type], f))
    BY <1>3, <2>2
  <2> HIDE DEF new
  <2>4. f.kind = CodexKinds[r.type] => CodexSaid(new, facts \o <<f>>)
    BY <1>6, <1>7, <1>8, <2>3 DEF CodexSaid, CodexSound
  <2> QED
    BY <1>10, <2>1, <2>4 DEF new
<1>11. CASE r.type \notin {"user_message", "message_user"} /\ r.type \notin DOMAIN CodexKinds
  BY <1>11 DEF CodexRecord
<1> QED
  BY <1>9, <1>10, <1>11

(***************************************************************************)
(* Gemini: the messages read so far                                        *)
(***************************************************************************)
\* A sequence goes on as it began.
Extends(old, new) == Len(old) <= Len(new) /\ \A i \in 1 .. Len(old) : new[i] = old[i]

LEMMA PrefixGrows ==
  ASSUME NEW s, IsSequence(s)
  PROVE  /\ SubSeq(s, 1, 0) = <<>> /\ SubSeq(s, 1, Len(s)) = s
         /\ \A n \in 1 .. Len(s) :
              /\ IsSequence(SubSeq(s, 1, n - 1))
              /\ SubSeq(s, 1, n) = Append(SubSeq(s, 1, n - 1), s[n])
<1> DEFINE S == Entries(s)
<1>1. s \in Seq(S)
  BY DEF IsSequence
<1> HIDE DEF S
<1>2. SubSeq(s, 1, 0) = <<>> /\ SubSeq(s, 1, Len(s)) = s
  BY <1>1
<1>3. ASSUME NEW n \in 1 .. Len(s)
      PROVE  /\ IsSequence(SubSeq(s, 1, n - 1))
             /\ SubSeq(s, 1, n) = Append(SubSeq(s, 1, n - 1), s[n])
  <2>1. SubSeq(s, 1, n - 1) \in Seq(S) /\ Len(s) \in Nat
    BY <1>1
  <2>2. SubSeq(s, 1, n) = Append(SubSeq(s, 1, n - 1), s[n])
    BY <1>1, <2>1
  <2> QED
    BY <2>1, <2>2, TypedSequence
<1> QED
  BY <1>2, <1>3

LEMMA JoinAppended ==
  ASSUME NEW s, NEW t, NEW x, IsSequence(s), IsSequence(t)
  PROVE  s \o Append(t, x) = Append(s \o t, x)
<1> DEFINE S == Entries(s) \cup Entries(t) \cup {x}
<1>1. s \in Seq(S) /\ t \in Seq(S) /\ x \in S
  BY DEF IsSequence, Entries
<1> HIDE DEF S
<1> QED
  BY <1>1

NoMessages == [rows |-> <<>>, seen |-> {}]

GeminiReads(rows, read) ==
  \E parse :
    /\ parse = [i \in 0 .. Len(rows) |->
                  IF i = 0 THEN NoMessages ELSE GeminiRow(parse[i-1], rows[i])]
    /\ read = parse[Len(rows)]

LEMMA GeminiNothing == GeminiReads(<<>>, NoMessages)
<1> DEFINE parse == [i \in 0 .. 0 |-> NoMessages]
<1>1. parse = [i \in 0 .. 0 |-> IF i = 0 THEN NoMessages ELSE GeminiRow(parse[i-1], <<>>[i])]
  OBVIOUS
<1>2. parse[0] = NoMessages
  OBVIOUS
<1> HIDE DEF parse
<1> QED
  BY <1>1, <1>2, EmptySequence DEF GeminiReads

LEMMA GeminiMore ==
  ASSUME NEW rows, IsSequence(rows), NEW read, GeminiReads(rows, read), NEW row
  PROVE  GeminiReads(Append(rows, row), GeminiRow(read, row))
<1> DEFINE L == Len(rows)
           more == Append(rows, row)
<1>1. PICK parse : /\ parse = [i \in 0 .. L |->
                                 IF i = 0 THEN NoMessages ELSE GeminiRow(parse[i-1], rows[i])]
                   /\ read = parse[L]
  BY DEF GeminiReads
<1>2. L \in Nat /\ DOMAIN rows = 1 .. L
  BY SequenceShape
<1>3. Len(more) = L + 1 /\ more[L + 1] = row /\ \A i \in 1 .. L : more[i] = rows[i]
  BY Appended
<1> HIDE DEF L, more
<1> DEFINE longer == [i \in 0 .. L + 1 |-> IF i = L + 1 THEN GeminiRow(read, row) ELSE parse[i]]
<1>4. ASSUME NEW i \in 0 .. L + 1
      PROVE  longer[i] = IF i = 0 THEN NoMessages ELSE GeminiRow(longer[i-1], more[i])
  <2>1. CASE i = L + 1
    <3>1. i # 0 /\ i - 1 \in 0 .. L + 1 /\ i - 1 # L + 1 /\ i - 1 = L
      BY <1>2, <2>1
    <3>2. longer[i-1] = read
      BY <1>1, <3>1
    <3> QED
      BY <1>3, <2>1, <3>1, <3>2
  <2>2. CASE i = 0
    BY <1>1, <1>2, <2>2
  <2>3. CASE i # 0 /\ i # L + 1
    <3>1. i \in 1 .. L /\ i \in 0 .. L /\ i - 1 \in 0 .. L + 1 /\ i - 1 # L + 1
      BY <1>2, <2>3
    <3>2. parse[i] = GeminiRow(parse[i-1], rows[i])
      BY <1>1, <2>3, <3>1
    <3> QED
      BY <1>3, <2>3, <3>1, <3>2
  <2> QED
    BY <2>1, <2>2, <2>3
<1>5. longer = [i \in 0 .. Len(more) |->
                  IF i = 0 THEN NoMessages ELSE GeminiRow(longer[i-1], more[i])]
  BY <1>3, <1>4
<1>6. longer[Len(more)] = GeminiRow(read, row)
  BY <1>2, <1>3
<1> HIDE DEF longer
<1> QED
  BY <1>5, <1>6 DEF GeminiReads, more

LEMMA GeminiRead ==
  ASSUME NEW records, NEW rows, rows = GeminiRows(records), IsSequence(rows),
         NEW read, GeminiReads(rows, read)
  PROVE  GeminiMessages(records) = read.rows
<1> DEFINE L == Len(rows)
           parse[i \in 0 .. Len(rows)] ==
             IF i = 0 THEN [rows |-> <<>>, seen |-> {}] ELSE GeminiRow(parse[i-1], rows[i])
<1>1. GeminiMessages(records) = parse[L].rows
  BY DEF GeminiMessages
<1>2. PICK other : /\ other = [i \in 0 .. L |->
                                 IF i = 0 THEN NoMessages ELSE GeminiRow(other[i-1], rows[i])]
                   /\ read = other[L]
  BY DEF GeminiReads
<1>3. parse = CHOOSE f : f = [i \in 0 .. L |->
                                IF i = 0 THEN NoMessages ELSE GeminiRow(f[i-1], rows[i])]
  BY DEF NoMessages
<1>4. L \in Nat
  BY SequenceShape
<1> HIDE DEF parse, L
<1>5. parse = [i \in 0 .. L |-> IF i = 0 THEN NoMessages ELSE GeminiRow(parse[i-1], rows[i])]
  BY <1>2, <1>3
<1> DEFINE T == {n \in 0 .. L : parse[n] = other[n]}
<1>6. 0 \in T
  BY <1>2, <1>4, <1>5
<1>7. \A n \in 1 .. L : n - 1 \in T => n \in T
  <2>1. \A n \in 1 .. L : n \in 0 .. L /\ n # 0
    BY <1>4
  <2>2. \A n \in 1 .. L : /\ parse[n] = GeminiRow(parse[n-1], rows[n])
                          /\ other[n] = GeminiRow(other[n-1], rows[n])
    BY <1>2, <1>5, <2>1
  <2> QED
    BY <2>1, <2>2
<1>8. L \in T
  <2>1. T \subseteq 0 .. L
    OBVIOUS
  <2> HIDE DEF T
  <2>2. T = 0 .. L
    BY <1>4, <1>6, <1>7, <2>1, UpTo
  <2> QED
    BY <1>4, <2>2
<1> QED
  BY <1>1, <1>2, <1>8

\* The messages can be told, and a message that counted is known by its id.
GeminiSound(read) ==
  /\ DOMAIN read = {"rows", "seen"} /\ IsSequence(read.rows)
  /\ \A i \in DOMAIN read.rows : SoundRow(read.rows[i]) /\ read.rows[i].id \in read.seen
  /\ \A id \in read.seen : \E i \in DOMAIN read.rows : read.rows[i].id = id

LEMMA GeminiRowSound ==
  ASSUME NEW read, GeminiSound(read), NEW row, SoundRow(row)
  PROVE  /\ GeminiSound(GeminiRow(read, row))
         /\ Extends(read.rows, GeminiRow(read, row).rows)
         /\ row.id \in read.seen => GeminiRow(read, row) = read
         /\ row.id \notin read.seen => GeminiRow(read, row).rows = Append(read.rows, row)
<1> DEFINE new == GeminiRow(read, row)
<1>1. Len(read.rows) \in Nat /\ DOMAIN read.rows = 1 .. Len(read.rows)
  BY SequenceShape DEF GeminiSound
<1>2. CASE row.id \in read.seen
  <2>1. new = read
    BY <1>2 DEF GeminiRow
  <2> QED
    BY <1>1, <1>2, <2>1 DEF Extends
<1>3. CASE row.id \notin read.seen
  <2>1. /\ DOMAIN new = {"rows", "seen"} /\ new.rows = Append(read.rows, row)
        /\ new.seen = read.seen \cup {row.id}
    BY <1>3 DEF GeminiRow
  <2> HIDE DEF new
  <2>2. /\ IsSequence(new.rows) /\ Len(new.rows) = Len(read.rows) + 1
        /\ new.rows[Len(read.rows) + 1] = row
        /\ \A i \in 1 .. Len(read.rows) : new.rows[i] = read.rows[i]
    BY <2>1, Appended DEF GeminiSound
  <2>3. DOMAIN new.rows = 1 .. Len(read.rows) + 1
    BY <2>2, SequenceShape
  <2>4. ASSUME NEW i \in DOMAIN new.rows
        PROVE  SoundRow(new.rows[i]) /\ new.rows[i].id \in new.seen
    <3>1. i = Len(read.rows) + 1 \/ i \in 1 .. Len(read.rows)
      BY <1>1, <2>3
    <3> QED
      BY <1>1, <2>1, <2>2, <3>1 DEF GeminiSound
  <2>5. ASSUME NEW id \in new.seen PROVE \E i \in DOMAIN new.rows : new.rows[i].id = id
    <3>1. CASE id = row.id
      BY <1>1, <2>2, <2>3, <3>1
    <3>2. CASE id # row.id
      <4>1. PICK i \in DOMAIN read.rows : read.rows[i].id = id
        BY <2>1, <3>2 DEF GeminiSound
      <4>2. i \in DOMAIN new.rows /\ new.rows[i] = read.rows[i]
        BY <1>1, <2>2, <2>3
      <4> QED
        BY <4>1, <4>2
    <3> QED
      BY <3>1, <3>2
  <2>6. GeminiSound(new)
    BY <2>1, <2>2, <2>4, <2>5 DEF GeminiSound
  <2>7. Extends(read.rows, new.rows)
    BY <1>1, <2>2 DEF Extends
  <2> QED
    BY <1>3, <2>1, <2>6, <2>7 DEF new
<1> QED
  BY <1>2, <1>3

\* Messages of a list written again: those that are known change nothing.
LEMMA GeminiMoreRows ==
  ASSUME NEW rows, IsSequence(rows), NEW read, GeminiReads(rows, read), GeminiSound(read),
         NEW more, IsSequence(more), \A i \in DOMAIN more : SoundRow(more[i])
  PROVE  \E now : /\ GeminiReads(rows \o more, now) /\ GeminiSound(now)
                  /\ Extends(read.rows, now.rows)
                  /\ (\A i \in DOMAIN more : more[i].id \in read.seen) => now = read
<1> DEFINE L == Len(more)
           known == \A i \in DOMAIN more : more[i].id \in read.seen
           Goes(n, now) == /\ GeminiReads(rows \o SubSeq(more, 1, n), now) /\ GeminiSound(now)
                           /\ Extends(read.rows, now.rows)
                           /\ known => now = read
           T == {n \in 0 .. L : \E now : Goes(n, now)}
<1>1. L \in Nat /\ DOMAIN more = 1 .. L
  BY SequenceShape
<1>2. /\ SubSeq(more, 1, 0) = <<>> /\ SubSeq(more, 1, L) = more
      /\ \A n \in 1 .. L : /\ IsSequence(SubSeq(more, 1, n - 1))
                           /\ SubSeq(more, 1, n) = Append(SubSeq(more, 1, n - 1), more[n])
  BY PrefixGrows
<1> HIDE DEF L
<1>3. 0 \in T
  <2>1. rows \o SubSeq(more, 1, 0) = rows
    BY <1>2, JoinedEmpty
  <2>2. Len(read.rows) \in Nat
    BY SequenceShape DEF GeminiSound
  <2>4. Extends(read.rows, read.rows)
    BY <2>2 DEF Extends
  <2>3. Goes(0, read)
    BY <2>1, <2>4
  <2> HIDE DEF Goes
  <2> QED
    BY <1>1, <2>3
<1>4. ASSUME NEW n \in 1 .. L, n - 1 \in T PROVE n \in T
  <2>1. PICK old : Goes(n - 1, old)
    BY <1>4
  <2> DEFINE before == rows \o SubSeq(more, 1, n - 1)
             now == GeminiRow(old, more[n])
  <2>2. rows \o SubSeq(more, 1, n) = Append(before, more[n]) /\ IsSequence(before)
    BY <1>2, Joined, JoinAppended
  <2>3. GeminiReads(before, old) /\ GeminiSound(old) /\ Extends(read.rows, old.rows)
        /\ (known => old = read)
    BY <2>1
  <2>4. SoundRow(more[n])
    BY <1>1
  <2>5. GeminiReads(Append(before, more[n]), now)
    BY <2>2, <2>3, GeminiMore
  <2>6. /\ GeminiSound(now) /\ Extends(old.rows, now.rows)
        /\ more[n].id \in old.seen => now = old
    BY <2>3, <2>4, GeminiRowSound
  <2> HIDE DEF before, now
  <2>7. Extends(read.rows, now.rows)
    <3>1. Len(read.rows) \in Nat /\ Len(old.rows) \in Nat /\ Len(now.rows) \in Nat
      BY <2>3, <2>6, SequenceShape DEF GeminiSound
    <3> QED
      BY <2>3, <2>6, <3>1 DEF Extends
  <2>8. known => now = read
    BY <1>1, <2>3, <2>6
  <2>9. Goes(n, now)
    BY <2>2, <2>5, <2>6, <2>7, <2>8
  <2> HIDE DEF Goes
  <2> QED
    BY <1>1, <2>9
<1>5. L \in T
  <2>1. T \subseteq 0 .. L
    OBVIOUS
  <2>2. \A n \in 1 .. L : n - 1 \in T => n \in T
    BY <1>4
  <2> HIDE DEF T
  <2>3. T = 0 .. L
    BY <1>1, <1>3, <2>1, <2>2, UpTo
  <2> QED
    BY <1>1, <2>3
<1> QED
  BY <1>2, <1>5

(***************************************************************************)
(* One more record of a file                                               *)
(***************************************************************************)
LEMMA OneMore ==
  ASSUME NEW s, NEW t, IsSequence(s), IsSequence(t), Len(t) = Len(s) + 1,
         \A i \in 1 .. Len(s) : t[i] = s[i]
  PROVE  t = Append(s, t[Len(s) + 1])
<1> DEFINE more == Append(s, t[Len(s) + 1])
<1>1. /\ IsSequence(more) /\ Len(more) = Len(s) + 1 /\ more[Len(s) + 1] = t[Len(s) + 1]
      /\ \A i \in 1 .. Len(s) : more[i] = s[i]
  BY Appended
<1>2. Len(s) \in Nat
  BY SequenceShape
<1> HIDE DEF more
<1>3. \A i \in 1 .. Len(t) : i \in 1 .. Len(s) \/ i = Len(s) + 1
  BY <1>2
<1>4. \A i \in 1 .. Len(t) : t[i] = more[i]
  BY <1>1, <1>3
<1>5. t = more
  BY <1>1, <1>4, SameSequence
<1> QED
  BY <1>5 DEF more

Records(records) == IsSequence(records) /\ \A i \in DOMAIN records : SoundRecord(records[i])

LEMMA RecordsAppended ==
  ASSUME NEW records, Records(records), NEW r, SoundRecord(r)
  PROVE  Records(Append(records, r))
<1> DEFINE more == Append(records, r)
<1>1. /\ IsSequence(more) /\ Len(more) = Len(records) + 1 /\ more[Len(records) + 1] = r
      /\ \A i \in 1 .. Len(records) : more[i] = records[i]
  BY Appended DEF Records
<1>2. /\ Len(records) \in Nat /\ DOMAIN records = 1 .. Len(records)
      /\ DOMAIN more = 1 .. Len(records) + 1
  BY <1>1, SequenceShape DEF Records
<1> HIDE DEF more
<1>3. ASSUME NEW i \in DOMAIN more PROVE SoundRecord(more[i])
  <2>1. i \in 1 .. Len(records) \/ i = Len(records) + 1
    BY <1>2
  <2> QED
    BY <1>1, <1>2, <2>1 DEF Records
<1>4. Records(more)
  BY <1>1, <1>3 DEF Records
<1> QED
  BY <1>4 DEF more

LEMMA ClaudeGrows ==
  ASSUME NEW records, Records(records), NEW r, SoundRecord(r)
  PROVE  /\ Derivable(EventsOf(records, ClaudeEvents)) /\ Derivable(ClaudeEvents(r))
         /\ EventsOf(Append(records, r), ClaudeEvents) =
              EventsOf(records, ClaudeEvents) \o ClaudeEvents(r)
<1> DEFINE more == Append(records, r)
           f == [i \in DOMAIN records |-> ClaudeEvents(records[i])]
           g == [i \in DOMAIN more |-> ClaudeEvents(more[i])]
           last == Len(records) + 1
<1>1. /\ IsSequence(records) /\ IsSequence(more) /\ Len(more) = last /\ more[last] = r
      /\ \A i \in 1 .. Len(records) : more[i] = records[i]
  BY Appended DEF Records
<1>2. /\ Len(records) \in Nat /\ DOMAIN records = 1 .. Len(records)
      /\ DOMAIN more = 1 .. last
  BY <1>1, SequenceShape
<1>3. Derivable(ClaudeEvents(r))
  BY ClaudeTold
<1>4. \A i \in DOMAIN records : Derivable(f[i])
  BY ClaudeTold DEF Records
<1>5. EventsOf(records, ClaudeEvents) = FlattenSeq(f) /\ EventsOf(more, ClaudeEvents) = FlattenSeq(g)
  BY DEF EventsOf
<1> HIDE DEF more
<1>6. g[last] = ClaudeEvents(r) /\ \A i \in DOMAIN records : g[i] = f[i]
  BY <1>1, <1>2
<1>7. f = [i \in 1 .. Len(records) |-> f[i]] /\ g = [i \in 1 .. last |-> g[i]]
  BY <1>2
<1>8. DOMAIN f = DOMAIN records
  OBVIOUS
<1> HIDE DEF f, g
<1>12. /\ IsSequence(f) /\ Len(f) = Len(records)
       /\ IsSequence(g) /\ Len(g) = Len(records) + 1
  BY <1>2, <1>7, SequenceOf
<1>9. IsSequence(f) /\ g = Append(f, g[last])
  BY <1>2, <1>6, <1>12, OneMore
<1>10. AllSequences(f) /\ Derivable(FlattenSeq(f))
  BY <1>4, <1>8, <1>9, SoundFlat
<1>11. FlattenSeq(g) = FlattenSeq(f) \o ClaudeEvents(r)
  BY <1>3, <1>6, <1>9, <1>10, FlatAppended DEF Derivable
<1> QED
  BY <1>3, <1>5, <1>10, <1>11 DEF more

LEMMA PiGrows ==
  ASSUME NEW records, Records(records), NEW r, SoundRecord(r)
  PROVE  /\ Derivable(EventsOf(records, PiEvents)) /\ Derivable(PiEvents(r))
         /\ EventsOf(Append(records, r), PiEvents) = EventsOf(records, PiEvents) \o PiEvents(r)
<1> DEFINE more == Append(records, r)
           f == [i \in DOMAIN records |-> PiEvents(records[i])]
           g == [i \in DOMAIN more |-> PiEvents(more[i])]
           last == Len(records) + 1
<1>1. /\ IsSequence(records) /\ IsSequence(more) /\ Len(more) = last /\ more[last] = r
      /\ \A i \in 1 .. Len(records) : more[i] = records[i]
  BY Appended DEF Records
<1>2. /\ Len(records) \in Nat /\ DOMAIN records = 1 .. Len(records)
      /\ DOMAIN more = 1 .. last
  BY <1>1, SequenceShape
<1>3. Derivable(PiEvents(r))
  BY PiTold
<1>4. \A i \in DOMAIN records : Derivable(f[i])
  BY PiTold DEF Records
<1>5. EventsOf(records, PiEvents) = FlattenSeq(f) /\ EventsOf(more, PiEvents) = FlattenSeq(g)
  BY DEF EventsOf
<1> HIDE DEF more
<1>6. g[last] = PiEvents(r) /\ \A i \in DOMAIN records : g[i] = f[i]
  BY <1>1, <1>2
<1>7. f = [i \in 1 .. Len(records) |-> f[i]] /\ g = [i \in 1 .. last |-> g[i]]
  BY <1>2
<1>8. DOMAIN f = DOMAIN records
  OBVIOUS
<1> HIDE DEF f, g
<1>12. /\ IsSequence(f) /\ Len(f) = Len(records)
       /\ IsSequence(g) /\ Len(g) = Len(records) + 1
  BY <1>2, <1>7, SequenceOf
<1>9. IsSequence(f) /\ g = Append(f, g[last])
  BY <1>2, <1>6, <1>12, OneMore
<1>10. AllSequences(f) /\ Derivable(FlattenSeq(f))
  BY <1>4, <1>8, <1>9, SoundFlat
<1>11. FlattenSeq(g) = FlattenSeq(f) \o PiEvents(r)
  BY <1>3, <1>6, <1>9, <1>10, FlatAppended DEF Derivable
<1> QED
  BY <1>3, <1>5, <1>10, <1>11 DEF more

\* Rows with something to tell in them.
SoundRows(rows) == IsSequence(rows) /\ \A i \in DOMAIN rows : SoundRow(rows[i])

LEMMA GeminiRowsGrow ==
  ASSUME NEW records, Records(records), NEW r, SoundRecord(r)
  PROVE  /\ SoundRows(GeminiRows(records))
         /\ GeminiRows(Append(records, r)) = GeminiRows(records) \o r.rows
<1> DEFINE more == Append(records, r)
           f == [i \in DOMAIN records |-> records[i].rows]
           g == [i \in DOMAIN more |-> more[i].rows]
           last == Len(records) + 1
<1>1. /\ IsSequence(records) /\ IsSequence(more) /\ Len(more) = last /\ more[last] = r
      /\ \A i \in 1 .. Len(records) : more[i] = records[i]
  BY Appended DEF Records
<1>2. /\ Len(records) \in Nat /\ DOMAIN records = 1 .. Len(records)
      /\ DOMAIN more = 1 .. last
  BY <1>1, SequenceShape
<1>3. \A i \in DOMAIN records : SoundRows(f[i])
  BY DEF Records, SoundRecord, SoundRows
<1>4. GeminiRows(records) = FlattenSeq(f) /\ GeminiRows(more) = FlattenSeq(g)
  BY DEF EventsOf, GeminiRows
<1> HIDE DEF more
<1>5. g[last] = r.rows /\ \A i \in DOMAIN records : g[i] = f[i]
  BY <1>1, <1>2
<1>6. f = [i \in 1 .. Len(records) |-> f[i]] /\ g = [i \in 1 .. last |-> g[i]]
  BY <1>2
<1>7. DOMAIN f = DOMAIN records
  OBVIOUS
<1> HIDE DEF f, g
<1>12. /\ IsSequence(f) /\ Len(f) = Len(records)
       /\ IsSequence(g) /\ Len(g) = Len(records) + 1
  BY <1>2, <1>6, SequenceOf
<1>8. IsSequence(f) /\ g = Append(f, g[last])
  BY <1>2, <1>5, <1>12, OneMore
<1>9. AllSequences(f)
  BY <1>3, <1>7, <1>8 DEF AllSequences, SoundRows
<1>10. SoundRows(FlattenSeq(f))
  BY <1>3, <1>7, <1>9, FlatItems DEF SoundRows
<1>11. FlattenSeq(g) = FlattenSeq(f) \o r.rows
  BY <1>5, <1>8, <1>9, FlatAppended DEF SoundRecord
<1> QED
  BY <1>4, <1>10, <1>11 DEF more

\* What was said is what is told from a number on, each once and in order, beside an
\* empty answer before a thought or a call.
Numbers(facts, from) == \A k \in 1 .. Len(facts) : facts[k].n = from + k

Answers(events, i) ==
  /\ events[i].of = None /\ events[i].kind = "assistant"
  /\ i + 1 \in 1 .. Len(events) /\ events[i + 1].of # None
  /\ events[i + 1].kind \in {"thinking", "tool_call"}

TellsAll(events, facts) ==
  /\ IsSequence(events) /\ IsSequence(facts)
  /\ \A k \in 1 .. Len(facts) : \E i \in 1 .. Len(events) :
       events[i].of = facts[k].n /\ events[i].kind = facts[k].kind
  /\ \A i \in 1 .. Len(events) :
       \/ Answers(events, i)
       \/ \E k \in 1 .. Len(facts) : events[i].of = facts[k].n /\ events[i].kind = facts[k].kind
  /\ \A i, j \in 1 .. Len(events) :
       i < j /\ events[i].of # None /\ events[j].of # None => events[i].of < events[j].of

LEMMA AllTold ==
  ASSUME NEW events, NEW facts, Tells(events, facts), NEW from \in Nat, Numbers(facts, from)
  PROVE  TellsAll(events, facts)
<1>1. IsSequence(events) /\ IsSequence(facts) /\ Len(events) = Len(facts) /\ Len(facts) \in Nat
  BY SequenceShape DEF Tells
<1>2. \A i \in 1 .. Len(facts) : /\ events[i].of = facts[i].n /\ events[i].kind = facts[i].kind
                                 /\ facts[i].n = from + i
  BY DEF Tells, Numbers
<1>3. \A i, j \in 1 .. Len(events) : i < j => events[i].of < events[j].of
  BY <1>1, <1>2
<1> QED
  BY <1>1, <1>2, <1>3 DEF TellsAll

\* Behind an empty answer.
LEMMA ToldBehind ==
  ASSUME NEW e, e.of = None, e.kind = "assistant", NEW events, NEW facts,
         Tells(events, facts), NEW from \in Nat, Numbers(facts, from), Len(facts) > 0,
         facts[1].kind \in {"thinking", "tool_call"}
  PROVE  TellsAll(<<e>> \o events, facts)
<1> DEFINE one == <<e>>
           all == one \o events
<1>1. IsSequence(events) /\ IsSequence(facts) /\ Len(events) = Len(facts) /\ Len(facts) \in Nat
  BY SequenceShape DEF Tells
<1>2. IsSequence(one) /\ Len(one) = 1 /\ one[1] = e
  BY SingleSequence
<1> HIDE DEF one
<1>3. /\ IsSequence(all) /\ Len(all) = 1 + Len(facts) /\ all[1] = e
      /\ \A i \in 1 .. Len(facts) : all[1 + i] = events[i]
  <2>0. IsSequence(one) /\ IsSequence(events)
    BY <1>1, <1>2
  <2>1. /\ IsSequence(all) /\ Len(all) = Len(one) + Len(events)
        /\ \A i \in 1 .. Len(one) : all[i] = one[i]
        /\ \A i \in 1 .. Len(events) : all[Len(one) + i] = events[i]
    BY <2>0, Joined
  <2> HIDE DEF all
  <2>2. all[1] = one[1]
    BY <1>2, <2>1
  <2> QED
    BY <1>1, <1>2, <2>1, <2>2
<1> HIDE DEF all
<1>4. \A i \in 1 .. Len(facts) :
        /\ all[1 + i].of = facts[i].n /\ all[1 + i].kind = facts[i].kind
        /\ facts[i].n = from + i /\ facts[i].n # None
  BY <1>3, ProjectionAssumption DEF Tells, Numbers
<1>5. \A i \in 1 .. Len(all) : i = 1 \/ (i - 1 \in 1 .. Len(facts) /\ i = 1 + (i - 1))
  BY <1>1, <1>3
<1>6. \A k \in 1 .. Len(facts) : \E i \in 1 .. Len(all) :
        all[i].of = facts[k].n /\ all[i].kind = facts[k].kind
  <2> SUFFICES ASSUME NEW k \in 1 .. Len(facts)
               PROVE  \E i \in 1 .. Len(all) : all[i].of = facts[k].n /\ all[i].kind = facts[k].kind
    OBVIOUS
  <2>1. 1 + k \in 1 .. Len(all)
    BY <1>1, <1>3
  <2>2. all[1 + k].of = facts[k].n /\ all[1 + k].kind = facts[k].kind
    BY <1>4
  <2> QED
    BY ONLY <2>1, <2>2
<1>7. Answers(all, 1)
  <2>1. 1 \in 1 .. Len(facts) /\ 1 + 1 \in 1 .. Len(all)
    BY <1>1, <1>3
  <2> QED
    BY <1>3, <1>4, <2>1 DEF Answers
<1>8. \A i \in 1 .. Len(all) :
        \/ Answers(all, i)
        \/ \E k \in 1 .. Len(facts) : all[i].of = facts[k].n /\ all[i].kind = facts[k].kind
  <2> SUFFICES ASSUME NEW i \in 1 .. Len(all), ~Answers(all, i)
               PROVE  \E k \in 1 .. Len(facts) :
                        all[i].of = facts[k].n /\ all[i].kind = facts[k].kind
    OBVIOUS
  <2>1. i - 1 \in 1 .. Len(facts) /\ i = 1 + (i - 1)
    BY <1>5, <1>7
  <2>2. all[i].of = facts[i - 1].n /\ all[i].kind = facts[i - 1].kind
    BY <1>4, <2>1
  <2> QED
    BY ONLY <2>1, <2>2
<1>9. \A i, j \in 1 .. Len(all) :
        i < j /\ all[i].of # None /\ all[j].of # None => all[i].of < all[j].of
  <2> SUFFICES ASSUME NEW i \in 1 .. Len(all), NEW j \in 1 .. Len(all), i < j,
                      all[i].of # None, all[j].of # None
               PROVE  all[i].of < all[j].of
    OBVIOUS
  <2>1. i # 1 /\ j # 1
    BY <1>1, <1>3
  <2>2. i - 1 \in 1 .. Len(facts) /\ j - 1 \in 1 .. Len(facts)
    BY <1>5, <2>1
  <2>3. all[i].of = from + (i - 1) /\ all[j].of = from + (j - 1)
    BY <1>4, <1>5, <2>1, <2>2
  <2> QED
    BY <1>1, <1>3, <2>3
<1> QED
  BY <1>1, <1>3, <1>6, <1>8, <1>9 DEF TellsAll, all, one

LEMMA NumbersJoined ==
  ASSUME NEW f, NEW g, IsSequence(f), IsSequence(g), Numbers(f, 0), Numbers(g, Len(f))
  PROVE  Numbers(f \o g, 0)
<1> DEFINE facts == f \o g
<1>1. /\ IsSequence(facts) /\ Len(facts) = Len(f) + Len(g)
      /\ \A i \in 1 .. Len(f) : facts[i] = f[i]
      /\ \A i \in 1 .. Len(g) : facts[Len(f) + i] = g[i]
  BY Joined
<1>2. Len(f) \in Nat /\ Len(g) \in Nat
  BY SequenceShape
<1> HIDE DEF facts
<1>3. ASSUME NEW k \in 1 .. Len(facts) PROVE facts[k].n = 0 + k
  <2>1. CASE k \in 1 .. Len(f)
    BY <1>1, <2>1 DEF Numbers
  <2>2. CASE k \notin 1 .. Len(f)
    <3>1. k - Len(f) \in 1 .. Len(g) /\ k = Len(f) + (k - Len(f))
      BY <1>1, <1>2, <2>2
    <3>2. facts[k] = g[k - Len(f)] /\ g[k - Len(f)].n = Len(f) + (k - Len(f))
      BY <1>1, <3>1 DEF Numbers
    <3> QED
      BY <1>2, <3>1, <3>2
  <2> QED
    BY <2>1, <2>2
<1> QED
  BY <1>3 DEF Numbers, facts

\* Events of later facts go behind those of earlier ones.
LEMMA AllJoined ==
  ASSUME NEW s, NEW t, NEW f, NEW g, TellsAll(s, f), TellsAll(t, g),
         Numbers(f, 0), Numbers(g, Len(f))
  PROVE  TellsAll(s \o t, f \o g) /\ Numbers(f \o g, 0)
<1> DEFINE events == s \o t
           facts == f \o g
<1>1. /\ IsSequence(s) /\ IsSequence(t) /\ IsSequence(f) /\ IsSequence(g)
      /\ Len(s) \in Nat /\ Len(t) \in Nat /\ Len(f) \in Nat /\ Len(g) \in Nat
  BY SequenceShape DEF TellsAll
<1>2. /\ IsSequence(events) /\ Len(events) = Len(s) + Len(t)
      /\ \A i \in 1 .. Len(s) : events[i] = s[i]
      /\ \A i \in 1 .. Len(t) : events[Len(s) + i] = t[i]
  BY <1>1, Joined
<1>3. /\ IsSequence(facts) /\ Len(facts) = Len(f) + Len(g)
      /\ \A i \in 1 .. Len(f) : facts[i] = f[i]
      /\ \A i \in 1 .. Len(g) : facts[Len(f) + i] = g[i]
  BY <1>1, Joined
<1> HIDE DEF events, facts
<1>4. /\ \A k \in 1 .. Len(facts) : k \in 1 .. Len(f) \/ (k - Len(f) \in 1 .. Len(g) /\ k = Len(f) + (k - Len(f)))
      /\ \A k \in 1 .. Len(f) : k \in 1 .. Len(facts)
      /\ \A k \in 1 .. Len(g) : Len(f) + k \in 1 .. Len(facts)
  BY <1>1, <1>3
<1>5. /\ \A k \in 1 .. Len(events) : k \in 1 .. Len(s) \/ (k - Len(s) \in 1 .. Len(t) /\ k = Len(s) + (k - Len(s)))
      /\ \A k \in 1 .. Len(s) : k \in 1 .. Len(events)
      /\ \A k \in 1 .. Len(t) : Len(s) + k \in 1 .. Len(events)
  BY <1>1, <1>2
<1>6. Numbers(facts, 0)
  BY <1>1, NumbersJoined DEF facts
<1>7. \A k \in 1 .. Len(facts) : \E i \in 1 .. Len(events) :
        events[i].of = facts[k].n /\ events[i].kind = facts[k].kind
  <2> SUFFICES ASSUME NEW k \in 1 .. Len(facts)
               PROVE  \E i \in 1 .. Len(events) :
                        events[i].of = facts[k].n /\ events[i].kind = facts[k].kind
    OBVIOUS
  <2>1. CASE k \in 1 .. Len(f)
    <3>1. PICK i \in 1 .. Len(s) : s[i].of = f[k].n /\ s[i].kind = f[k].kind
      BY <2>1 DEF TellsAll
    <3> QED
      BY <1>2, <1>3, <1>5, <2>1, <3>1
  <2>2. CASE k - Len(f) \in 1 .. Len(g) /\ k = Len(f) + (k - Len(f))
    <3>1. PICK i \in 1 .. Len(t) : t[i].of = g[k - Len(f)].n /\ t[i].kind = g[k - Len(f)].kind
      BY <2>2 DEF TellsAll
    <3>2. facts[k] = g[k - Len(f)] /\ events[Len(s) + i] = t[i] /\ Len(s) + i \in 1 .. Len(events)
      BY <1>2, <1>3, <1>5, <2>2
    <3> QED
      BY <3>1, <3>2
  <2> QED
    BY <1>4, <2>1, <2>2
\* An event tells a fact of its own part, or nothing.
<1>8. ASSUME NEW i \in 1 .. Len(s)
      PROVE  \/ Answers(events, i)
             \/ \E k \in 1 .. Len(f) : events[i].of = f[k].n /\ events[i].kind = f[k].kind
  <2>1. CASE Answers(s, i)
    <3>1. events[i] = s[i] /\ i + 1 \in 1 .. Len(s)
      BY <1>2, <2>1 DEF Answers
    <3>2. events[i + 1] = s[i + 1] /\ i + 1 \in 1 .. Len(events)
      BY <1>2, <1>5, <3>1
    <3> QED
      BY <2>1, <3>1, <3>2 DEF Answers
  <2>2. CASE \E k \in 1 .. Len(f) : s[i].of = f[k].n /\ s[i].kind = f[k].kind
    BY <1>2, <2>2
  <2> QED
    BY <2>1, <2>2 DEF TellsAll
<1>9. ASSUME NEW j \in 1 .. Len(t)
      PROVE  \/ Answers(events, Len(s) + j)
             \/ \E k \in 1 .. Len(g) : /\ events[Len(s) + j].of = g[k].n
                                       /\ events[Len(s) + j].kind = g[k].kind
  <2>1. CASE Answers(t, j)
    <3>1. events[Len(s) + j] = t[j] /\ j + 1 \in 1 .. Len(t)
      BY <1>2, <2>1 DEF Answers
    <3>2. events[Len(s) + (j + 1)] = t[j + 1] /\ Len(s) + (j + 1) \in 1 .. Len(events)
      BY <1>2, <1>5, <3>1
    <3>3. Len(s) + (j + 1) = (Len(s) + j) + 1
      BY <1>1
    <3> QED
      BY <2>1, <3>1, <3>2, <3>3 DEF Answers
  <2>2. CASE \E k \in 1 .. Len(g) : t[j].of = g[k].n /\ t[j].kind = g[k].kind
    BY <1>2, <2>2
  <2> QED
    BY <2>1, <2>2 DEF TellsAll
<1>10. \A i \in 1 .. Len(events) :
        \/ Answers(events, i)
        \/ \E k \in 1 .. Len(facts) : events[i].of = facts[k].n /\ events[i].kind = facts[k].kind
  <2> SUFFICES ASSUME NEW i \in 1 .. Len(events), ~Answers(events, i)
               PROVE  \E k \in 1 .. Len(facts) :
                        events[i].of = facts[k].n /\ events[i].kind = facts[k].kind
    OBVIOUS
  <2>1. CASE i \in 1 .. Len(s)
    BY <1>3, <1>4, <1>8, <2>1
  <2>2. CASE i - Len(s) \in 1 .. Len(t) /\ i = Len(s) + (i - Len(s))
    <3>1. PICK k \in 1 .. Len(g) : events[i].of = g[k].n /\ events[i].kind = g[k].kind
      BY <1>9, <2>2
    <3>2. facts[Len(f) + k] = g[k] /\ Len(f) + k \in 1 .. Len(facts)
      BY <1>3, <1>4
    <3> QED
      BY <3>1, <3>2
  <2> QED
    BY <1>5, <2>1, <2>2
<1>11. \A i, j \in 1 .. Len(events) :
         i < j /\ events[i].of # None /\ events[j].of # None => events[i].of < events[j].of
  <2> SUFFICES ASSUME NEW i \in 1 .. Len(events), NEW j \in 1 .. Len(events), i < j,
                      events[i].of # None, events[j].of # None
               PROVE  events[i].of < events[j].of
    OBVIOUS
  <2>1. CASE i \in 1 .. Len(s) /\ j \in 1 .. Len(s)
    BY <1>2, <2>1 DEF TellsAll
  <2>2. CASE i \notin 1 .. Len(s) /\ j \notin 1 .. Len(s)
    <3> DEFINE p == i - Len(s)
               q == j - Len(s)
    <3>1. p \in 1 .. Len(t) /\ i = Len(s) + p /\ q \in 1 .. Len(t) /\ j = Len(s) + q
      BY <1>5, <2>2
    <3>2. events[i] = t[p] /\ events[j] = t[q]
      BY <1>2, <3>1
    <3>3. p < q
      BY <1>1, <1>2
    <3>4. \A a, b \in 1 .. Len(t) :
            a < b /\ t[a].of # None /\ t[b].of # None => t[a].of < t[b].of
      BY DEF TellsAll
    <3> HIDE DEF p, q
    <3> QED
      BY <3>1, <3>2, <3>3, <3>4
  <2>3. CASE i \in 1 .. Len(s) /\ j \notin 1 .. Len(s)
    <3>1. PICK k \in 1 .. Len(f) : events[i].of = f[k].n
      BY <1>8, <2>3 DEF Answers
    <3>2. j - Len(s) \in 1 .. Len(t) /\ j = Len(s) + (j - Len(s))
      BY <1>5, <2>3
    <3>3. PICK l \in 1 .. Len(g) : events[j].of = g[l].n
      BY <1>9, <3>2 DEF Answers
    <3>4. f[k].n = 0 + k /\ g[l].n = Len(f) + l
      BY DEF Numbers
    <3> QED
      BY <1>1, <3>1, <3>3, <3>4
  <2>4. i \in 1 .. Len(s) \/ j \notin 1 .. Len(s)
    BY <1>1, <1>2
  <2> QED
    BY <2>1, <2>2, <2>3, <2>4
<1> QED
  BY <1>2, <1>3, <1>6, <1>7, <1>10, <1>11 DEF TellsAll, events, facts

\* The property itself.
LEMMA SaidAll ==
  ASSUME NEW events, NEW facts, TellsAll(events, facts), Numbers(facts, 0),
         agent = "gemini" \/ \A i \in 1 .. Len(events) : events[i].of # None
  PROVE  LET telling == {i \in DOMAIN events : events[i].of # None}
         IN /\ {Essence(events)[i] : i \in telling} =
                 {<<facts[k].n, facts[k].kind>> : k \in DOMAIN facts}
            /\ \A i, j \in telling : i < j => events[i].of < events[j].of
            /\ \A i \in DOMAIN events \ telling :
                 /\ agent = "gemini" /\ events[i].kind = "assistant"
                 /\ i + 1 \in telling /\ events[i + 1].kind \in {"thinking", "tool_call"}
<1> DEFINE telling == {i \in DOMAIN events : events[i].of # None}
<1>1. DOMAIN events = 1 .. Len(events) /\ DOMAIN facts = 1 .. Len(facts) /\ Len(facts) \in Nat
  BY SequenceShape DEF TellsAll
<1>2. \A k \in DOMAIN facts : facts[k].n # None
  <2> SUFFICES ASSUME NEW k \in 1 .. Len(facts) PROVE facts[k].n # None
    BY <1>1
  <2>1. facts[k].n = 0 + k
    BY DEF Numbers
  <2> QED
    BY <1>1, <2>1, ProjectionAssumption
<1>3. \A i \in DOMAIN events : Essence(events)[i] = <<events[i].of, events[i].kind>>
  BY DEF Essence
<1>4. ASSUME NEW k \in DOMAIN facts
      PROVE  <<facts[k].n, facts[k].kind>> \in {Essence(events)[i] : i \in telling}
  <2>1. PICK i \in DOMAIN events : events[i].of = facts[k].n /\ events[i].kind = facts[k].kind
    BY <1>1 DEF TellsAll
  <2>2. i \in telling
    BY <1>2, <2>1
  <2> QED
    BY <1>3, <2>1, <2>2
<1>5. ASSUME NEW i \in telling
      PROVE  Essence(events)[i] \in {<<facts[k].n, facts[k].kind>> : k \in DOMAIN facts}
  <2>1. ~Answers(events, i)
    BY DEF Answers
  <2>2. PICK k \in DOMAIN facts : events[i].of = facts[k].n /\ events[i].kind = facts[k].kind
    BY <1>1, <2>1 DEF TellsAll
  <2> QED
    BY <1>3, <2>2
<1>6. \A i, j \in telling : i < j => events[i].of < events[j].of
  BY <1>1 DEF TellsAll
<1>7. ASSUME NEW i \in DOMAIN events \ telling
      PROVE  /\ agent = "gemini" /\ events[i].kind = "assistant"
             /\ i + 1 \in telling /\ events[i + 1].kind \in {"thinking", "tool_call"}
  <2>1. ~ \E k \in 1 .. Len(facts) : events[i].of = facts[k].n
    BY <1>1, <1>2
  <2>2. Answers(events, i)
    BY <1>1, <2>1 DEF TellsAll
  <2> QED
    BY <1>1, <2>2 DEF Answers
<1>8. {Essence(events)[i] : i \in telling} = {<<facts[k].n, facts[k].kind>> : k \in DOMAIN facts}
  <2> HIDE DEF telling
  <2> QED
    BY <1>4, <1>5
<1> QED
  BY <1>6, <1>7, <1>8

LEMMA CompleteJoined ==
  ASSUME NEW s, NEW t, Complete(s), Complete(t)
  PROVE  Complete(s \o t)
<1>1. Derivable(s \o t) /\ IsSequence(s) /\ IsSequence(t)
  BY SoundJoined DEF Complete, Derivable
<1>2. DOMAIN s = 1 .. Len(s) /\ DOMAIN t = 1 .. Len(t)
  BY <1>1, SequenceShape
<1>3. ASSUME NEW i \in DOMAIN (s \o t)
      PROVE  {"kind", "of", "tasks", "text"} \subseteq DOMAIN (s \o t)[i]
  BY <1>1, <1>2, JoinedItems DEF Complete
<1> QED
  BY <1>1, <1>3 DEF Complete

\* Facts that become events with some tasks.
LEMMA FactEvents ==
  ASSUME NEW facts, Derivable(facts), NEW events, events = [i \in DOMAIN facts |-> events[i]],
         \A i \in DOMAIN facts : \E tasks :
           /\ events[i] = [EventOf(facts[i].kind, facts[i]) EXCEPT !.tasks = tasks]
           /\ IsSequence(tasks)
  PROVE  Complete(events) /\ Tells(events, facts)
<1>1. \A i \in DOMAIN facts :
        /\ events[i].of = facts[i].n /\ events[i].kind = facts[i].kind
        /\ IsSequence(events[i].tasks) /\ events[i].text = facts[i].text
        /\ {"kind", "of", "tasks", "text"} \subseteq DOMAIN events[i]
  <2> SUFFICES ASSUME NEW i \in DOMAIN facts
               PROVE  /\ events[i].of = facts[i].n /\ events[i].kind = facts[i].kind
                      /\ IsSequence(events[i].tasks) /\ events[i].text = facts[i].text
                      /\ {"kind", "of", "tasks", "text"} \subseteq DOMAIN events[i]
    OBVIOUS
  <2> DEFINE told == EventOf(facts[i].kind, facts[i])
  <2>1. /\ told.of = facts[i].n /\ told.kind = facts[i].kind /\ told.text = facts[i].text
        /\ {"kind", "of", "tasks", "text"} \subseteq DOMAIN told
    BY DEF EventOf
  <2>2. PICK tasks : events[i] = [told EXCEPT !.tasks = tasks] /\ IsSequence(tasks)
    OBVIOUS
  <2> HIDE DEF told
  <2> QED
    BY <2>1, <2>2
<1>2. Derivable(events) /\ Tells(events, facts)
  BY <1>1, EventsOfFacts
<1>3. DOMAIN events = DOMAIN facts
  OBVIOUS
<1> QED
  BY <1>1, <1>2, <1>3 DEF Complete

LEMMA GeminiCallTold ==
  ASSUME NEW call, Derivable(call)
  PROVE  Complete(GeminiCall(call)) /\ Tells(GeminiCall(call), call)
<1> DEFINE tasks == FlattenSeq([j \in DOMAIN call |-> call[j].tasks])
           events == GeminiCall(call)
<1>1. IsSequence(tasks)
  <2> DEFINE ss == [j \in 1 .. Len(call) |-> call[j].tasks]
  <2>1. Len(call) \in Nat /\ DOMAIN call = 1 .. Len(call)
    BY SequenceShape DEF Derivable
  <2>2. IsSequence([j \in 1 .. Len(call) |-> ss[j]])
    BY <2>1, SequenceOf
  <2>3. ss = [j \in 1 .. Len(call) |-> ss[j]] /\ tasks = FlattenSeq(ss)
    BY <2>1
  <2>4. \A j \in DOMAIN ss : IsSequence(ss[j])
    BY <2>1 DEF Derivable
  <2> HIDE DEF ss
  <2>5. AllSequences(ss)
    BY <2>2, <2>3, <2>4 DEF AllSequences
  <2> QED
    BY <2>3, <2>5, FlatItems
<1>2. \A i \in DOMAIN call : events[i] = [EventOf(call[i].kind, call[i]) EXCEPT !.tasks = tasks]
  BY DEF GeminiCall
<1>3. events = [i \in DOMAIN call |-> events[i]]
  BY DEF GeminiCall
<1> HIDE DEF tasks, events
<1>4. Complete(events) /\ Tells(events, call)
  BY <1>1, <1>2, <1>3, FactEvents
<1> QED
  BY <1>4 DEF events

(***************************************************************************)
(* A message of Gemini's                                                   *)
(***************************************************************************)
LEMMA JoinedOn ==
  ASSUME NEW s, NEW t, NEW u, IsSequence(s), IsSequence(t), IsSequence(u)
  PROVE  (s \o t) \o u = s \o (t \o u)
<1> DEFINE S == Entries(s) \cup Entries(t) \cup Entries(u)
<1>1. s \in Seq(S) /\ t \in Seq(S) /\ u \in Seq(S)
  BY DEF IsSequence, Entries
<1> HIDE DEF S
<1>2. s \o t \in Seq(S) /\ t \o u \in Seq(S)
  BY <1>1
<1> DEFINE left == (s \o t) \o u
           right == s \o (t \o u)
<1>3. left \in Seq(S) /\ right \in Seq(S)
  BY <1>1, <1>2
<1>4. Len(s \o t) = Len(s) + Len(t) /\ Len(t \o u) = Len(t) + Len(u)
  BY <1>1
<1>5. Len(s) \in Nat /\ Len(t) \in Nat /\ Len(u) \in Nat
  BY <1>1
<1>6. Len(left) = Len(s) + Len(t) + Len(u) /\ Len(right) = Len(s) + (Len(t) + Len(u))
  BY <1>1, <1>2, <1>4
<1>7. ASSUME NEW i \in 1 .. Len(s) + Len(t) + Len(u)
      PROVE  left[i] = right[i]
  <2>1. CASE i \in 1 .. Len(s)
    <3>1. left[i] = (s \o t)[i] /\ right[i] = s[i]
      BY <1>1, <1>2, <1>4, <1>5, <2>1
    <3>2. (s \o t)[i] = s[i]
      BY <1>1, <2>1
    <3> QED
      BY <3>1, <3>2
  <2>2. CASE i \in Len(s) + 1 .. Len(s) + Len(t)
    <3>1. left[i] = (s \o t)[i] /\ right[i] = (t \o u)[i - Len(s)]
      BY <1>1, <1>2, <1>4, <1>5, <2>2
    <3>2. (s \o t)[i] = t[i - Len(s)] /\ (t \o u)[i - Len(s)] = t[i - Len(s)]
      BY <1>1, <1>5, <2>2
    <3> QED
      BY <3>1, <3>2
  <2>3. CASE i \in Len(s) + Len(t) + 1 .. Len(s) + Len(t) + Len(u)
    <3>1. left[i] = u[i - (Len(s) + Len(t))] /\ right[i] = (t \o u)[i - Len(s)]
      BY <1>1, <1>2, <1>4, <1>5, <2>3
    <3>2. (t \o u)[i - Len(s)] = u[(i - Len(s)) - Len(t)]
      BY <1>1, <1>5, <2>3
    <3> QED
      BY <1>5, <3>1, <3>2
  <2> QED
    BY <1>5, <2>1, <2>2, <2>3
<1> HIDE DEF left, right
<1>8. IsSequence(left) /\ IsSequence(right)
  BY <1>3, TypedSequence
<1>9. Len(left) = Len(right) /\ \A i \in 1 .. Len(left) : left[i] = right[i]
  BY <1>5, <1>6, <1>7
<1>10. left = right
  BY <1>8, <1>9, SameSequence
<1> QED
  BY <1>10 DEF left, right

\* A piece of a sequence.
LEMMA Piece ==
  ASSUME NEW s, IsSequence(s), NEW i \in Nat, NEW j \in Nat, i <= j, j <= Len(s)
  PROVE  /\ IsSequence(SubSeq(s, i + 1, j)) /\ Len(SubSeq(s, i + 1, j)) = j - i
         /\ \A k \in 1 .. j - i : SubSeq(s, i + 1, j)[k] = s[i + k]
<1> DEFINE S == Entries(s)
           piece == SubSeq(s, i + 1, j)
<1>1. s \in Seq(S)
  BY DEF IsSequence
<1> HIDE DEF S
<1>2. piece \in Seq(S)
  BY <1>1
<1>3. Len(piece) = j - i
  BY <1>1
<1>4. \A k \in 1 .. j - i : piece[k] = s[i + k]
  <2> SUFFICES ASSUME NEW k \in 1 .. j - i PROVE piece[k] = s[(i + 1) + k - 1]
    OBVIOUS
  <2> QED
    BY <1>1, <1>3
<1> QED
  BY <1>2, <1>3, <1>4, TypedSequence

LEMMA PieceSound ==
  ASSUME NEW s, Derivable(s), NEW i \in Nat, NEW j \in Nat, i <= j, j <= Len(s)
  PROVE  Derivable(SubSeq(s, i + 1, j))
<1> DEFINE piece == SubSeq(s, i + 1, j)
<1>1. /\ IsSequence(piece) /\ Len(piece) = j - i
      /\ \A k \in 1 .. j - i : piece[k] = s[i + k]
  BY Piece DEF Derivable
<1>2. Len(s) \in Nat /\ DOMAIN s = 1 .. Len(s)
  BY SequenceShape DEF Derivable
<1> HIDE DEF piece
<1>3. DOMAIN piece = 1 .. j - i
  BY <1>1, SequenceShape
<1>4. \A k \in DOMAIN piece : i + k \in DOMAIN s /\ piece[k] = s[i + k]
  BY <1>1, <1>2, <1>3
<1>5. Derivable(piece)
  BY <1>1, <1>4 DEF Derivable
<1> QED
  BY <1>5 DEF piece

LEMMA PiecesJoined ==
  ASSUME NEW s, IsSequence(s), NEW i \in Nat, NEW j \in Nat, NEW l \in Nat,
         i <= j, j <= l, l <= Len(s)
  PROVE  SubSeq(s, i + 1, j) \o SubSeq(s, j + 1, l) = SubSeq(s, i + 1, l)
<1> DEFINE a == SubSeq(s, i + 1, j)
           b == SubSeq(s, j + 1, l)
           c == SubSeq(s, i + 1, l)
<1>1. /\ IsSequence(a) /\ Len(a) = j - i /\ \A k \in 1 .. j - i : a[k] = s[i + k]
      /\ IsSequence(b) /\ Len(b) = l - j /\ \A k \in 1 .. l - j : b[k] = s[j + k]
  BY Piece
<1>2. IsSequence(c) /\ Len(c) = l - i /\ \A k \in 1 .. l - i : c[k] = s[i + k]
  <2>1. i <= l
    OBVIOUS
  <2> QED
    BY <2>1, Piece
<1> HIDE DEF a, b, c
<1> DEFINE d == a \o b
<1>3. /\ IsSequence(d) /\ Len(d) = Len(a) + Len(b)
      /\ \A k \in 1 .. Len(a) : d[k] = a[k]
      /\ \A k \in 1 .. Len(b) : d[Len(a) + k] = b[k]
  BY <1>1, Joined
<1> HIDE DEF d
<1>4. Len(d) = Len(c)
  BY <1>1, <1>2, <1>3
<1>5. ASSUME NEW k \in 1 .. Len(d) PROVE d[k] = c[k]
  <2>1. CASE k \in 1 .. j - i
    BY <1>1, <1>2, <1>3, <2>1
  <2>2. CASE k \notin 1 .. j - i
    <3>1. k - (j - i) \in 1 .. l - j /\ k = Len(a) + (k - (j - i)) /\ k \in 1 .. l - i
      BY <1>1, <1>3, <2>2
    <3>2. d[k] = b[k - (j - i)]
      BY <1>1, <1>3, <3>1
    <3>3. b[k - (j - i)] = s[j + (k - (j - i))] /\ c[k] = s[i + k]
      BY <1>1, <1>2, <3>1
    <3>4. j + (k - (j - i)) = i + k
      BY <3>1
    <3> QED
      BY <3>2, <3>3, <3>4
  <2> QED
    BY <2>1, <2>2
<1>6. d = c
  BY <1>2, <1>3, <1>4, <1>5, SameSequence
<1> QED
  BY <1>6 DEF a, b, c, d

\* A sequence of no, one or two sequences.
LEMMA FlatFew ==
  ASSUME NEW ss, AllSequences(ss)
  PROVE  /\ Len(ss) = 0 => FlattenSeq(ss) = <<>>
         /\ Len(ss) = 1 => FlattenSeq(ss) = ss[1]
         /\ Len(ss) = 2 => FlattenSeq(ss) = ss[1] \o ss[2]
<1>1. PICK flat : /\ flat = [i \in 0 .. Len(ss) |-> IF i = 0 THEN <<>> ELSE flat[i-1] \o ss[i]]
                  /\ FlattenSeq(ss) = flat[Len(ss)]
  BY Flattened
<1>2. Len(ss) \in Nat /\ DOMAIN ss = 1 .. Len(ss)
  BY SequenceShape DEF AllSequences
<1>3. flat[0] = <<>> /\ \A i \in 1 .. Len(ss) : flat[i] = flat[i-1] \o ss[i]
  BY <1>1, <1>2
<1>4. Len(ss) > 0 => flat[1] = ss[1]
  <2> SUFFICES ASSUME Len(ss) > 0 PROVE flat[1] = ss[1]
    OBVIOUS
  <2>1. 1 \in 1 .. Len(ss) /\ 1 - 1 = 0
    BY <1>2
  <2>2. flat[1] = <<>> \o ss[1]
    BY <1>3, <2>1
  <2>3. IsSequence(ss[1])
    BY <1>2, <2>1 DEF AllSequences
  <2> QED
    BY <2>2, <2>3, JoinedEmpty
<1>5. Len(ss) = 2 => flat[2] = ss[1] \o ss[2]
  <2> SUFFICES ASSUME Len(ss) = 2 PROVE flat[2] = ss[1] \o ss[2]
    OBVIOUS
  <2>1. 2 \in 1 .. Len(ss) /\ 2 - 1 = 1
    BY <1>2
  <2>2. flat[2] = flat[1] \o ss[2]
    BY <1>3, <2>1
  <2>3. flat[1] = ss[1]
    <3>1. Len(ss) > 0
      OBVIOUS
    <3> QED
      BY <1>4, <3>1
  <2> QED
    BY <2>2, <2>3, Zenon
<1> QED
  BY <1>1, <1>3, <1>4, <1>5

LEMMA CompleteFlat ==
  ASSUME NEW ss, IsSequence(ss), \A i \in DOMAIN ss : Complete(ss[i])
  PROVE  AllSequences(ss) /\ Complete(FlattenSeq(ss))
<1>1. AllSequences(ss) /\ Derivable(FlattenSeq(ss))
  BY SoundFlat DEF Complete
<1>2. Complete(FlattenSeq(ss))
  BY <1>1, FlatItems DEF Complete
<1> QED
  BY <1>1, <1>2

\* The events of the calls.
LEMMA CallsSound ==
  ASSUME NEW calls, IsSequence(calls), \A i \in DOMAIN calls : Derivable(calls[i])
  PROVE  Complete(EventsOf(calls, GeminiCall))
<1> DEFINE ss == [i \in DOMAIN calls |-> GeminiCall(calls[i])]
<1>1. Len(calls) \in Nat /\ DOMAIN calls = 1 .. Len(calls)
  BY SequenceShape
<1>2. ss = [i \in 1 .. Len(calls) |-> ss[i]] /\ DOMAIN ss = DOMAIN calls
  BY <1>1
<1>3. \A i \in DOMAIN ss : Complete(ss[i])
  BY GeminiCallTold
<1>4. EventsOf(calls, GeminiCall) = FlattenSeq(ss)
  BY DEF EventsOf
<1> HIDE DEF ss
<1>5. IsSequence(ss)
  BY <1>1, <1>2, SequenceOf
<1> QED
  BY <1>3, <1>4, <1>5, CompleteFlat

LEMMA CallsTold ==
  ASSUME NEW fs, Derivable(fs), Len(fs) <= 2, NEW calls \in Called(fs)
  PROVE  /\ IsSequence(calls) /\ \A i \in DOMAIN calls : Derivable(calls[i])
         /\ Tells(EventsOf(calls, GeminiCall), fs)
         /\ Len(fs) > 0 => fs[1].kind = "tool_call"
<1> DEFINE ss == [i \in DOMAIN calls |-> GeminiCall(calls[i])]
<1>1. IsSequence(fs) /\ Len(fs) \in Nat /\ DOMAIN fs = 1 .. Len(fs)
  BY SequenceShape DEF Derivable
<1>2. EventsOf(calls, GeminiCall) = FlattenSeq(ss)
  BY DEF EventsOf
<1>3. CASE AllOf(fs, {"tool_call"}) /\ calls = [i \in DOMAIN fs |-> <<fs[i]>>]
  <2>1. \A i \in DOMAIN fs : Derivable(<<fs[i]>>)
    <3> SUFFICES ASSUME NEW i \in DOMAIN fs PROVE Derivable(<<fs[i]>>)
      OBVIOUS
    <3>1. IsSequence(<<fs[i]>>) /\ DOMAIN <<fs[i]>> = {1} /\ <<fs[i]>>[1] = fs[i]
      BY SingleSequence
    <3> QED
      BY <3>1 DEF Derivable
  <2>2. calls = [i \in 1 .. Len(fs) |-> calls[i]] /\ DOMAIN calls = 1 .. Len(fs)
    BY <1>1, <1>3
  <2>3. IsSequence(calls)
    BY <1>1, <2>2, SequenceOf
  <2>4. \A i \in 1 .. Len(fs) : calls[i] = <<fs[i]>> /\ Derivable(calls[i])
    BY <1>1, <1>3, <2>1
  <2>5. ss = [i \in 1 .. Len(fs) |-> ss[i]]
    BY <2>2
  <2>6. \A i \in 1 .. Len(fs) : Complete(ss[i]) /\ Tells(ss[i], <<fs[i]>>)
    BY <2>2, <2>4, GeminiCallTold
  <2> HIDE DEF ss
  <2>7. IsSequence(ss) /\ Len(ss) = Len(fs)
    BY <1>1, <2>5, SequenceOf
  <2>8. DOMAIN ss = 1 .. Len(fs)
    BY <2>7, SequenceShape
  <2>9. AllSequences(ss)
    BY <2>6, <2>7, <2>8, CompleteFlat
  <2>10. Tells(FlattenSeq(ss), fs)
    <3>1. CASE Len(fs) = 0
      <4>1. FlattenSeq(ss) = <<>>
        BY <2>7, <2>9, <3>1, FlatFew
      <4> QED
        BY <1>1, <3>1, <4>1, EmptySequence DEF Tells
    <3>2. CASE Len(fs) = 1
      <4>1. FlattenSeq(ss) = ss[1]
        BY <2>7, <2>9, <3>2, FlatFew
      <4>2. fs = <<fs[1]>>
        BY <1>1, <3>2, OneItem
      <4>3. 1 \in 1 .. Len(fs)
        BY <3>2
      <4> QED
        BY <2>6, <4>1, <4>2, <4>3
    <3>3. CASE Len(fs) = 2
      <4>1. FlattenSeq(ss) = ss[1] \o ss[2]
        BY <2>7, <2>9, <3>3, FlatFew
      <4>2. 1 \in 1 .. Len(fs) /\ 2 \in 1 .. Len(fs)
        BY <3>3
      <4> DEFINE one == <<fs[1]>>
                 two == <<fs[2]>>
                 both == one \o two
      <4>3. Tells(ss[1] \o ss[2], both)
        BY <2>6, <4>2, TellsJoined
      <4>4. /\ IsSequence(one) /\ Len(one) = 1 /\ one[1] = fs[1]
            /\ IsSequence(two) /\ Len(two) = 1 /\ two[1] = fs[2]
        BY SingleSequence
      <4> HIDE DEF one, two
      <4>8. IsSequence(one) /\ IsSequence(two)
        BY <4>4
      <4>5. /\ IsSequence(both) /\ Len(both) = Len(one) + Len(two)
            /\ \A i \in 1 .. Len(one) : both[i] = one[i]
            /\ \A i \in 1 .. Len(two) : both[Len(one) + i] = two[i]
        BY <4>8, Joined
      <4> HIDE DEF both
      <4>6. Len(both) = 2 /\ both[1] = fs[1] /\ both[2] = fs[2]
        <5>1. 1 \in 1 .. Len(one) /\ 1 \in 1 .. Len(two) /\ Len(one) + 1 = 2
          BY <4>4
        <5> QED
          BY <4>4, <4>5, <5>1
      <4>7. both = fs
        <5>1. \A i \in 1 .. Len(fs) : both[i] = fs[i]
          <6>1. \A i \in 1 .. Len(fs) : i = 1 \/ i = 2
            BY <3>3
          <6> QED
            BY <4>6, <6>1
        <5> QED
          BY <1>1, <3>3, <4>5, <4>6, <5>1, SameSequence
      <4> QED
        BY <4>1, <4>3, <4>7
    <3> QED
      BY <1>1, <3>1, <3>2, <3>3
  <2>11. Len(fs) > 0 => fs[1].kind = "tool_call"
    BY <1>1, <1>3 DEF AllOf
  <2> QED
    BY <1>2, <2>2, <2>3, <2>4, <2>10, <2>11
<1>4. CASE calls = <<fs>> /\ fs[1].kind = "tool_call"
  <2>1. IsSequence(calls) /\ Len(calls) = 1 /\ DOMAIN calls = {1} /\ calls[1] = fs
    BY <1>4, SingleSequence
  <2>2. ss = [i \in 1 .. 1 |-> ss[i]] /\ ss[1] = GeminiCall(fs)
    BY <2>1
  <2> HIDE DEF ss
  <2>3. IsSequence(ss) /\ Len(ss) = 1
    BY <2>2, SequenceOf
  <2>4. DOMAIN ss = {1}
    BY <2>3, SequenceShape
  <2>5. Complete(ss[1]) /\ Tells(ss[1], fs)
    BY <2>2, GeminiCallTold
  <2>6. AllSequences(ss)
    BY <2>3, <2>4, <2>5, CompleteFlat
  <2>7. FlattenSeq(ss) = ss[1]
    BY <2>3, <2>6, FlatFew
  <2> QED
    BY <1>2, <1>4, <2>1, <2>5, <2>7
<1> QED
  BY <1>3, <1>4 DEF Called

\* The events of some facts as they are.
Plain(facts) == [i \in DOMAIN facts |-> EventOf(facts[i].kind, facts[i])]

LEMMA PlainTold ==
  ASSUME NEW facts, Derivable(facts)
  PROVE  Complete(Plain(facts)) /\ Tells(Plain(facts), facts)
<1> DEFINE events == Plain(facts)
<1>1. events = [i \in DOMAIN facts |-> events[i]]
  BY DEF Plain
<1>2. \A i \in DOMAIN facts :
        /\ events[i] = [EventOf(facts[i].kind, facts[i]) EXCEPT !.tasks = facts[i].tasks]
        /\ IsSequence(facts[i].tasks)
  BY DEF Plain, EventOf, Derivable
<1> HIDE DEF events
<1>3. Complete(events) /\ Tells(events, facts)
  BY <1>1, <1>2, FactEvents
<1> QED
  BY <1>3 DEF events

TextOf(row) == IF row.text = <<>> THEN <<Unsaid>> ELSE row.text

LEMMA PartsShape ==
  ASSUME NEW row
  PROVE  GeminiParts(row) =
           (Plain(TextOf(row)) \o Plain(row.thoughts)) \o EventsOf(row.calls, GeminiCall)
  BY DEF GeminiParts, TextOf, Plain

LEMMA UnsaidSound == Derivable(<<Unsaid>>)
<1>1. IsSequence(<<Unsaid>>) /\ DOMAIN <<Unsaid>> = {1} /\ <<Unsaid>>[1] = Unsaid
  BY SingleSequence
<1>2. IsSequence(Unsaid.tasks)
  BY EmptySequence DEF Unsaid
<1>3. Preview(Unsaid.text) # None
  BY NormalizeAssumption
<1> QED
  BY <1>1, <1>2, <1>3 DEF Derivable

LEMMA PartsComplete ==
  ASSUME NEW row, SoundRow(row)
  PROVE  Complete(GeminiParts(row))
<1>1. Derivable(TextOf(row)) /\ Derivable(row.thoughts)
  BY UnsaidSound DEF SoundRow, TextOf
<1>2. Complete(Plain(TextOf(row))) /\ Complete(Plain(row.thoughts))
  BY <1>1, PlainTold
<1>3. Complete(EventsOf(row.calls, GeminiCall))
  BY CallsSound DEF SoundRow
<1> QED
  BY <1>2, <1>3, CompleteJoined, PartsShape

\* All events have the time of the message.
LEMMA GeminiMessageTold ==
  ASSUME NEW row, SoundRow(row)
  PROVE  /\ Complete(GeminiMessage(row))
         /\ \A facts : TellsAll(GeminiParts(row), facts) => TellsAll(GeminiMessage(row), facts)
<1> DEFINE parts == GeminiParts(row)
           timed == [i \in DOMAIN parts |-> [parts[i] EXCEPT !.time = row.time]]
           events == GeminiMessage(row)
<1>1. Complete(parts)
  BY PartsComplete
<1>2. events = Unflagged(timed)
  BY DEF GeminiMessage
<1> HIDE DEF parts, events
<1>3. Len(parts) \in Nat /\ DOMAIN parts = 1 .. Len(parts) /\ IsSequence(parts)
  BY <1>1, SequenceShape DEF Complete, Derivable
<1>4. \A i \in 1 .. Len(parts) :
        /\ timed[i].of = parts[i].of /\ timed[i].kind = parts[i].kind
        /\ timed[i].tasks = parts[i].tasks /\ timed[i].text = parts[i].text
        /\ {"kind", "of", "tasks", "text"} \subseteq DOMAIN timed[i]
  BY <1>1, <1>3 DEF Complete
<1>5. timed = [i \in 1 .. Len(parts) |-> timed[i]]
  BY <1>3
<1> HIDE DEF timed
<1>6. IsSequence(timed) /\ Len(timed) = Len(parts)
  BY <1>3, <1>5, SequenceOf
<1>7. DOMAIN timed = 1 .. Len(parts)
  BY <1>6, SequenceShape
<1>8. /\ IsSequence(events) /\ Len(events) = Len(timed)
      /\ \A i \in 1 .. Len(timed) :
           /\ events[i].of = timed[i].of /\ events[i].kind = timed[i].kind
           /\ events[i].tasks = timed[i].tasks /\ events[i].text = timed[i].text
           /\ DOMAIN events[i] = DOMAIN timed[i]
  BY <1>2, <1>4, <1>6, <1>7, UnflaggedSame
<1>9. /\ Len(events) = Len(parts) /\ DOMAIN events = 1 .. Len(parts)
      /\ \A i \in 1 .. Len(parts) :
           /\ events[i].of = parts[i].of /\ events[i].kind = parts[i].kind
           /\ events[i].tasks = parts[i].tasks /\ events[i].text = parts[i].text
           /\ {"kind", "of", "tasks", "text"} \subseteq DOMAIN events[i]
  BY <1>4, <1>6, <1>8, SequenceShape
<1>10. Complete(events)
  BY <1>1, <1>3, <1>8, <1>9 DEF Complete, Derivable
<1>11. ASSUME NEW facts, TellsAll(parts, facts) PROVE TellsAll(events, facts)
  <2>1. \A i \in 1 .. Len(parts) : Answers(parts, i) => Answers(events, i)
    BY <1>9 DEF Answers
  <2> QED
    BY <1>8, <1>9, <1>11, <2>1 DEF TellsAll
<1> QED
  BY <1>10, <1>11 DEF parts, events

(***************************************************************************)
(* What an agent adds to its file                                          *)
(***************************************************************************)
\* The facts that are told next.
NextFacts(fs) ==
  /\ Derivable(fs) /\ Len(fs) \in {1, 2}
  /\ \A i \in 1 .. Len(fs) : fs[i].n = Len(said) + i /\ fs[i].time \in {None, fs[i].n}

LEMMA ToldNext ==
  ASSUME agent \in Agents, IsSequence(said), NEW fs \in Told
  PROVE  NextFacts(fs)
<1>1. Len(said) \in Nat
  BY SequenceShape
<1>2. ASSUME NEW t \in Vocabulary[agent], NEW n
      PROVE  /\ Fact(t, n).n = n /\ Fact(t, n).time \in {None, n}
             /\ IsSequence(Fact(t, n).tasks) /\ Preview(Fact(t, n).text) # None
  <2>1. IsSequence(t.tasks) /\ Preview(t.text) # None
    BY NormalizeAssumption DEF IsSequence, Entries
  <2> QED
    BY <2>1 DEF Fact
<1>3. CASE \E t \in Vocabulary[agent] : fs = <<Fact(t, Len(said) + 1)>>
  <2>1. PICK t \in Vocabulary[agent] : fs = <<Fact(t, Len(said) + 1)>>
    BY <1>3
  <2> DEFINE f == Fact(t, Len(said) + 1)
  <2>2. /\ f.n = Len(said) + 1 /\ f.time \in {None, f.n}
        /\ IsSequence(f.tasks) /\ Preview(f.text) # None
    BY <1>2
  <2>3. fs = <<f>>
    BY <2>1
  <2> HIDE DEF f
  <2>4. IsSequence(fs) /\ Len(fs) = 1 /\ DOMAIN fs = {1} /\ fs[1] = f
    BY <2>3, SingleSequence
  <2> QED
    BY <2>2, <2>4 DEF NextFacts, Derivable
<1>4. CASE \E t \in Vocabulary[agent] \X Vocabulary[agent] :
             fs = <<Fact(t[1], Len(said) + 1), Fact(t[2], Len(said) + 2)>>
  <2>1. PICK t \in Vocabulary[agent] \X Vocabulary[agent] :
          fs = <<Fact(t[1], Len(said) + 1), Fact(t[2], Len(said) + 2)>>
    BY <1>4
  <2> DEFINE f == Fact(t[1], Len(said) + 1)
             g == Fact(t[2], Len(said) + 2)
  <2>2. /\ f.n = Len(said) + 1 /\ f.time \in {None, f.n}
        /\ IsSequence(f.tasks) /\ Preview(f.text) # None
        /\ g.n = Len(said) + 2 /\ g.time \in {None, g.n}
        /\ IsSequence(g.tasks) /\ Preview(g.text) # None
    <3>1. t[1] \in Vocabulary[agent] /\ t[2] \in Vocabulary[agent]
      OBVIOUS
    <3> QED
      BY <1>2, <3>1
  <2>3. fs = <<f, g>>
    BY <2>1
  <2> HIDE DEF f, g
  <2>4. IsSequence(fs) /\ Len(fs) = 2 /\ DOMAIN fs = {1, 2} /\ fs[1] = f /\ fs[2] = g
    BY <2>3 DEF IsSequence, Entries
  <2> QED
    BY <2>2, <2>4 DEF NextFacts, Derivable
<1> QED
  BY <1>3, <1>4 DEF Told

\* A record of the facts told, and nothing else.
Plainly(r, label, fs) == r.type = label /\ r.facts = fs /\ r.rows = <<>>

LEMMA PlainSound ==
  ASSUME NEW fs, NextFacts(fs), NEW r, NEW label, Plainly(r, label, fs)
  PROVE  SoundRecord(r)
<1>0. Derivable(fs) /\ Len(fs) \in {1, 2}
  BY DEF NextFacts
<1>3. r.facts = fs
  BY DEF Plainly
<1>4. Derivable(r.facts)
  BY <1>0, <1>3
<1>5. Len(r.facts) > 0
  BY <1>0, <1>3
<1>1. Derivable(r.facts) /\ Len(r.facts) > 0
  BY <1>4, <1>5
<1>2. IsSequence(r.rows) /\ DOMAIN r.rows = {}
  BY EmptySequence DEF Plainly
<1> QED
  BY <1>1, <1>2 DEF SoundRecord

LEMMA ClaudeSays ==
  ASSUME NEW fs, NextFacts(fs), native' \in ClaudeWrites(fs)
  PROVE  \E r : /\ native' = Append(native, r) /\ SoundRecord(r) /\ Tells(ClaudeEvents(r), fs)
                /\ said # <<>> => r.forked = None
<1>1. PICK label \in ClaudeTypes(fs), head \in ClaudeHeads :
        native' = Append(native, ClaudeRecord(label, fs, head))
  BY DEF ClaudeWrites
<1>6. \/ label = "assistant"
      \/ label \in {"user", "tool_result", "system"} /\ OneOf(fs, {label})
  BY DEF ClaudeTypes, OneOf
<1> DEFINE r == ClaudeRecord(label, fs, head)
<1>2. Plainly(r, label, fs)
  BY DEF Plainly, ClaudeRecord, Record
<1>5. said # <<>> => r.forked = None
  BY DEF ClaudeHeads, ClaudeRecord, Record
<1> HIDE DEF r
<1>3. SoundRecord(r)
  BY <1>2, PlainSound
<1>4. Tells(ClaudeEvents(r), fs)
  <2>1. r.type = label /\ r.facts = fs
    BY <1>2 DEF Plainly
  <2> QED
    BY <1>3, <1>6, <2>1, ClaudeTold
<1> QED
  BY <1>1, <1>3, <1>4, <1>5 DEF r

LEMMA PiSays ==
  ASSUME NEW fs, NextFacts(fs), native' \in PiWrites(fs)
  PROVE  \E r : native' = Append(native, r) /\ SoundRecord(r) /\ Tells(PiEvents(r), fs)
<1>1. PICK label \in {"message", "model_change"} :
        /\ native' = Append(native, Record(label, fs))
        /\ label = "model_change" => OneOf(fs, {"system"})
  BY DEF PiWrites
<1> DEFINE r == Record(label, fs)
<1>2. Plainly(r, label, fs)
  BY DEF Plainly, Record
<1> HIDE DEF r
<1>3. SoundRecord(r)
  BY <1>2, PlainSound
<1>4. Tells(PiEvents(r), fs)
  BY <1>1, <1>2, <1>3, PiTold DEF Plainly
<1> QED
  BY <1>1, <1>3, <1>4 DEF r

UserTypes == {"user_message", "message_user"}

\* One record, or two that mirror each other.
LEMMA CodexSays ==
  ASSUME NEW fs, NextFacts(fs), IsSequence(native), native' \in CodexWrites(fs)
  PROVE  \E r, label :
           /\ Plainly(r, label, fs) /\ r.time = fs[1].time /\ fs[1].time # None /\ Len(fs) = 1
           /\ \/ /\ native' = Append(native, r)
                 /\ label \in DOMAIN CodexKinds /\ fs[1].kind = CodexKinds[label]
              \/ \E q, other :
                   /\ native' = Append(Append(native, r), q) /\ Plainly(q, other, fs)
                   /\ Loose = FALSE => q.time = fs[1].time
                   /\ \/ label \in UserTypes /\ other \in UserTypes /\ fs[1].kind = "user"
                      \/ /\ label = "agent_message" /\ other \in DOMAIN CodexKinds
                         /\ fs[1].kind = CodexKinds[other]
<1> DEFINE record(label, time) == [Record(label, fs) EXCEPT !.time = time]
<1>0. fs[1].time # None /\ Len(fs) = 1
  BY DEF CodexWrites
<1>1. PICK types \in CodexTypes(fs[1]),
           time \in {fs[1].time} \cup (IF Loose THEN {0} ELSE {}) :
        native' = native \o CodexLines(types, fs, time)
  BY <1>0 DEF CodexWrites
<1>6. Loose = FALSE => time = fs[1].time
  BY <1>1
<1>2. \A label, at : Plainly(record(label, at), label, fs) /\ record(label, at).time = at
  BY DEF Plainly, Record
<1> DEFINE rows == CodexLines(types, fs, time)
<1>3. CASE \E label \in DOMAIN CodexKinds : types = <<label>> /\ fs[1].kind = CodexKinds[label]
  <2>1. PICK label \in DOMAIN CodexKinds : types = <<label>> /\ fs[1].kind = CodexKinds[label]
    BY <1>3
  <2> DEFINE r == record(label, fs[1].time)
  <2>2. rows = <<r>>
    BY <2>1 DEF CodexLines
  <2>3. native' = Append(native, r)
    BY <1>1, <2>2, AppendJoins
  <2>4. Plainly(r, label, fs) /\ r.time = fs[1].time
    BY <1>2
  <2> HIDE DEF r
  <2> QED
    BY <1>0, <2>1, <2>3, <2>4
<1>4. CASE \E label, other :
             /\ types = <<label, other>>
             /\ \/ label \in UserTypes /\ other \in UserTypes /\ fs[1].kind = "user"
                \/ /\ label = "agent_message" /\ other \in DOMAIN CodexKinds
                   /\ fs[1].kind = CodexKinds[other]
  <2>1. PICK label, other :
             /\ types = <<label, other>>
             /\ \/ label \in UserTypes /\ other \in UserTypes /\ fs[1].kind = "user"
                \/ /\ label = "agent_message" /\ other \in DOMAIN CodexKinds
                   /\ fs[1].kind = CodexKinds[other]
    BY <1>4
  <2> DEFINE r == record(label, fs[1].time)
             q == record(other, time)
  <2>2. rows = <<r, q>>
    BY <2>1 DEF CodexLines
  <2>3. Plainly(r, label, fs) /\ r.time = fs[1].time /\ Plainly(q, other, fs) /\ q.time = time
    BY <1>2
  <2> HIDE DEF r, q
  <2>4. <<r, q>> = Append(<<r>>, q) /\ IsSequence(<<r>>)
    BY SingleSequence
  <2>5. native \o Append(<<r>>, q) = Append(native \o <<r>>, q)
    BY <2>4, JoinAppended
  <2>6. native' = Append(Append(native, r), q)
    BY <1>1, <2>2, <2>4, <2>5, AppendJoins
  <2> QED
    BY <1>0, <1>6, <2>1, <2>3, <2>6
<1>5. \/ \E label \in DOMAIN CodexKinds : types = <<label>> /\ fs[1].kind = CodexKinds[label]
      \/ \E label, other :
             /\ types = <<label, other>>
             /\ \/ label \in UserTypes /\ other \in UserTypes /\ fs[1].kind = "user"
                \/ /\ label = "agent_message" /\ other \in DOMAIN CodexKinds
                   /\ fs[1].kind = CodexKinds[other]
  <2> DEFINE kind == fs[1].kind
  <2>1. CASE kind = "user"
    <3>1. types = <<"user_message", "message_user">> \/ types = <<"message_user", "user_message">>
      BY <2>1 DEF CodexTypes
    <3> QED
      BY <2>1, <3>1 DEF UserTypes
  <2>2. CASE kind = "assistant"
    <3>1. types = <<"agent_message", "message">>
      BY <2>2 DEF CodexTypes
    <3>2. "message" \in DOMAIN CodexKinds /\ CodexKinds["message"] = "assistant"
      BY DEF CodexKinds
    <3> QED
      BY <2>2, <3>1, <3>2
  <2>3. CASE kind = "system"
    <3>1. types = <<"other_event">> \/ types = <<"compacted">>
      BY <2>3 DEF CodexTypes
    <3>2. /\ "other_event" \in DOMAIN CodexKinds /\ CodexKinds["other_event"] = "system"
          /\ "compacted" \in DOMAIN CodexKinds /\ CodexKinds["compacted"] = "system"
      BY DEF CodexKinds
    <3> QED
      BY <2>3, <3>1, <3>2
  <2>4. CASE kind = "usage"
    <3>1. types = <<"token_count">>
      BY <2>4 DEF CodexTypes
    <3>2. "token_count" \in DOMAIN CodexKinds /\ CodexKinds["token_count"] = "usage"
      BY DEF CodexKinds
    <3> QED
      BY <2>4, <3>1, <3>2
  <2>5. CASE kind \notin {"user", "assistant", "system", "usage"}
    BY <2>5 DEF CodexTypes
  <2> QED
    BY <2>1, <2>2, <2>3, <2>4, <2>5
<1> QED
  BY <1>3, <1>4, <1>5

\* A record that adds nothing.
LEMMA SilentRecord ==
  \E r : SoundRecord(r) /\ r.rows = <<>>
<1> DEFINE r == [type |-> "header", facts |-> <<>>, rows |-> <<>>]
<1>1. r.type \in Heads /\ r.facts = <<>> /\ r.rows = <<>>
  BY DEF Heads
<1> HIDE DEF r
<1>2. SoundRecord(r)
  BY <1>1, SoundEmpty, EmptySequence DEF SoundRecord
<1> QED
  BY <1>1, <1>2

\* The messages of a file can be told.
LEMMA GeminiMessagesRead ==
  ASSUME NEW records, Records(records)
  PROVE  \E read : /\ GeminiReads(GeminiRows(records), read) /\ GeminiSound(read)
                   /\ GeminiMessages(records) = read.rows
<1>1. SoundRows(GeminiRows(records))
  BY SilentRecord, GeminiRowsGrow
<1> DEFINE rows == GeminiRows(records)
<1>2. GeminiSound(NoMessages)
  <2>1. /\ DOMAIN NoMessages = {"rows", "seen"} /\ NoMessages.rows = <<>>
        /\ NoMessages.seen = {}
    BY DEF NoMessages
  <2>2. IsSequence(NoMessages.rows) /\ DOMAIN NoMessages.rows = {}
    BY <2>1, EmptySequence
  <2> QED
    BY <2>1, <2>2 DEF GeminiSound
<1>3. IsSequence(rows) /\ (\A i \in DOMAIN rows : SoundRow(rows[i])) /\ IsSequence(<<>>)
  BY <1>1, EmptySequence DEF SoundRows
<1>4. PICK read : GeminiReads(<<>> \o rows, read) /\ GeminiSound(read)
  BY <1>2, <1>3, GeminiNothing, GeminiMoreRows
<1>5. <<>> \o rows = rows
  BY <1>3, JoinedEmpty
<1>6. GeminiMessages(records) = read.rows
  BY <1>3, <1>4, <1>5, GeminiRead
<1> QED
  BY <1>4, <1>5, <1>6

\* A sequence of nothing.
LEMMA NoItems ==
  ASSUME NEW ss, ss = [i \in DOMAIN <<>> |-> ss[i]]
  PROVE  FlattenSeq(ss) = <<>>
<1>1. DOMAIN <<>> = 1 .. 0 /\ 1 .. 0 = {}
  BY EmptySequence
<1>2. ss = [i \in 1 .. 0 |-> ss[i]]
  BY <1>1
<1>3. IsSequence(ss) /\ Len(ss) = 0 /\ DOMAIN ss = {}
  BY <1>1, <1>2, SequenceOf
<1>4. AllSequences(ss)
  BY <1>3 DEF AllSequences
<1>5. PICK flat : /\ flat = [i \in 0 .. Len(ss) |-> IF i = 0 THEN <<>> ELSE flat[i-1] \o ss[i]]
                  /\ FlattenSeq(ss) = flat[Len(ss)]
  BY <1>4, Flattened
<1>6. 0 \in 0 .. Len(ss)
  BY <1>3
<1> QED
  BY <1>3, <1>5, <1>6

\* What a message tells: the facts told, in order.
LEMMA AnswerTold ==
  ASSUME NEW fs, NextFacts(fs), IsSequence(said), NEW id, NEW row \in GeminiAnswers(id, fs)
  PROVE  SoundRow(row) /\ row.id = id /\ TellsAll(GeminiParts(row), fs)
<1>1. /\ Derivable(fs) /\ IsSequence(fs) /\ Len(fs) \in {1, 2} /\ DOMAIN fs = 1 .. Len(fs)
      /\ Len(said) \in Nat /\ Numbers(fs, Len(said))
  BY SequenceShape DEF NextFacts, Derivable, Numbers
<1>2. PICK cut \in (0 .. 1) \X (0 .. Len(fs)) :
        /\ cut[1] <= cut[2] /\ (cut[1] = 1 => fs[1].kind = "assistant")
        /\ AllOf(SubSeq(fs, cut[1] + 1, cut[2]), {"thinking"})
        /\ \E calls \in Called(SubSeq(fs, cut[2] + 1, Len(fs))) :
             row = Row(id, SubSeq(fs, 1, cut[1]), SubSeq(fs, cut[1] + 1, cut[2]), calls, fs[1].time)
  BY DEF GeminiAnswers
<1> DEFINE a == cut[1]
           b == cut[2]
           text == SubSeq(fs, 1, a)
           thoughts == SubSeq(fs, a + 1, b)
           rest == SubSeq(fs, b + 1, Len(fs))
<1>3. PICK calls \in Called(rest) : row = Row(id, text, thoughts, calls, fs[1].time)
  BY <1>2
<1>4. a \in {0, 1} /\ b \in 0 .. Len(fs) /\ a <= b /\ b <= Len(fs) /\ a \in Nat /\ b \in Nat
  BY <1>1, <1>2
<1>5. (a = 1 => fs[1].kind = "assistant") /\ AllOf(thoughts, {"thinking"})
  BY <1>2
<1>6. text = SubSeq(fs, 0 + 1, a)
  OBVIOUS
<1>7. /\ row.id = id /\ row.text = text /\ row.thoughts = thoughts /\ row.calls = calls
      /\ DOMAIN row = {"id", "text", "thoughts", "calls", "time"}
  BY <1>3 DEF Row
<1> HIDE DEF a, b
<1>8. /\ Derivable(text) /\ Len(text) = a /\ \A k \in 1 .. a : text[k] = fs[0 + k]
      /\ Derivable(thoughts) /\ Len(thoughts) = b - a /\ \A k \in 1 .. b - a : thoughts[k] = fs[a + k]
      /\ Derivable(rest) /\ Len(rest) = Len(fs) - b /\ \A k \in 1 .. Len(fs) - b : rest[k] = fs[b + k]
  <2>1. Derivable(text) /\ Len(text) = a /\ \A k \in 1 .. a : text[k] = fs[0 + k]
    <3>1. 0 \in Nat /\ 0 <= a /\ a <= Len(fs) /\ a - 0 = a
      BY <1>1, <1>4
    <3>2. Derivable(SubSeq(fs, 0 + 1, a))
      BY <1>1, <1>4, <3>1, PieceSound
    <3>3. /\ Len(SubSeq(fs, 0 + 1, a)) = a - 0
          /\ \A k \in 1 .. a - 0 : SubSeq(fs, 0 + 1, a)[k] = fs[0 + k]
      BY <1>1, <1>4, <3>1, Piece
    <3> HIDE DEF text
    <3> QED
      BY <1>6, <3>1, <3>2, <3>3
  <2>2. Derivable(thoughts) /\ Len(thoughts) = b - a /\ \A k \in 1 .. b - a : thoughts[k] = fs[a + k]
    <3>1. a \in Nat /\ b \in Nat /\ a <= b /\ b <= Len(fs) /\ IsSequence(fs)
      BY <1>1, <1>4
    <3>2. Derivable(thoughts)
      BY <1>1, <3>1, PieceSound
    <3>3. Len(thoughts) = b - a /\ \A k \in 1 .. b - a : thoughts[k] = fs[a + k]
      BY <3>1, Piece
    <3> HIDE DEF thoughts
    <3> QED
      BY <3>2, <3>3
  <2>3. Derivable(rest) /\ Len(rest) = Len(fs) - b /\ \A k \in 1 .. Len(fs) - b : rest[k] = fs[b + k]
    <3> DEFINE l == Len(fs)
    <3>1. l \in Nat /\ b \in Nat /\ b <= l /\ l <= Len(fs) /\ IsSequence(fs)
      BY <1>1, <1>4
    <3> HIDE DEF l
    <3>2. Derivable(SubSeq(fs, b + 1, l))
      BY <1>1, <3>1, PieceSound
    <3>3. /\ Len(SubSeq(fs, b + 1, l)) = l - b
          /\ \A k \in 1 .. l - b : SubSeq(fs, b + 1, l)[k] = fs[b + k]
      BY <3>1, Piece
    <3> QED
      BY <3>2, <3>3 DEF l
  <2> QED
    BY <2>1, <2>2, <2>3
<1>9. (text \o thoughts) \o rest = fs /\ (b = 0 => rest = fs)
  <2>1. text \o thoughts = SubSeq(fs, 0 + 1, b)
    BY <1>1, <1>4, <1>6, PiecesJoined
  <2>2. SubSeq(fs, 0 + 1, b) \o rest = SubSeq(fs, 0 + 1, Len(fs))
    <3>1. Len(fs) \in Nat /\ b \in Nat /\ b <= Len(fs) /\ Len(fs) <= Len(fs) /\ 0 <= b /\ 0 \in Nat
      BY <1>1, <1>4
    <3> QED
      BY <1>1, <3>1, PiecesJoined
  <2>3. SubSeq(fs, 0 + 1, Len(fs)) = fs
    BY <1>1, PrefixGrows
  <2>4. b = 0 => rest = SubSeq(fs, 0 + 1, Len(fs))
    OBVIOUS
  <2> HIDE DEF text, thoughts, rest
  <2> QED
    BY <2>1, <2>2, <2>3, <2>4
<1> HIDE DEF text, thoughts, rest
<1>10. /\ IsSequence(calls) /\ \A i \in DOMAIN calls : Derivable(calls[i])
       /\ Tells(EventsOf(calls, GeminiCall), rest)
       /\ Len(rest) > 0 => rest[1].kind = "tool_call"
  <2>1. Len(rest) <= 2
    <3>1. Len(fs) = 1 \/ Len(fs) = 2
      BY <1>1
    <3>2. \A n, k \in Nat : n = 1 \/ n = 2 => n - k <= 2
      OBVIOUS
    <3>3. Len(fs) \in Nat
      BY <3>1
    <3>4. b \in Nat
      BY <1>4
    <3>5. Len(fs) - b <= 2
      BY <3>1, <3>2, <3>3, <3>4
    <3> QED
      BY <1>8, <3>5
  <2> QED
    BY <1>3, <1>8, <2>1, CallsTold
<1>11. SoundRow(row)
  BY <1>7, <1>8, <1>10 DEF SoundRow
<1> DEFINE spoken == Plain(text)
           thinks == Plain(thoughts)
           called == EventsOf(calls, GeminiCall)
<1>12. Tells(spoken, text) /\ Tells(thinks, thoughts) /\ Tells(called, rest)
  BY <1>8, <1>10, PlainTold
<1>13. GeminiParts(row) = (Plain(TextOf(row)) \o thinks) \o called
  BY <1>7, PartsShape
<1> HIDE DEF spoken, thinks, called
<1>14. CASE a = 1
  <2>1. text # <<>>
    <3>1. Len(text) = 1 /\ Len(<<>>) = 0
      BY <1>8, <1>14, EmptySequence
    <3> QED
      BY <3>1
  <2>2. GeminiParts(row) = (spoken \o thinks) \o called
    BY <1>7, <1>13, <2>1 DEF TextOf, spoken
  <2>3. Tells((spoken \o thinks) \o called, (text \o thoughts) \o rest)
    BY <1>12, TellsJoined
  <2>4. Tells(GeminiParts(row), fs)
    BY <1>9, <2>2, <2>3
  <2> QED
    BY <1>1, <1>7, <1>11, <2>4, AllTold
<1>15. CASE a = 0
  <2>1. text = <<>>
    BY <1>8, <1>15, EmptySequence, SameSequence DEF Derivable
  <2> DEFINE e == EventOf("assistant", Unsaid)
             told == thinks \o called
  <2>2. Plain(TextOf(row)) = <<e>>
    <3>1. TextOf(row) = <<Unsaid>>
      BY <1>7, <2>1 DEF TextOf
    <3>2. Unsaid.kind = "assistant"
      BY DEF Unsaid
    <3>3. Plain(<<Unsaid>>) = <<e>>
      <4>1. DOMAIN <<Unsaid>> = 1 .. 1 /\ <<Unsaid>>[1] = Unsaid
        OBVIOUS
      <4>2. Plain(<<Unsaid>>) = [i \in 1 .. 1 |-> e]
        BY <3>2, <4>1 DEF Plain
      <4>3. IsSequence(Plain(<<Unsaid>>)) /\ Len(Plain(<<Unsaid>>)) = 1
        BY UnsaidSound, PlainTold, <4>1 DEF Complete, Derivable, Tells
      <4>4. Plain(<<Unsaid>>)[1] = e
        BY <4>2
      <4> QED
        BY <4>3, <4>4, OneItem
    <3> QED
      BY <3>1, <3>3
  <2>3. e.of = None /\ e.kind = "assistant"
    BY DEF EventOf, Unsaid
  <2>4. IsSequence(<<e>>) /\ IsSequence(thinks) /\ IsSequence(called)
    BY <1>12, SingleSequence DEF Tells
  <2> HIDE DEF e
  <2>5. GeminiParts(row) = <<e>> \o told
    BY <1>13, <2>2, <2>4, JoinedOn
  <2>6. Tells(told, thoughts \o rest)
    BY <1>12, TellsJoined
  <2>7. thoughts \o rest = fs
    <3>1. text \o thoughts = thoughts
      BY <1>8, <2>1, JoinedEmpty DEF Derivable
    <3> QED
      BY <1>9, <3>1
  <2>8. fs[1].kind \in {"thinking", "tool_call"}
    <3>1. CASE b = 0
      <4>1. Len(rest) > 0 /\ rest = fs
        BY <1>1, <1>8, <1>9, <3>1
      <4> QED
        BY <1>10, <4>1
    <3>2. CASE b # 0
      <4>1. 1 \in 1 .. b - a /\ a + 1 = 1
        BY <1>4, <1>15, <3>2
      <4>2. thoughts[1] = fs[1] /\ 1 \in DOMAIN thoughts
        BY <1>8, <4>1, SequenceShape DEF Derivable
      <4> QED
        BY <1>5, <4>2 DEF AllOf
    <3> QED
      BY <3>1, <3>2
  <2> HIDE DEF told
  <2>9. Len(fs) > 0 /\ Tells(told, fs)
    BY <1>1, <2>6, <2>7
  <2>10. TellsAll(<<e>> \o told, fs)
    BY <1>1, <2>3, <2>8, <2>9, ToldBehind
  <2> QED
    BY <1>7, <1>11, <2>5, <2>10
<1> QED
  BY <1>4, <1>14, <1>15

LEMMA RowTold ==
  ASSUME NEW fs, NextFacts(fs), IsSequence(said), NEW id, NEW row \in GeminiRowsOf(id, fs)
  PROVE  SoundRow(row) /\ row.id = id /\ TellsAll(GeminiMessage(row), fs)
<1>1. CASE row \in GeminiAnswers(id, fs)
  BY <1>1, AnswerTold, GeminiMessageTold
<1>2. CASE row = Row(id, fs, <<>>, <<>>, fs[1].time) /\ OneOf(fs, {"user", "system"})
  <2>1. /\ Derivable(fs) /\ IsSequence(fs) /\ Len(fs) = 1
        /\ Len(said) \in Nat /\ Numbers(fs, Len(said))
    BY <1>2, SequenceShape DEF NextFacts, Derivable, Numbers, OneOf
  <2>2. /\ row.id = id /\ row.text = fs /\ row.thoughts = <<>> /\ row.calls = <<>>
        /\ DOMAIN row = {"id", "text", "thoughts", "calls", "time"}
    BY <1>2 DEF Row
  <2>3. SoundRow(row)
    BY <2>1, <2>2, SoundEmpty, EmptySequence DEF SoundRow
  <2>4. TextOf(row) = fs
    BY <2>1, <2>2, EmptySequence DEF TextOf
  <2>5. Plain(<<>>) = <<>>
    <3>1. Tells(Plain(<<>>), <<>>)
      BY SoundEmpty, PlainTold
    <3> QED
      BY <3>1, EmptySequence, SameSequence DEF Tells
  <2>6. EventsOf(<<>>, GeminiCall) = <<>>
    BY NoItems DEF EventsOf
  <2>7. GeminiParts(row) = (Plain(fs) \o <<>>) \o <<>>
    BY <2>2, <2>4, <2>5, <2>6, PartsShape
  <2>8. Tells(Plain(fs), fs)
    BY <2>1, PlainTold
  <2>9. GeminiParts(row) = Plain(fs)
    BY <2>7, <2>8, JoinedEmpty DEF Tells
  <2>10. TellsAll(GeminiParts(row), fs)
    BY <2>1, <2>8, <2>9, AllTold
  <2> QED
    BY <2>2, <2>3, <2>10, GeminiMessageTold
<1> QED
  BY <1>1, <1>2 DEF GeminiRowsOf

\* One record: a message, or all of them again with one at the end or, with Loose,
\* with one that has grown.
Tidily(r, fs, rows) ==
  \E row : /\ SoundRow(row) /\ TellsAll(GeminiMessage(row), fs) /\ row.id = fs[1].n
           /\ r.rows = <<row>> \/ r.rows = Append(rows, row)

LEMMA GeminiSays ==
  ASSUME NEW fs, NextFacts(fs), IsSequence(said), Records(native), native' \in GeminiWrites(fs)
  PROVE  \E r : /\ native' = Append(native, r) /\ SoundRecord(r) /\ r.session = None
                /\ Loose = FALSE => Tidily(r, fs, GeminiMessages(native))
<1> DEFINE rows == GeminiMessages(native)
<1>1. IsSequence(rows) /\ \A i \in DOMAIN rows : SoundRow(rows[i])
  <2>1. PICK read : GeminiSound(read) /\ rows = read.rows
    BY GeminiMessagesRead
  <2> QED
    BY <2>1 DEF GeminiSound
<1>2. Derivable(fs) /\ Len(fs) > 0
  <2>1. Derivable(fs) /\ Len(fs) \in {1, 2}
    BY DEF NextFacts
  <2> QED
    BY <2>1
<1>3. ASSUME NEW label, NEW more, IsSequence(more), \A i \in DOMAIN more : SoundRow(more[i])
      PROVE  /\ SoundRecord(GeminiLine(label, fs, more))
             /\ GeminiLine(label, fs, more).rows = more
             /\ GeminiLine(label, fs, more).session = None
  <2> DEFINE r == GeminiLine(label, fs, more)
  <2>1. r.facts = fs
    BY DEF GeminiLine, Record
  <2>2. r.rows = more /\ r.session = None
    BY DEF GeminiLine, Record
  <2> HIDE DEF r
  <2>3. SoundRecord(r)
    BY <1>2, <1>3, <2>1, <2>2 DEF SoundRecord
  <2> QED
    BY <2>2, <2>3 DEF r
<1>4. CASE \E id \in {fs[1].n} \cup (IF Loose THEN {None} ELSE {}) :
             \E row \in GeminiRowsOf(id, fs) : native' \in GeminiAdds(fs, row)
  <2>1. PICK id \in {fs[1].n} \cup (IF Loose THEN {None} ELSE {}) :
             \E row \in GeminiRowsOf(id, fs) : native' \in GeminiAdds(fs, row)
    BY <1>4
  <2>0. PICK row \in GeminiRowsOf(id, fs) : native' \in GeminiAdds(fs, row)
    BY <2>1
  <2> DEFINE one == <<row>>
             all == Append(rows, row)
  <2>2. SoundRow(row) /\ TellsAll(GeminiMessage(row), fs) /\ row.id = id
    BY <2>0, RowTold
  <2>3. Loose = FALSE => id = fs[1].n
    BY <2>1
  <2>4. native' = Append(native, GeminiLine("message", fs, one))
        \/ native' = Append(native, GeminiLine("set", fs, all))
    BY <2>0 DEF GeminiAdds
  <2>5. IsSequence(one) /\ \A i \in DOMAIN one : SoundRow(one[i])
    <3>1. IsSequence(one) /\ DOMAIN one = {1} /\ one[1] = row
      BY SingleSequence
    <3> HIDE DEF one
    <3> QED
      BY <1>2, <2>2, <3>1
  <2>6. IsSequence(all) /\ \A i \in DOMAIN all : SoundRow(all[i])
    <3> HIDE DEF rows
    <3>1. /\ IsSequence(all) /\ Len(all) = Len(rows) + 1 /\ all[Len(rows) + 1] = row
          /\ \A i \in 1 .. Len(rows) : all[i] = rows[i]
      BY <1>1, Appended
    <3>2. /\ Len(rows) \in Nat /\ DOMAIN rows = 1 .. Len(rows)
          /\ DOMAIN all = 1 .. Len(rows) + 1
      BY <1>1, <3>1, SequenceShape
    <3> HIDE DEF all
    <3>3. \A i \in DOMAIN all : i \in 1 .. Len(rows) \/ i = Len(rows) + 1
      BY <3>2
    <3> QED
      BY <1>1, <1>2, <2>2, <3>1, <3>2, <3>3
  <2> HIDE DEF one, all
  <2>7. ASSUME NEW r, native' = Append(native, r), SoundRecord(r), r.rows = one \/ r.rows = all
        PROVE  Loose = FALSE => Tidily(r, fs, rows)
    BY <2>2, <2>3, <2>7 DEF one, all, Tidily
  <2>8. \E r : /\ native' = Append(native, r) /\ SoundRecord(r) /\ r.session = None
               /\ r.rows = one \/ r.rows = all
    BY <1>3, <2>4, <2>5, <2>6
  <2> QED
    BY <2>7, <2>8
<1>5. CASE Loose # FALSE /\ native' \in GeminiResults(fs)
  <2>1. PICK i \in DOMAIN rows :
          \E j \in DOMAIN rows[i].calls :
            native' = Append(native, GeminiLine("set", fs, [rows EXCEPT ![i].calls[j] = @ \o fs]))
    BY <1>5 DEF GeminiResults
  <2>0. PICK j \in DOMAIN rows[i].calls :
          native' = Append(native, GeminiLine("set", fs, [rows EXCEPT ![i].calls[j] = @ \o fs]))
    BY <2>1
  <2> DEFINE grown == [rows EXCEPT ![i].calls[j] = @ \o fs]
  <2> HIDE DEF rows
  <2>2. Len(rows) \in Nat /\ DOMAIN rows = 1 .. Len(rows)
    BY <1>1, SequenceShape
  <2>3. DOMAIN grown = DOMAIN rows /\ \A k \in DOMAIN rows : k # i => grown[k] = rows[k]
    OBVIOUS
  <2>4. SoundRow(rows[i])
    BY <1>1
  <2>5. SoundRow(grown[i])
    <3> DEFINE calls == [rows[i].calls EXCEPT ![j] = @ \o fs]
    <3>1. /\ IsSequence(rows[i].calls) /\ \A k \in DOMAIN rows[i].calls : Derivable(rows[i].calls[k])
          /\ Len(rows[i].calls) \in Nat /\ DOMAIN rows[i].calls = 1 .. Len(rows[i].calls)
      BY <2>4, SequenceShape DEF SoundRow
    <3>2. Derivable(rows[i].calls[j] \o fs)
      BY <1>2, <2>0, <3>1, SoundJoined
    <3>3. calls = [k \in 1 .. Len(rows[i].calls) |-> calls[k]] /\ DOMAIN calls = DOMAIN rows[i].calls
      BY <3>1
    <3>4. \A k \in DOMAIN calls : Derivable(calls[k])
      BY <3>1, <3>2
    <3>5. grown[i] = [rows[i] EXCEPT !.calls = calls]
      OBVIOUS
    <3> HIDE DEF calls, grown
    <3>6. IsSequence(calls)
      BY <3>1, <3>3, SequenceOf
    <3>7. /\ DOMAIN grown[i] = DOMAIN rows[i] /\ grown[i].calls = calls
          /\ grown[i].text = rows[i].text /\ grown[i].thoughts = rows[i].thoughts
      BY <2>4, <3>5 DEF SoundRow
    <3> QED
      BY <2>4, <3>4, <3>6, <3>7 DEF SoundRow
  <2>6. grown = [k \in 1 .. Len(rows) |-> grown[k]]
    BY <2>2
  <2> HIDE DEF grown
  <2>7. IsSequence(grown)
    BY <2>2, <2>6, SequenceOf
  <2>8. \A k \in DOMAIN grown : SoundRow(grown[k])
    BY <1>1, <2>3, <2>4, <2>5
  <2> QED
    BY <1>3, <1>5, <2>0, <2>7, <2>8 DEF grown
<1>6. \/ \E id \in {fs[1].n} \cup (IF Loose THEN {None} ELSE {}) :
           \E row \in GeminiRowsOf(id, fs) : native' \in GeminiAdds(fs, row)
      \/ Loose # FALSE /\ native' \in GeminiResults(fs)
  <2> DEFINE ids == {fs[1].n} \cup (IF Loose THEN {None} ELSE {})
             written == UNION {GeminiRowsOf(id, fs) : id \in ids}
             added == UNION {GeminiAdds(fs, row) : row \in written}
  <2>1. native' \in added \/ (Loose /\ native' \in GeminiResults(fs))
    BY DEF GeminiWrites
  <2> HIDE DEF ids
  <2>2. ASSUME native' \in added
        PROVE  \E id \in ids : \E row \in GeminiRowsOf(id, fs) : native' \in GeminiAdds(fs, row)
    BY <2>2
  <2> HIDE DEF added
  <2> QED
    BY <2>1, <2>2 DEF ids
<1> QED
  BY <1>4, <1>5, <1>6

\* A file that is begun.
LEMMA NoEvents ==
  /\ EventsOf(<<>>, ClaudeEvents) = <<>> /\ EventsOf(<<>>, PiEvents) = <<>>
  /\ EventsOf(<<>>, GeminiMessage) = <<>> /\ GeminiRows(<<>>) = <<>>
<1>1. EventsOf(<<>>, ClaudeEvents) = <<>>
  BY NoItems DEF EventsOf
<1>2. EventsOf(<<>>, PiEvents) = <<>>
  BY NoItems DEF EventsOf
<1>3. EventsOf(<<>>, GeminiMessage) = <<>>
  BY NoItems DEF EventsOf
<1>4. GeminiRows(<<>>) = <<>>
  BY NoItems DEF EventsOf, GeminiRows
<1> QED
  BY <1>1, <1>2, <1>3, <1>4

LEMMA Begun ==
  ASSUME NEW head, SoundRecord(head)
  PROVE  Records(<<>>) /\ Records(<<head>>) /\ <<head>> = Append(<<>>, head)
<1>1. Records(<<>>)
  BY EmptySequence DEF Records
<1>2. <<head>> = <<>> \o <<head>>
  BY SingleSequence, JoinedEmpty
<1>3. <<head>> = Append(<<>>, head)
  BY <1>2, EmptySequence, AppendJoins
<1> QED
  BY <1>1, <1>3, RecordsAppended

(***************************************************************************)
(* What a file holds once it has told some facts                           *)
(***************************************************************************)
GeminiSaid(read, facts) ==
  /\ GeminiSound(read) /\ read.seen \subseteq 0 .. Len(facts)
  /\ Derivable(EventsOf(read.rows, GeminiMessage))
  /\ TellsAll(EventsOf(read.rows, GeminiMessage), facts)

FileSaid(records, facts) ==
  /\ agent = "claude" => Tells(EventsOf(records, ClaudeEvents), facts)
  /\ agent = "codex" => \E told : CodexReads(records, told) /\ CodexSaid(told, facts)
  /\ agent = "gemini" =>
       \E read : GeminiReads(GeminiRows(records), read) /\ GeminiSaid(read, facts)
  /\ agent = "pi" => Tells(EventsOf(records, PiEvents), facts)

LEMMA FileStarts ==
  ASSUME NormalizeInit, ~LiveDatabase
  PROVE  Records(native) /\ FileSaid(native, said)
<1> DEFINE head == native[1]
<1>1. /\ native = <<head>> /\ said = <<>>
      /\ head.facts = <<>> /\ head.rows = <<>> /\ head.type \in Heads
  BY NormalizeAssumption DEF NormalizeInit, LiveDatabase, Started, Record, Named, Heads
<1> HIDE DEF head
<1>2. SoundRecord(head)
  BY <1>1, SoundEmpty, EmptySequence DEF SoundRecord
<1>3. Records(<<>>) /\ Records(native) /\ native = Append(<<>>, head)
  BY <1>1, <1>2, Begun
<1>4. IsSequence(<<>>) /\ <<>> \o <<>> = <<>> /\ Tells(<<>>, <<>>) /\ Derivable(<<>>)
  BY SoundEmpty, EmptySequence, JoinedEmpty
<1>9. TellsAll(<<>>, <<>>)
  <2>1. 0 \in Nat /\ Numbers(<<>>, 0)
    BY EmptySequence DEF Numbers
  <2> QED
    BY <1>4, <2>1, AllTold
<1>5. agent = "claude" => Tells(EventsOf(native, ClaudeEvents), said)
  <2>1. ClaudeEvents(head) = <<>>
    BY <1>1 DEF ClaudeEvents, Heads
  <2>2. EventsOf(native, ClaudeEvents) = EventsOf(<<>>, ClaudeEvents) \o ClaudeEvents(head)
    BY <1>2, <1>3, ClaudeGrows
  <2>3. EventsOf(native, ClaudeEvents) = <<>>
    BY <1>4, <2>1, <2>2, NoEvents
  <2> QED
    BY <1>1, <1>4, <2>3
<1>6. agent = "pi" => Tells(EventsOf(native, PiEvents), said)
  <2>1. PiEvents(head) = <<>>
    BY <1>1 DEF PiEvents, Heads
  <2>2. EventsOf(native, PiEvents) = EventsOf(<<>>, PiEvents) \o PiEvents(head)
    BY <1>2, <1>3, PiGrows
  <2>3. EventsOf(native, PiEvents) = <<>>
    BY <1>4, <2>1, <2>2, NoEvents
  <2> QED
    BY <1>1, <1>4, <2>3
<1>7. CodexReads(native, Nothing) /\ CodexSaid(Nothing, said)
  <2>1. CodexRecord(Nothing, head) = Nothing
    BY <1>1 DEF CodexRecord, CodexKinds, Heads
  <2>2. CodexReads(native, Nothing)
    BY <1>3, <1>4, <2>1, CodexNothing, CodexMore
  <2>3. CodexSaid(Nothing, said)
    BY <1>1, <1>4, EmptySequence DEF CodexSaid, CodexSound, Nothing, Complete
  <2> QED
    BY <2>2, <2>3
<1>8. GeminiReads(GeminiRows(native), NoMessages) /\ GeminiSaid(NoMessages, said)
  <2>0. GeminiRows(native) = GeminiRows(<<>>) \o head.rows
    BY <1>2, <1>3, GeminiRowsGrow
  <2>1. GeminiRows(native) = <<>>
    BY <1>1, <1>4, <2>0, NoEvents
  <2>2. GeminiSound(NoMessages)
    BY <1>4, EmptySequence DEF GeminiSound, NoMessages
  <2> QED
    BY <1>1, <1>4, <1>9, <2>1, <2>2, GeminiNothing, NoEvents DEF GeminiSaid, NoMessages
<1> QED
  BY <1>3, <1>5, <1>6, <1>7, <1>8 DEF FileSaid

LEMMA ClaudeStep ==
  ASSUME NEW fs, NextFacts(fs), Records(native), native' \in ClaudeWrites(fs)
  PROVE  /\ Records(native')
         /\ Tells(EventsOf(native, ClaudeEvents), said) =>
              Tells(EventsOf(native', ClaudeEvents), said \o fs)
<1>1. PICK r : native' = Append(native, r) /\ SoundRecord(r) /\ Tells(ClaudeEvents(r), fs)
  BY ClaudeSays
<1>2. Records(native')
  BY <1>1, RecordsAppended
<1>3. EventsOf(native', ClaudeEvents) = EventsOf(native, ClaudeEvents) \o ClaudeEvents(r)
  BY <1>1, ClaudeGrows
<1> QED
  BY <1>1, <1>2, <1>3, TellsJoined

LEMMA PiStep ==
  ASSUME NEW fs, NextFacts(fs), Records(native), native' \in PiWrites(fs)
  PROVE  /\ Records(native')
         /\ Tells(EventsOf(native, PiEvents), said) => Tells(EventsOf(native', PiEvents), said \o fs)
<1>1. PICK r : native' = Append(native, r) /\ SoundRecord(r) /\ Tells(PiEvents(r), fs)
  BY PiSays
<1>2. Records(native')
  BY <1>1, RecordsAppended
<1>3. EventsOf(native', PiEvents) = EventsOf(native, PiEvents) \o PiEvents(r)
  BY <1>1, PiGrows
<1> QED
  BY <1>1, <1>2, <1>3, TellsJoined

\* A message in Codex's two records is read once.
LEMMA CodexStep ==
  ASSUME NEW fs, NextFacts(fs), Records(native), native' \in CodexWrites(fs)
  PROVE  /\ Records(native')
         /\ Loose = FALSE /\ (\E told : CodexReads(native, told) /\ CodexSaid(told, said)) =>
              \E told : CodexReads(native', told) /\ CodexSaid(told, said \o fs)
<1>1. IsSequence(native) /\ Derivable(fs)
  BY DEF Records, NextFacts
<1>2. PICK r, label :
        /\ Plainly(r, label, fs) /\ r.time = fs[1].time /\ fs[1].time # None /\ Len(fs) = 1
        /\ \/ /\ native' = Append(native, r)
              /\ label \in DOMAIN CodexKinds /\ fs[1].kind = CodexKinds[label]
           \/ \E q, other :
                /\ native' = Append(Append(native, r), q) /\ Plainly(q, other, fs)
                /\ Loose = FALSE => q.time = fs[1].time
                /\ \/ label \in UserTypes /\ other \in UserTypes /\ fs[1].kind = "user"
                   \/ /\ label = "agent_message" /\ other \in DOMAIN CodexKinds
                      /\ fs[1].kind = CodexKinds[other]
  BY <1>1, CodexSays
<1>3. SoundRecord(r) /\ Records(Append(native, r))
  BY <1>2, PlainSound, RecordsAppended
<1>4. Records(native')
  <2>1. CASE native' = Append(native, r)
    BY <1>3, <2>1
  <2>2. ASSUME NEW q, NEW other, native' = Append(Append(native, r), q), Plainly(q, other, fs)
        PROVE  Records(native')
    BY <1>3, <2>2, PlainSound, RecordsAppended
  <2> QED
    BY <1>2, <2>1, <2>2
<1>5. ASSUME Loose = FALSE, NEW told, CodexReads(native, told), CodexSaid(told, said)
      PROVE  \E now : CodexReads(native', now) /\ CodexSaid(now, said \o fs)
  <2> DEFINE f == fs[1]
             once == CodexRecord(told, r)
  <2>1. fs = <<f>> /\ Derivable(<<f>>) /\ f.n = Len(said) + 1 /\ f.time = f.n
    <3>1. fs = <<f>>
      BY <1>1, <1>2, OneItem DEF Derivable
    <3>2. f.n = Len(said) + 1 /\ f.time \in {None, f.n}
      BY <1>2 DEF NextFacts
    <3> QED
      BY <1>1, <1>2, <3>1, <3>2
  <2>2. r.facts = <<f>> /\ r.time = f.n /\ r.type = label
    BY <1>2, <2>1 DEF Plainly
  <2> HIDE DEF f
  <2>3. CodexReads(Append(native, r), once)
    BY <1>1, <1>5, CodexMore
  <2>4. /\ (\/ r.type \in {"user_message", "message_user"} /\ f.kind = "user"
            \/ r.type \in DOMAIN CodexKinds /\ f.kind = CodexKinds[r.type]) =>
              CodexSaid(once, said \o <<f>>)
        /\ r.type = "agent_message" => once = told
        /\ r.type \in {"user_message", "message_user"} =>
             \A again : again.type \in {"user_message", "message_user"}
                        /\ again.facts = r.facts /\ again.time = r.time =>
                          CodexRecord(once, again) = once
    BY <1>5, <2>1, <2>2, CodexRecordSaid
  <2> HIDE DEF once
  <2>5. CASE native' = Append(native, r) /\ label \in DOMAIN CodexKinds
             /\ f.kind = CodexKinds[label]
    <3>1. CodexSaid(once, said \o fs)
      BY <2>1, <2>2, <2>4, <2>5
    <3> QED
      BY <2>3, <2>5, <3>1
  <2>6. ASSUME NEW q, NEW other, native' = Append(Append(native, r), q), Plainly(q, other, fs),
               q.time = f.time,
               \/ label \in UserTypes /\ other \in UserTypes /\ f.kind = "user"
               \/ /\ label = "agent_message" /\ other \in DOMAIN CodexKinds
                  /\ f.kind = CodexKinds[other]
        PROVE  \E now : CodexReads(native', now) /\ CodexSaid(now, said \o fs)
    <3> DEFINE now == CodexRecord(once, q)
    <3>1. CodexReads(native', now)
      BY <1>3, <2>3, <2>6, CodexMore DEF Records
    <3>2. q.type = other /\ q.facts = <<f>> /\ q.time = f.n
      BY <2>1, <2>6 DEF Plainly
    <3>3. CASE label \in UserTypes /\ other \in UserTypes /\ f.kind = "user"
      <4>1. CodexSaid(once, said \o fs)
        BY <2>1, <2>2, <2>4, <3>3 DEF UserTypes
      <4>2. now = once
        BY <2>2, <2>4, <3>2, <3>3 DEF UserTypes
      <4> QED
        BY <3>1, <4>1, <4>2
    <3>4. CASE label = "agent_message" /\ other \in DOMAIN CodexKinds
               /\ f.kind = CodexKinds[other]
      <4>1. once = told
        BY <2>2, <2>4, <3>4
      <4>2. CodexSaid(CodexRecord(told, q), said \o <<f>>)
        BY <1>5, <2>1, <3>2, <3>4, CodexRecordSaid
      <4> QED
        BY <2>1, <3>1, <4>1, <4>2
    <3> QED
      BY <2>6, <3>3, <3>4
  <2> QED
    BY <1>2, <1>5, <2>5, <2>6 DEF f
<1> QED
  BY <1>4, <1>5

\* A message with a new id is read; a message written again is not.
LEMMA GeminiRowSaid ==
  ASSUME NEW read, NEW facts, GeminiSaid(read, facts), NEW row, NEW fs, SoundRow(row),
         TellsAll(GeminiMessage(row), fs), Len(fs) \in {1, 2}, IsSequence(fs),
         row.id = Len(facts) + 1, IsSequence(facts), Numbers(facts, 0), Numbers(fs, Len(facts))
  PROVE  GeminiSaid(GeminiRow(read, row), facts \o fs)
<1> DEFINE now == GeminiRow(read, row)
           f == [i \in DOMAIN read.rows |-> GeminiMessage(read.rows[i])]
           g == [i \in DOMAIN now.rows |-> GeminiMessage(now.rows[i])]
           last == Len(read.rows) + 1
<1>1. Len(facts) \in Nat /\ Len(facts \o fs) = Len(facts) + Len(fs)
  BY SequenceShape, Joined
<1>2. row.id \notin read.seen
  BY <1>1 DEF GeminiSaid
<1>3. /\ GeminiSound(read) /\ GeminiSound(now) /\ now.rows = Append(read.rows, row)
      /\ now.seen = read.seen \cup {row.id}
  BY <1>2, GeminiRowSound DEF GeminiSaid, GeminiRow
<1>4. now.seen \subseteq 0 .. Len(facts \o fs)
  <2>1. now.seen = read.seen \cup {row.id} /\ read.seen \subseteq 0 .. Len(facts)
    BY <1>3 DEF GeminiSaid
  <2>2. Len(facts \o fs) \in Nat /\ Len(facts) + 1 <= Len(facts \o fs)
    BY <1>1
  <2> HIDE DEF now
  <2> QED
    BY <1>1, <2>1, <2>2
<1> HIDE DEF now
<1>5. /\ IsSequence(read.rows) /\ IsSequence(now.rows) /\ Len(now.rows) = last
      /\ now.rows[last] = row /\ \A i \in 1 .. Len(read.rows) : now.rows[i] = read.rows[i]
  BY <1>3, Appended DEF GeminiSound
<1>6. /\ Len(read.rows) \in Nat /\ DOMAIN read.rows = 1 .. Len(read.rows)
      /\ DOMAIN now.rows = 1 .. last
  BY <1>5, SequenceShape
<1>7. Derivable(GeminiMessage(row))
  BY GeminiMessageTold DEF Complete
<1>8. \A i \in DOMAIN read.rows : Derivable(f[i])
  BY <1>3, GeminiMessageTold DEF GeminiSound, Complete
<1>9. /\ EventsOf(read.rows, GeminiMessage) = FlattenSeq(f)
      /\ EventsOf(now.rows, GeminiMessage) = FlattenSeq(g)
  BY DEF EventsOf
<1>10. g[last] = GeminiMessage(row) /\ \A i \in DOMAIN read.rows : g[i] = f[i]
  BY <1>5, <1>6
<1>11. f = [i \in 1 .. Len(read.rows) |-> f[i]] /\ g = [i \in 1 .. last |-> g[i]]
  BY <1>6
<1>12. DOMAIN f = DOMAIN read.rows
  OBVIOUS
<1> HIDE DEF f, g
<1>13. /\ IsSequence(f) /\ Len(f) = Len(read.rows)
       /\ IsSequence(g) /\ Len(g) = Len(read.rows) + 1
  <2>1. IsSequence(f) /\ Len(f) = Len(read.rows)
    <3>1. Len(read.rows) \in Nat /\ f = [i \in 1 .. Len(read.rows) |-> f[i]]
      BY <1>6, <1>11
    <3>2. /\ IsSequence([i \in 1 .. Len(read.rows) |-> f[i]])
          /\ Len([i \in 1 .. Len(read.rows) |-> f[i]]) = Len(read.rows)
      BY ONLY <3>1, SequenceOf
    <3> QED
      BY ONLY <3>1, <3>2
  <2>2. last \in Nat /\ g = [i \in 1 .. last |-> g[i]]
    BY <1>6, <1>11
  <2>3. IsSequence(g) /\ Len(g) = last
    BY <2>2, SequenceOf
  <2> QED
    BY <2>1, <2>3
<1>14. g = Append(f, g[last])
  BY <1>6, <1>10, <1>13, OneMore
<1>15. AllSequences(f) /\ Derivable(FlattenSeq(f))
  BY <1>8, <1>12, <1>13, SoundFlat
<1>16. FlattenSeq(g) = FlattenSeq(f) \o GeminiMessage(row)
  BY <1>7, <1>10, <1>14, <1>15, FlatAppended DEF Derivable
<1>17. Derivable(FlattenSeq(g)) /\ TellsAll(FlattenSeq(g), facts \o fs)
  BY <1>7, <1>9, <1>15, <1>16, SoundJoined, AllJoined DEF GeminiSaid
<1> QED
  BY <1>3, <1>4, <1>9, <1>17 DEF GeminiSaid, now

LEMMA GeminiStep ==
  ASSUME NEW fs, NextFacts(fs), IsSequence(said), Numbers(said, 0), Records(native),
         native' \in GeminiWrites(fs)
  PROVE  /\ Records(native')
         /\ Loose = FALSE /\ (\E read : /\ GeminiReads(GeminiRows(native), read)
                                        /\ GeminiSaid(read, said)) =>
              \E read : GeminiReads(GeminiRows(native'), read) /\ GeminiSaid(read, said \o fs)
<1>1. PICK r : /\ native' = Append(native, r) /\ SoundRecord(r)
               /\ Loose = FALSE => Tidily(r, fs, GeminiMessages(native))
  BY GeminiSays
<1>2. Records(native')
  BY <1>1, RecordsAppended
<1>3. ASSUME Loose = FALSE, NEW read, GeminiReads(GeminiRows(native), read),
             GeminiSaid(read, said)
      PROVE  \E now : GeminiReads(GeminiRows(native'), now) /\ GeminiSaid(now, said \o fs)
  <2> DEFINE rows == GeminiRows(native)
             shown == read.rows
  <2>1. PICK row : /\ SoundRow(row) /\ TellsAll(GeminiMessage(row), fs) /\ row.id = fs[1].n
                   /\ r.rows = <<row>> \/ r.rows = Append(GeminiMessages(native), row)
    BY <1>1, <1>3 DEF Tidily
  <2>2. SoundRows(rows) /\ GeminiRows(native') = rows \o r.rows
    BY <1>1, GeminiRowsGrow
  <2>3. GeminiSound(read) /\ IsSequence(shown) /\ IsSequence(rows) /\ GeminiMessages(native) = shown
    BY <1>3, <2>2, GeminiRead DEF GeminiSaid, GeminiSound, SoundRows
  <2>4. row.id = Len(said) + 1
    BY <2>1 DEF NextFacts
  <2> DEFINE now == GeminiRow(read, row)
  <2>5. /\ IsSequence(fs) /\ Len(fs) \in {1, 2} /\ Len(said) \in Nat
        /\ Numbers(said, 0) /\ Numbers(fs, Len(said))
    BY SequenceShape DEF NextFacts, Derivable, Numbers
  <2>6. GeminiSaid(now, said \o fs)
    BY <1>3, <2>1, <2>4, <2>5, GeminiRowSaid
  <2>7. GeminiReads(GeminiRows(native'), now)
    <3>1. CASE r.rows = <<row>>
      <4>1. GeminiRows(native') = Append(rows, row)
        BY <2>2, <2>3, <3>1, AppendJoins
      <4> QED
        BY <1>3, <2>3, <4>1, GeminiMore
    <3>2. CASE r.rows = Append(shown, row)
      <4>1. GeminiRows(native') = Append(rows \o shown, row) /\ IsSequence(rows \o shown)
        BY <2>2, <2>3, <3>2, JoinAppended, Joined
      <4>2. \A i \in DOMAIN shown : SoundRow(shown[i]) /\ shown[i].id \in read.seen
        BY <2>3 DEF GeminiSound
      <4>3. GeminiReads(rows \o shown, read)
        BY <1>3, <2>3, <4>2, GeminiMoreRows
      <4> HIDE DEF rows, shown, now
      <4>4. GeminiReads(Append(rows \o shown, row), GeminiRow(read, row))
        BY <4>1, <4>3, GeminiMore
      <4> QED
        BY <4>1, <4>4 DEF now
    <3> QED
      BY <2>1, <2>3, <3>1, <3>2
  <2> QED
    BY <2>6, <2>7
<1> QED
  BY <1>2, <1>3

\* The rows of OpenCode's database tell the facts, one by one.
PartsSound ==
  LiveDatabase =>
    \A i \in DOMAIN native.parts :
      /\ IsSequence(native.parts[i].fact.tasks) /\ Preview(native.parts[i].fact.text) # None

PartsSaid ==
  LiveDatabase =>
    /\ Len(native.parts) = Len(said)
    /\ \A i \in DOMAIN native.parts : /\ native.parts[i].fact.n = said[i].n
                                      /\ native.parts[i].fact.kind = said[i].kind

NativeInv ==
  /\ agent \in Agents /\ IsSequence(said) /\ Numbers(said, 0) /\ OpenCodeInv
  /\ ~LiveDatabase => Records(native)
  /\ PartsSound /\ PartsSaid

LEMMA NativeStarts == NormalizeInit => NativeInv /\ (~LiveDatabase => FileSaid(native, said))
<1> SUFFICES ASSUME NormalizeInit PROVE NativeInv /\ (~LiveDatabase => FileSaid(native, said))
  OBVIOUS
<1>1. agent \in Agents /\ IsSequence(said) /\ Len(said) = 0 /\ Numbers(said, 0)
  BY EmptySequence DEF NormalizeInit, Numbers
<1>2. ~LiveDatabase => Records(native) /\ FileSaid(native, said)
  BY FileStarts
<1>3. LiveDatabase => native.parts = <<>>
  BY DEF LiveDatabase, NormalizeInit, Started
<1>4. PartsSound /\ PartsSaid
  BY <1>1, <1>3, EmptySequence DEF PartsSound, PartsSaid
<1> QED
  BY <1>1, <1>2, <1>4, OpenCodeStarts DEF NativeInv

LEMMA FileWritten ==
  ASSUME NativeInv, Say
  PROVE  /\ ~LiveDatabase /\ Records(native') /\ IsSequence(said') /\ Numbers(said', 0)
         /\ Loose = FALSE /\ FileSaid(native, said) => FileSaid(native, said)'
<1>1. PICK fs \in Told : native' \in Writes(fs) /\ said' = said \o fs
  BY DEF Say
<1>2. ~LiveDatabase /\ agent' = agent /\ Records(native) /\ IsSequence(said) /\ Numbers(said, 0)
  BY DEF Say, NativeInv
<1>3. NextFacts(fs)
  BY <1>1, ToldNext DEF NativeInv
<1>4. IsSequence(said')
  BY <1>1, <1>2, <1>3, Joined DEF NextFacts, Derivable
<1>10. Numbers(said', 0)
  <2>1. /\ IsSequence(said) /\ IsSequence(fs) /\ Numbers(said, 0) /\ Numbers(fs, Len(said))
        /\ Len(said) \in Nat /\ Len(fs) \in Nat
    BY <1>2, <1>3, SequenceShape DEF NextFacts, Derivable, Numbers, NativeInv
  <2> QED
    BY <1>1, <2>1, NumbersJoined
<1>5. agent \in {"claude", "codex", "gemini", "pi"}
  BY <1>2, NormalizeAssumption DEF LiveDatabase, NativeInv
<1>6. CASE agent = "claude"
  <2>1. native' \in ClaudeWrites(fs)
    BY <1>1, <1>6 DEF Writes
  <2>2. /\ Records(native')
        /\ Tells(EventsOf(native, ClaudeEvents), said) =>
             Tells(EventsOf(native', ClaudeEvents), said \o fs)
    BY <1>2, <1>3, <2>1, ClaudeStep
  <2> QED
    BY <1>1, <1>2, <1>4, <1>6, <1>10, <2>2 DEF FileSaid
<1>7. CASE agent = "pi"
  <2>1. native' \in PiWrites(fs)
    BY <1>1, <1>7 DEF Writes
  <2>2. /\ Records(native')
        /\ Tells(EventsOf(native, PiEvents), said) => Tells(EventsOf(native', PiEvents), said \o fs)
    BY <1>2, <1>3, <2>1, PiStep
  <2> QED
    BY <1>1, <1>2, <1>4, <1>7, <1>10, <2>2 DEF FileSaid
<1>8. CASE agent = "codex"
  <2>1. native' \in CodexWrites(fs)
    BY <1>1, <1>8 DEF Writes
  <2>2. /\ Records(native')
        /\ Loose = FALSE /\ (\E told : CodexReads(native, told) /\ CodexSaid(told, said)) =>
             \E told : CodexReads(native', told) /\ CodexSaid(told, said \o fs)
    BY <1>2, <1>3, <2>1, CodexStep
  <2> QED
    BY <1>1, <1>2, <1>4, <1>8, <1>10, <2>2 DEF FileSaid
<1>9. CASE agent = "gemini"
  <2>1. native' \in GeminiWrites(fs)
    BY <1>1, <1>9 DEF Writes
  <2>2. /\ Records(native')
        /\ Loose = FALSE /\ (\E read : /\ GeminiReads(GeminiRows(native), read)
                                       /\ GeminiSaid(read, said)) =>
             \E read : GeminiReads(GeminiRows(native'), read) /\ GeminiSaid(read, said \o fs)
    BY <1>2, <1>3, <2>1, GeminiStep
  <2> QED
    BY <1>1, <1>2, <1>4, <1>9, <1>10, <2>2 DEF FileSaid
<1> QED
  BY <1>5, <1>6, <1>7, <1>8, <1>9

LEMMA PartsWritten ==
  ASSUME NativeInv, OpenMessage \/ AddPart \/ FinishPart
  PROVE  LiveDatabase /\ IsSequence(said') /\ Numbers(said', 0) /\ PartsSound' /\ PartsSaid'
<1> DEFINE parts == native.parts
           more == native'.parts
<1>1. /\ LiveDatabase /\ Database /\ agent' = agent /\ LiveDatabase'
      /\ DOMAIN native = {"messages", "parts", "updated"} /\ IsSequence(parts)
      /\ agent \in Agents /\ IsSequence(said) /\ Numbers(said, 0)
  BY DEF OpenMessage, AddPart, FinishPart, LiveDatabase, NativeInv, OpenCodeInv, Database
<1>2. /\ \A i \in DOMAIN parts : /\ IsSequence(parts[i].fact.tasks)
                                 /\ Preview(parts[i].fact.text) # None
                                 /\ parts[i].fact.n = said[i].n /\ parts[i].fact.kind = said[i].kind
      /\ Len(parts) = Len(said)
  BY <1>1 DEF NativeInv, PartsSound, PartsSaid
<1>3. CASE OpenMessage
  <2>1. more = parts /\ said' = said
    BY <1>1, <1>3 DEF OpenMessage
  <2> QED
    BY <1>1, <1>2, <2>1 DEF PartsSound, PartsSaid
<1>4. CASE AddPart
  <2>1. PICK t \in Vocabulary[agent], m \in native.messages :
          /\ said' = Append(said, Fact(t, Len(said) + 1))
          /\ native' = [native EXCEPT !.parts = Append(@, [message |-> m,
                                                           fact |-> Fact(t, Len(said) + 1)]),
                                      !.updated = @ + 1]
    BY <1>4 DEF AddPart
  <2> DEFINE f == Fact(t, Len(said) + 1)
             part == [message |-> m, fact |-> f]
  <2>2. f.tasks = t.tasks /\ f.text = t.text /\ part.fact = f /\ f.n = Len(said) + 1
    BY DEF Fact
  <2>3. IsSequence(t.tasks) /\ Preview(t.text) # None
    BY <1>1, NormalizeAssumption, TypedSequence
  <2>4. said' = Append(said, f) /\ more = Append(parts, part)
    BY <1>1, <2>1
  <2> HIDE DEF part, f, parts, more
  <2>5. /\ IsSequence(said') /\ Len(said') = Len(said) + 1 /\ said'[Len(said) + 1] = f
        /\ \A i \in 1 .. Len(said) : said'[i] = said[i]
    BY <1>1, <2>4, Appended
  <2>6. /\ IsSequence(more) /\ Len(more) = Len(parts) + 1 /\ more[Len(parts) + 1] = part
        /\ \A i \in 1 .. Len(parts) : more[i] = parts[i]
    BY <1>1, <2>4, Appended
  <2>7. /\ Len(parts) \in Nat /\ DOMAIN parts = 1 .. Len(parts)
        /\ DOMAIN more = 1 .. Len(parts) + 1
    BY <1>1, <2>6, SequenceShape
  <2>8. ASSUME NEW i \in DOMAIN more
        PROVE  /\ IsSequence(more[i].fact.tasks) /\ Preview(more[i].fact.text) # None
               /\ more[i].fact.n = said'[i].n /\ more[i].fact.kind = said'[i].kind
    <3>1. CASE i \in DOMAIN parts
      BY <1>2, <2>5, <2>6, <2>7, <3>1
    <3>2. CASE i = Len(parts) + 1
      BY <1>2, <2>2, <2>3, <2>5, <2>6, <3>2
    <3> QED
      BY <2>7, <3>1, <3>2
  <2>9. Numbers(said', 0)
    <3>1. \A k \in 1 .. Len(said) + 1 : k \in 1 .. Len(said) \/ k = Len(said) + 1
      BY <1>2, <2>7
    <3>2. \A k \in 1 .. Len(said) : said[k].n = 0 + k
      BY <1>1 DEF Numbers
    <3>3. 0 + (Len(said) + 1) = Len(said) + 1
      BY <1>2, <2>7
    <3> QED
      BY <2>2, <2>5, <3>1, <3>2, <3>3 DEF Numbers
  <2> QED
    BY <1>1, <1>2, <2>5, <2>6, <2>8, <2>9 DEF PartsSound, PartsSaid, more
<1>5. CASE FinishPart
  <2>1. PICK i \in DOMAIN parts, quiet \in {FALSE, QuietEdits} :
          native' = [native EXCEPT !.parts[i].fact.state = 1,
                                   !.updated = IF quiet THEN @ ELSE @ + 1]
    BY <1>5 DEF FinishPart
  <2>2. more = [native EXCEPT !.parts[i].fact.state = 1].parts /\ said' = said
    BY <1>1, <1>5, <2>1 DEF FinishPart
  <2> HIDE DEF more
  <2>3. /\ Len(more) = Len(parts) /\ DOMAIN more = DOMAIN parts
        /\ \A j \in DOMAIN more : \A field \in FactFields \ {"state"} :
             more[j].fact[field] = parts[j].fact[field]
    BY <1>1, <2>2, PartFinished
  <2>4. \A j \in DOMAIN more :
          /\ more[j].fact.tasks = parts[j].fact.tasks /\ more[j].fact.text = parts[j].fact.text
          /\ more[j].fact.n = parts[j].fact.n /\ more[j].fact.kind = parts[j].fact.kind
    BY <2>3 DEF FactFields
  <2> HIDE DEF parts
  <2> QED
    BY <1>1, <1>2, <2>2, <2>3, <2>4 DEF PartsSound, PartsSaid, more
<1> QED
  BY <1>1, <1>3, <1>4, <1>5

LEMMA NativeStep ==
  ASSUME NativeInv, [NormalizeNext]_normalizeVars
  PROVE  /\ NativeInv'
         /\ Loose = FALSE /\ (~LiveDatabase => FileSaid(native, said)) =>
              (~LiveDatabase => FileSaid(native, said))'
<1>1. OpenCodeInv'
  BY OpenCodeStep DEF NativeInv
<1>2. CASE Say
  <2>1. agent' = agent /\ ~LiveDatabase
    BY <1>2 DEF Say
  <2>2. /\ Records(native') /\ IsSequence(said') /\ Numbers(said', 0)
        /\ Loose = FALSE /\ FileSaid(native, said) => FileSaid(native, said)'
    BY <1>2, FileWritten
  <2> QED
    BY <1>1, <2>1, <2>2 DEF NativeInv, LiveDatabase, PartsSound, PartsSaid
<1>3. CASE OpenMessage \/ AddPart \/ FinishPart
  <2>1. agent' = agent
    BY <1>3 DEF OpenMessage, AddPart, FinishPart
  <2> QED
    BY <1>1, <1>3, <2>1, PartsWritten DEF NativeInv, LiveDatabase
<1>4. CASE UNCHANGED <<agent, said, native>>
  BY <1>1, <1>4 DEF NativeInv, FileSaid, LiveDatabase, PartsSound, PartsSaid
<1>5. Say \/ OpenMessage \/ AddPart \/ FinishPart \/ UNCHANGED <<agent, said, native>>
  BY DEF NormalizeNext, normalizeVars, IngestFile, Discover, ReadRow, ReadEvents, ReadMessages,
         ReadParts, CopyMessages, CopyParts, Store, Read
<1> QED
  BY <1>2, <1>3, <1>4, <1>5

LEMMA OpenCodeTells ==
  ASSUME NativeInv, LiveDatabase
  PROVE  Tells(OpenCodeEvents(native), said)
<1> DEFINE events == OpenCodeEvents(native)
           made(p) == [EventOf(p.fact.kind, p.fact) EXCEPT !.error = FALSE]
<1>1. /\ IsSequence(native.parts)
      /\ \A i \in DOMAIN native.parts : native.parts[i].message \in native.messages
  BY DEF NativeInv, OpenCodeInv, Database
<1>2. /\ Len(native.parts) = Len(said)
      /\ \A i \in DOMAIN native.parts : /\ native.parts[i].fact.n = said[i].n
                                        /\ native.parts[i].fact.kind = said[i].kind
  BY DEF NativeInv, PartsSaid
<1>3. /\ IsSequence(events) /\ Len(events) = Len(native.parts)
      /\ \A k \in 1 .. Len(native.parts) : events[k] = made(native.parts[k])
  BY <1>1, OpenCodeRead
<1>4. \A p : made(p).of = p.fact.n /\ made(p).kind = p.fact.kind
  BY DEF EventOf
<1>5. DOMAIN native.parts = 1 .. Len(native.parts)
  BY <1>1, SequenceShape
<1> HIDE DEF events, made
<1>6. Tells(events, said)
  BY <1>2, <1>3, <1>4, <1>5 DEF NativeInv, Tells
<1> QED
  BY <1>6 DEF events

LEMMA FileTells ==
  ASSUME NativeInv, ~LiveDatabase, FileSaid(native, said)
  PROVE  LET events == ParseFile(agent, native, path).events
         IN IF agent = "gemini" THEN TellsAll(events, said) ELSE Tells(events, said)
<1>1. agent \in {"claude", "codex", "gemini", "pi"} /\ Records(native)
  BY NormalizeAssumption DEF LiveDatabase, NativeInv
<1>2. CASE agent = "claude"
  BY <1>2 DEF ParseFile, FileSaid
<1>3. CASE agent = "pi"
  BY <1>3 DEF ParseFile, FileSaid
<1>4. CASE agent = "codex"
  <2>1. PICK told : CodexReads(native, told) /\ CodexSaid(told, said)
    BY <1>4 DEF FileSaid
  <2>2. CodexEvents(native) = Unflagged(told.events)
    BY <1>1, <2>1, CodexRead DEF Records
  <2>3. Tells(CodexEvents(native), said)
    BY <2>1, <2>2, UnflaggedWhole DEF CodexSaid, CodexSound
  <2> QED
    BY <1>4, <2>3 DEF ParseFile
<1>5. CASE agent = "gemini"
  <2>1. PICK read : GeminiReads(GeminiRows(native), read) /\ GeminiSaid(read, said)
    BY <1>5 DEF FileSaid
  <2>2. IsSequence(GeminiRows(native))
    BY <1>1, SilentRecord, GeminiRowsGrow DEF SoundRows
  <2>3. GeminiMessages(native) = read.rows
    BY <2>1, <2>2, GeminiRead
  <2>4. TellsAll(GeminiEvents(native), said)
    BY <2>1, <2>3 DEF GeminiSaid, GeminiEvents
  <2> QED
    BY <1>5, <2>4 DEF ParseFile
<1> QED
  BY <1>1, <1>2, <1>3, <1>4, <1>5

\* However an agent repeats itself, the facts it told are events, each once and in
\* order, and of the other events there is one at most before a thought or call of
\* Gemini's: of every agent that stamps and numbers what it repeats.
THEOREM EachSaidOnceAlways ==
  ASSUME Loose = FALSE
  PROVE  NormalizeSpec => []EachSaidOnce
<1> DEFINE SaidInv == NativeInv /\ (~LiveDatabase => FileSaid(native, said))
<1>1. NormalizeInit => SaidInv
  BY NativeStarts
<1>2. SaidInv /\ [NormalizeNext]_normalizeVars => SaidInv'
  BY NativeStep
<1>3. SaidInv => EachSaidOnce
  <2> SUFFICES ASSUME SaidInv PROVE EachSaidOnce
    OBVIOUS
  <2>1. IF agent = "gemini" THEN TellsAll(EventsNow, said) ELSE Tells(EventsNow, said)
    BY OpenCodeTells, FileTells DEF EventsNow, LiveDatabase
  <2>2. 0 \in Nat /\ Numbers(said, 0)
    BY DEF NativeInv
  <2>3. TellsAll(EventsNow, said)
    BY <2>1, <2>2, AllTold
  <2>4. agent = "gemini" \/ \A i \in 1 .. Len(EventsNow) : EventsNow[i].of # None
    <3> SUFFICES ASSUME agent # "gemini", NEW i \in 1 .. Len(EventsNow)
                 PROVE  EventsNow[i].of # None
      OBVIOUS
    <3>1. Len(EventsNow) = Len(said) /\ Len(said) \in Nat /\ EventsNow[i].of = said[i].n
      BY <2>1, SequenceShape DEF Tells
    <3>2. said[i].n = 0 + i
      BY <2>2, <3>1 DEF Numbers
    <3> QED
      BY <3>1, <3>2, ProjectionAssumption
  <2> QED
    BY <2>2, <2>3, <2>4, SaidAll DEF EachSaidOnce
<1> QED
  BY <1>1, <1>2, <1>3, PTL DEF NormalizeSpec

(***************************************************************************)
(* The pass of the aggregates and the repair of the stored ones            *)
(***************************************************************************)
\* What a count over the events becomes with one more.
LEMMA OneCounted ==
  ASSUME NEW S, IsFiniteSet(S), NEW n, n \notin S
  PROVE  IsFiniteSet(S \cup {n}) /\ Cardinality(S \cup {n}) = Cardinality(S) + 1
  BY FS_AddElement

LEMMA SameCounted ==
  ASSUME NEW S, IsFiniteSet(S)
  PROVE  Cardinality(S) = Cardinality(S) + 0
  BY FS_CardinalityType

\* The first and the last event of a kind among the first n.
FirstOf(events, kind, n, v) ==
  \/ v = None /\ \A i \in 1 .. n : events[i].kind # kind
  \/ /\ v # None
     /\ \E i \in 1 .. n : /\ events[i].kind = kind /\ v = Preview(events[i].text)
                          /\ \A j \in 1 .. n : events[j].kind = kind => i <= j

LastOf(events, kind, n, v) ==
  \/ v = None /\ \A i \in 1 .. n : events[i].kind # kind
  \/ \E i \in 1 .. n : /\ events[i].kind = kind /\ v = Preview(events[i].text)
                       /\ \A j \in 1 .. n : events[j].kind = kind => i >= j

LEMMA FirstStep ==
  ASSUME NEW events, NEW kind, NEW n \in Nat \ {0}, Preview(events[n].text) # None,
         NEW v, FirstOf(events, kind, n - 1, v)
  PROVE  FirstOf(events, kind, n,
                 IF events[n].kind = kind THEN OrElse(v, Preview(events[n].text)) ELSE v)
<1>1. \A i \in 1 .. n : i \in 1 .. (n - 1) \/ i = n
  OBVIOUS
<1>2. \A i \in 1 .. (n - 1) : i \in 1 .. n /\ i <= n
  OBVIOUS
<1>3. CASE v = None /\ \A i \in 1 .. (n - 1) : events[i].kind # kind
  <2>1. n \in 1 .. n /\ n <= n
    OBVIOUS
  <2>2. CASE events[n].kind = kind
    BY <1>1, <1>3, <2>1, <2>2 DEF FirstOf, OrElse
  <2>3. CASE events[n].kind # kind
    BY <1>1, <1>3, <2>3 DEF FirstOf
  <2> QED
    BY <2>2, <2>3
<1>4. ASSUME v # None, NEW i \in 1 .. (n - 1), events[i].kind = kind,
             v = Preview(events[i].text),
             \A j \in 1 .. (n - 1) : events[j].kind = kind => i <= j
      PROVE  FirstOf(events, kind, n, v)
  <2>1. i \in 1 .. n /\ \A j \in 1 .. n : events[j].kind = kind => i <= j
    BY <1>1, <1>2, <1>4
  <2> QED
    BY <1>4, <2>1 DEF FirstOf
<1>5. v # None => OrElse(v, Preview(events[n].text)) = v
  BY DEF OrElse
<1> QED
  BY <1>3, <1>4, <1>5 DEF FirstOf

LEMMA LastStep ==
  ASSUME NEW events, NEW kind, NEW n \in Nat \ {0}, NEW v, LastOf(events, kind, n - 1, v)
  PROVE  LastOf(events, kind, n, IF events[n].kind = kind THEN Preview(events[n].text) ELSE v)
<1>1. \A i \in 1 .. n : i <= n /\ (i \in 1 .. (n - 1) \/ i = n)
  OBVIOUS
<1>2. \A i \in 1 .. (n - 1) : i \in 1 .. n
  OBVIOUS
<1>3. CASE events[n].kind = kind
  <2>1. n \in 1 .. n /\ \A j \in 1 .. n : n >= j
    OBVIOUS
  <2> QED
    BY <1>3, <2>1 DEF LastOf
<1>4. CASE events[n].kind # kind
  BY <1>1, <1>2, <1>4 DEF LastOf
<1> QED
  BY <1>3, <1>4

LEMMA FirstCopied ==
  ASSUME NEW events, IsSequence(events), NEW kind, NEW v,
         FirstOf(events, kind, Len(events), v)
  PROVE  LET rows == {i \in DOMAIN events : events[i].kind = kind}
         IN v = IF rows = {} THEN None
                ELSE Preview(events[CHOOSE i \in rows : \A j \in rows : i <= j].text)
<1> DEFINE rows == {i \in DOMAIN events : events[i].kind = kind}
<1>1. Len(events) \in Nat /\ DOMAIN events = 1 .. Len(events)
  BY SequenceShape
<1>2. CASE rows = {}
  BY <1>1, <1>2 DEF FirstOf
<1>3. CASE rows # {}
  <2>1. PICK i \in rows : v = Preview(events[i].text) /\ \A j \in rows : i <= j
    BY <1>1, <1>3 DEF FirstOf
  <2>2. \A k \in rows : (\A j \in rows : k <= j) => k = i
    BY <1>1, <2>1
  <2> DEFINE least == CHOOSE k \in rows : \A j \in rows : k <= j
  <2>3. least \in rows /\ \A j \in rows : least <= j
    BY <2>1
  <2> HIDE DEF rows, least
  <2>4. least = i
    BY <2>2, <2>3
  <2>5. v = Preview(events[least].text)
    BY <2>1, <2>4
  <2> QED
    BY <1>3, <2>5 DEF least, rows
<1> QED
  BY <1>2, <1>3

LEMMA LastCopied ==
  ASSUME NEW events, IsSequence(events), NEW kind, NEW v,
         LastOf(events, kind, Len(events), v)
  PROVE  LET rows == {i \in DOMAIN events : events[i].kind = kind}
         IN v = IF rows = {} THEN None
                ELSE Preview(events[CHOOSE i \in rows : \A j \in rows : i >= j].text)
<1> DEFINE rows == {i \in DOMAIN events : events[i].kind = kind}
<1>1. Len(events) \in Nat /\ DOMAIN events = 1 .. Len(events)
  BY SequenceShape
<1>2. CASE rows = {}
  BY <1>1, <1>2 DEF LastOf
<1>3. CASE rows # {}
  <2>1. PICK i \in rows : v = Preview(events[i].text) /\ \A j \in rows : i >= j
    BY <1>1, <1>3 DEF LastOf
  <2>2. \A k \in rows : (\A j \in rows : k >= j) => k = i
    BY <1>1, <2>1
  <2> DEFINE greatest == CHOOSE k \in rows : \A j \in rows : k >= j
  <2>3. greatest \in rows /\ \A j \in rows : greatest >= j
    BY <2>1
  <2> HIDE DEF rows, greatest
  <2>4. greatest = i
    BY <2>2, <2>3
  <2>5. v = Preview(events[greatest].text)
    BY <2>1, <2>4
  <2> QED
    BY <1>3, <2>5 DEF greatest, rows
<1> QED
  BY <1>2, <1>3

AggregateFields ==
  {"event_count", "turn_count", "tool_call_count", "error_count", "total_tokens",
   "first_user", "last_assistant", "sort_time"}

Passed(events, none, n, a) ==
  /\ a = [field \in AggregateFields |-> a[field]]
  /\ a.event_count = none.event_count /\ a.turn_count = none.turn_count
  /\ a.sort_time = none.sort_time
  /\ LET calls == {i \in 1 .. n : events[i].kind = "tool_call"}
         errors == {i \in 1 .. n : events[i].error}
     IN /\ IsFiniteSet(calls) /\ a.tool_call_count = Cardinality(calls)
        /\ IsFiniteSet(errors) /\ a.error_count = Cardinality(errors)
  /\ FirstOf(events, "user", n, a.first_user)
  /\ LastOf(events, "assistant", n, a.last_assistant)

LEMMA PassStarts ==
  ASSUME NEW events, NEW session, NEW now
  PROVE  LET none == NoneSeen(events, session, now) IN Passed(events, none, 0, none)
<1> DEFINE none == NoneSeen(events, session, now)
           calls == {i \in 1 .. 0 : events[i].kind = "tool_call"}
           errors == {i \in 1 .. 0 : events[i].error}
<1>1. /\ DOMAIN none = AggregateFields
      /\ none = [field \in AggregateFields |-> none[field]]
      /\ none.tool_call_count = 0 /\ none.error_count = 0
      /\ none.first_user = None /\ none.last_assistant = None
  BY DEF NoneSeen, AggregateFields
<1>2. 1 .. 0 = {} /\ calls = {} /\ errors = {}
  OBVIOUS
<1> HIDE DEF none
<1>3. /\ IsFiniteSet(calls) /\ none.tool_call_count = Cardinality(calls)
      /\ IsFiniteSet(errors) /\ none.error_count = Cardinality(errors)
  BY <1>1, <1>2, FS_EmptySet
<1>4. FirstOf(events, "user", 0, none.first_user) /\ LastOf(events, "assistant", 0, none.last_assistant)
  BY <1>1, <1>2 DEF FirstOf, LastOf
<1> QED
  BY <1>1, <1>3, <1>4 DEF Passed, none

LEMMA PassStep ==
  ASSUME NEW events, NEW none, NEW n \in Nat \ {0}, Preview(events[n].text) # None,
         NEW a, Passed(events, none, n - 1, a)
  PROVE  Passed(events, none, n, EventSeen(a, events[n]))
<1> DEFINE e == events[n]
           b == EventSeen(a, e)
           calls(k) == {i \in 1 .. k : events[i].kind = "tool_call"}
           errors(k) == {i \in 1 .. k : events[i].error}
<1>1. /\ DOMAIN a = AggregateFields
      /\ a.event_count = none.event_count /\ a.turn_count = none.turn_count
      /\ a.sort_time = none.sort_time
      /\ IsFiniteSet(calls(n - 1)) /\ a.tool_call_count = Cardinality(calls(n - 1))
      /\ IsFiniteSet(errors(n - 1)) /\ a.error_count = Cardinality(errors(n - 1))
      /\ FirstOf(events, "user", n - 1, a.first_user)
      /\ LastOf(events, "assistant", n - 1, a.last_assistant)
  BY DEF Passed
<1>2. /\ b.event_count = a.event_count /\ b.turn_count = a.turn_count /\ b.sort_time = a.sort_time
      /\ b.tool_call_count = a.tool_call_count + (IF e.kind = "tool_call" THEN 1 ELSE 0)
      /\ b.first_user = IF e.kind = "user" THEN OrElse(a.first_user, Preview(e.text))
                        ELSE a.first_user
      /\ b.last_assistant = IF e.kind = "assistant" THEN Preview(e.text) ELSE a.last_assistant
  BY <1>1 DEF EventSeen, AggregateFields
<1>3. b.error_count = a.error_count + (IF e.error THEN 1 ELSE 0)
  BY <1>1 DEF EventSeen, AggregateFields
<1>4. b = [field \in AggregateFields |-> b[field]]
  BY <1>1 DEF EventSeen
<1> HIDE DEF b
<1>5. \A i \in 1 .. n : i \in 1 .. (n - 1) \/ i = n
  OBVIOUS
<1>6. n \in 1 .. n /\ n \notin 1 .. (n - 1) /\ \A i \in 1 .. (n - 1) : i \in 1 .. n
  OBVIOUS
<1>7. IsFiniteSet(calls(n)) /\ b.tool_call_count = Cardinality(calls(n))
  <2> DEFINE before == calls(n - 1)
             after == calls(n)
  <2>1. IsFiniteSet(before) /\ a.tool_call_count = Cardinality(before) /\ n \notin before
    BY <1>1, <1>6
  <2>2. after = IF e.kind = "tool_call" THEN before \cup {n} ELSE before
    BY <1>5, <1>6
  <2> HIDE DEF before, after, e
  <2>3. CASE e.kind = "tool_call"
    <3>1. after = before \cup {n} /\ b.tool_call_count = a.tool_call_count + 1
      BY <1>2, <2>2, <2>3
    <3> QED
      BY <2>1, <3>1, OneCounted DEF after
  <2>4. CASE e.kind # "tool_call"
    <3>1. after = before /\ b.tool_call_count = a.tool_call_count + 0
      BY <1>2, <2>2, <2>4
    <3> QED
      BY <2>1, <3>1, SameCounted DEF after
  <2> QED
    BY <2>3, <2>4
<1>8. IsFiniteSet(errors(n)) /\ b.error_count = Cardinality(errors(n))
  <2> DEFINE before == errors(n - 1)
             after == errors(n)
  <2>1. IsFiniteSet(before) /\ a.error_count = Cardinality(before) /\ n \notin before
    BY <1>1, <1>6
  <2>2. after = IF e.error THEN before \cup {n} ELSE before
    BY <1>5, <1>6
  <2> HIDE DEF before, after, e
  <2>3. CASE e.error
    <3>1. after = before \cup {n} /\ b.error_count = a.error_count + 1
      BY <1>3, <2>2, <2>3
    <3> QED
      BY <2>1, <3>1, OneCounted DEF after
  <2>4. CASE ~e.error
    <3>1. after = before /\ b.error_count = a.error_count + 0
      BY <1>3, <2>2, <2>4
    <3> QED
      BY <2>1, <3>1, SameCounted DEF after
  <2> QED
    BY <2>3, <2>4
<1>9. FirstOf(events, "user", n, b.first_user)
  BY <1>1, <1>2, FirstStep
<1>10. LastOf(events, "assistant", n, b.last_assistant)
  BY <1>1, <1>2, LastStep
<1> HIDE DEF e
<1>11. Passed(events, none, n, b)
  BY <1>1, <1>2, <1>4, <1>7, <1>8, <1>9, <1>10 DEF Passed
<1> QED
  BY <1>11 DEF b, e

\* What the pass has stored is what the repair finds in the stored rows.
LEMMA RepairFinds ==
  ASSUME NEW events, Derivable(events), NEW session, NEW now
  PROVE  LET a == Aggregates(events, session, now)
         IN Repaired(a, events, session, now) = a
<1> DEFINE none == NoneSeen(events, session, now)
           a == Aggregates(events, session, now)
           fixed == Repaired(a, events, session, now)
<1>1. Listed(events) /\ IsSequence(events)
  BY DEF Derivable, Listed
<1>2. Len(events) \in Nat /\ DOMAIN events = 1 .. Len(events)
  BY <1>1, SequenceShape
<1>3. PICK pass : /\ pass = [i \in 0 .. Len(events) |->
                               IF i = 0 THEN none ELSE EventSeen(pass[i-1], events[i])]
                  /\ a = pass[Len(events)]
  BY <1>1, AggregatesRead
<1>4. Passed(events, none, Len(events), a)
  <2> DEFINE T == {n \in 0 .. Len(events) : Passed(events, none, n, pass[n])}
  <2> HIDE DEF none, a
  <2>1. 0 \in T
    <3>1. pass[0] = none
      BY <1>2, <1>3
    <3> QED
      BY <1>2, <3>1, PassStarts DEF none
  <2>2. ASSUME NEW n \in 1 .. Len(events), n - 1 \in T PROVE n \in T
    <3>1. n \in Nat \ {0} /\ n \in 0 .. Len(events) /\ n \in DOMAIN events
      BY <1>2
    <3>2. pass[n] = EventSeen(pass[n-1], events[n])
      BY <1>3, <3>1
    <3>3. Passed(events, none, n - 1, pass[n-1]) /\ Preview(events[n].text) # None
      BY <2>2, <3>1 DEF Derivable
    <3> QED
      BY <3>1, <3>2, <3>3, PassStep
  <2>3. T \subseteq 0 .. Len(events)
    OBVIOUS
  <2>4. \A n \in 1 .. Len(events) : n - 1 \in T => n \in T
    BY <2>2
  <2> HIDE DEF T
  <2>5. T = 0 .. Len(events)
    BY <1>2, <2>1, <2>3, <2>4, UpTo
  <2>6. Len(events) \in T
    BY <1>2, <2>5
  <2> QED
    BY <1>3, <2>6 DEF T
<1>5. /\ none.event_count = Len(events)
      /\ none.turn_count = CountOf(events, LAMBDA e : e.kind \in TurnKinds)
      /\ none.sort_time = OrElse(session.ended, OrElse(session.started, now))
  BY DEF NoneSeen
<1> HIDE DEF none, a
<1>6. /\ a.tool_call_count = CountOf(events, LAMBDA e : e.kind = "tool_call")
      /\ a.error_count = CountOf(events, LAMBDA e : e.error)
  BY <1>2, <1>4 DEF Passed, CountOf
<1>7. LET rows == {i \in DOMAIN events : events[i].kind = "user"}
      IN a.first_user = IF rows = {} THEN None
                        ELSE Preview(events[CHOOSE i \in rows : \A j \in rows : i <= j].text)
  BY <1>1, <1>4, FirstCopied DEF Passed
<1>8. LET rows == {i \in DOMAIN events : events[i].kind = "assistant"}
      IN a.last_assistant = IF rows = {} THEN None
                            ELSE Preview(events[CHOOSE i \in rows : \A j \in rows : i >= j].text)
  BY <1>1, <1>4, LastCopied DEF Passed
<1>9. fixed = [a EXCEPT
                 !.event_count = a.event_count, !.turn_count = a.turn_count,
                 !.tool_call_count = a.tool_call_count, !.error_count = a.error_count,
                 !.first_user = a.first_user, !.last_assistant = a.last_assistant,
                 !.sort_time = a.sort_time]
  BY <1>4, <1>5, <1>6, <1>7, <1>8 DEF Repaired, Passed
<1>10. a = [field \in AggregateFields |-> a[field]]
  BY <1>4 DEF Passed
<1> HIDE DEF fixed
<1>11. fixed = a
  BY <1>9, <1>10 DEF AggregateFields
<1> QED
  BY <1>11 DEF fixed, a

(***************************************************************************)
(* What is archived passes the checks of an archive                        *)
(***************************************************************************)
LEMMA CodexReadSound ==
  ASSUME NEW records, Records(records)
  PROVE  \E told : /\ CodexReads(records, told) /\ CodexSound(told)
                   /\ CodexEvents(records) = Unflagged(told.events)
<1> DEFINE T == {n \in 0 .. Len(records) :
                   \E told : CodexReads(SubSeq(records, 1, n), told) /\ CodexSound(told)}
<1>1. IsSequence(records) /\ Len(records) \in Nat /\ DOMAIN records = 1 .. Len(records)
  BY SequenceShape DEF Records
<1>2. /\ SubSeq(records, 1, 0) = <<>> /\ SubSeq(records, 1, Len(records)) = records
      /\ \A n \in 1 .. Len(records) :
           /\ IsSequence(SubSeq(records, 1, n - 1))
           /\ SubSeq(records, 1, n) = Append(SubSeq(records, 1, n - 1), records[n])
  BY <1>1, PrefixGrows
<1>3. 0 \in T
  <2>1. CodexSound(Nothing)
    BY SoundEmpty, EmptySequence DEF CodexSound, Nothing, Complete
  <2>2. CodexReads(SubSeq(records, 1, 0), Nothing)
    BY <1>2, CodexNothing
  <2>3. 0 \in 0 .. Len(records)
    BY <1>1
  <2> QED
    BY <2>1, <2>2, <2>3
<1>4. ASSUME NEW n \in 1 .. Len(records), n - 1 \in T PROVE n \in T
  <2>1. PICK told : CodexReads(SubSeq(records, 1, n - 1), told) /\ CodexSound(told)
    BY <1>4
  <2>2. CodexReads(Append(SubSeq(records, 1, n - 1), records[n]), CodexRecord(told, records[n]))
    BY <1>2, <2>1, CodexMore
  <2>3. CodexReads(SubSeq(records, 1, n), CodexRecord(told, records[n]))
    BY <1>2, <2>2
  <2>4. CodexSound(CodexRecord(told, records[n]))
    BY <1>1, <2>1, CodexRecordSound DEF Records
  <2>5. n \in 0 .. Len(records)
    BY <1>1
  <2> QED
    BY <2>3, <2>4, <2>5
<1>5. T \subseteq 0 .. Len(records)
  OBVIOUS
<1>6. \A n \in 1 .. Len(records) : n - 1 \in T => n \in T
  BY <1>4
<1> HIDE DEF T
<1>7. T = 0 .. Len(records)
  BY <1>1, <1>3, <1>5, <1>6, UpTo
<1>8. Len(records) \in T
  BY <1>1, <1>7
<1>9. PICK told : CodexReads(SubSeq(records, 1, Len(records)), told) /\ CodexSound(told)
  BY <1>8 DEF T
<1>10. CodexReads(records, told)
  BY <1>2, <1>9
<1>11. CodexEvents(records) = Unflagged(told.events)
  BY <1>1, <1>10, CodexRead
<1> QED
  BY <1>9, <1>10, <1>11

LEMMA FileSound ==
  ASSUME NativeInv, ~LiveDatabase
  PROVE  Derivable(ParseFile(agent, native, path).events)
<1>1. agent \in {"claude", "codex", "gemini", "pi"} /\ Records(native)
  BY NormalizeAssumption DEF LiveDatabase, NativeInv
<1>2. Derivable(EventsOf(native, ClaudeEvents)) /\ Derivable(EventsOf(native, PiEvents))
  BY <1>1, SilentRecord, ClaudeGrows, PiGrows
<1>3. Derivable(CodexEvents(native))
  BY <1>1, CodexReadSound, UnflaggedWhole DEF CodexSound, Complete
<1>4. Derivable(GeminiEvents(native))
  <2>1. PICK read : GeminiSound(read) /\ GeminiMessages(native) = read.rows
    BY <1>1, GeminiMessagesRead
  <2> DEFINE rows == read.rows
             f == [i \in DOMAIN rows |-> GeminiMessage(rows[i])]
  <2>2. /\ IsSequence(rows) /\ Len(rows) \in Nat /\ DOMAIN rows = 1 .. Len(rows)
        /\ \A i \in DOMAIN rows : SoundRow(rows[i])
    BY <2>1, SequenceShape DEF GeminiSound
  <2>3. \A i \in DOMAIN f : Derivable(f[i])
    BY <2>2, GeminiMessageTold DEF Complete
  <2>4. f = [i \in 1 .. Len(rows) |-> f[i]]
    BY <2>2
  <2>5. GeminiEvents(native) = FlattenSeq(f)
    BY <2>1 DEF GeminiEvents, EventsOf
  <2> HIDE DEF f
  <2>6. IsSequence(f)
    BY <2>2, <2>4, SequenceOf
  <2> QED
    BY <2>3, <2>5, <2>6, SoundFlat
<1>5. CASE agent = "claude"
  BY <1>2, <1>5 DEF ParseFile
<1>6. CASE agent = "pi"
  BY <1>2, <1>6 DEF ParseFile
<1>7. CASE agent = "codex"
  BY <1>3, <1>7 DEF ParseFile
<1>8. CASE agent = "gemini"
  BY <1>4, <1>8 DEF ParseFile
<1> QED
  BY <1>1, <1>5, <1>6, <1>7, <1>8

LEMMA OpenCodeSound ==
  ASSUME NativeInv, LiveDatabase
  PROVE  Derivable(OpenCodeEvents(native))
<1> DEFINE events == OpenCodeEvents(native)
           made(p) == [EventOf(p.fact.kind, p.fact) EXCEPT !.error = FALSE]
<1>1. IsSequence(native.parts)
  BY DEF NativeInv, OpenCodeInv, Database
<1>2. /\ IsSequence(events)
      /\ \A i \in DOMAIN events : \E k \in DOMAIN native.parts : events[i] = made(native.parts[k])
  BY <1>1, OpenCodeRead
<1>3. \A p : made(p).tasks = p.fact.tasks /\ made(p).text = p.fact.text
  BY DEF EventOf
<1> HIDE DEF events, made
<1>4. Derivable(events)
  BY <1>2, <1>3 DEF Derivable, NativeInv, PartsSound
<1> QED
  BY <1>4 DEF events

ArchivedRight ==
  archived # None =>
    /\ Derivable(archived.events)
    /\ archived.spans = DeriveSpans(archived.events)
    /\ archived.aggregates = Aggregates(archived.events, archived.times, 0)

AcceptInv ==
  NativeInv /\ ArchivedRight /\ (reading # None => Derivable(reading.events))

LEMMA NormalizedRight ==
  ASSUME NEW parsed, NEW print, NEW copies, Derivable(parsed.events),
         archived' = Normalized(parsed, print, copies)
  PROVE  ArchivedRight'
  BY DEF ArchivedRight, Normalized

LEMMA AcceptStep ==
  ASSUME AcceptInv, [NormalizeNext]_normalizeVars
  PROVE  AcceptInv'
<1>1. NativeInv'
  BY NativeStep DEF AcceptInv
<1>2. NativeInv /\ ArchivedRight /\ (reading # None => Derivable(reading.events))
  BY DEF AcceptInv
<1>3. CASE IngestFile
  <2>1. /\ ~LiveDatabase /\ reading' = reading
        /\ archived' = Normalized(ParseFile(agent, native, path), native, None)
    BY <1>3 DEF IngestFile
  <2> QED
    BY <1>1, <1>2, <2>1, FileSound, NormalizedRight DEF AcceptInv
<1>4. CASE Reads
  <2>1. LiveDatabase /\ archived' = archived
    BY <1>2, <1>4 DEF Reads, Discover, ReadRow, ReadEvents, ReadMessages, ReadParts, CopyMessages,
                     CopyParts, Read, NativeInv, OpenCodeInv
  <2>2. reading # None => DOMAIN reading = ReadingFields
    BY <1>2, <2>1 DEF NativeInv, OpenCodeInv, Database
  <2>3. Derivable(<<>>) /\ Derivable(OpenCodeEvents(native))
    BY <1>2, <2>1, SoundEmpty, OpenCodeSound
  <2>4. \/ reading'.events \in {<<>>, OpenCodeEvents(native)}
        \/ reading # None /\ reading'.events = reading.events
    <3>1. CASE Discover
      BY <3>1 DEF Discover, Fresh
    <3>2. CASE ReadEvents
      BY <2>2, <3>2 DEF ReadEvents, Read, ReadingFields
    <3>3. CASE ReadRow \/ ReadMessages \/ ReadParts \/ CopyMessages \/ CopyParts
      BY <2>2, <3>3 DEF ReadRow, ReadMessages, ReadParts, CopyMessages, CopyParts, Read,
                        ReadingFields
    <3> QED
      BY <1>4, <3>1, <3>2, <3>3 DEF Reads
  <2> QED
    BY <1>1, <1>2, <2>1, <2>3, <2>4 DEF AcceptInv, ArchivedRight
<1>5. CASE Store
  <2> DEFINE parsed == [session |-> Alone("own"), events |-> reading.events,
                        times |-> [started |-> 0, ended |-> reading.updated]]
             copies == [messages |-> reading.messages, parts |-> reading.parts,
                        bundled |-> reading.bundled, bundle |-> reading.bundle,
                        backup |-> native]
  <2>1. /\ reading # None /\ reading' = None
        /\ archived' = Normalized(parsed, reading.print, copies)
    BY <1>5 DEF Store
  <2>2. Derivable(parsed.events)
    BY <1>2, <2>1
  <2> HIDE DEF parsed, copies
  <2>3. ArchivedRight'
    BY <2>1, <2>2, NormalizedRight
  <2> QED
    BY <1>1, <2>1, <2>3 DEF AcceptInv
<1>6. CASE UNCHANGED <<reading, archived>>
  BY <1>1, <1>2, <1>6 DEF AcceptInv, ArchivedRight
<1>7. IngestFile \/ Reads \/ Store \/ UNCHANGED <<reading, archived>>
  BY DEF NormalizeNext, normalizeVars, Reads, Say, OpenMessage, AddPart, FinishPart
<1> QED
  BY <1>3, <1>4, <1>5, <1>6, <1>7

\* No verification fails for what a parser makes of what an agent wrote, and the
\* repair of the aggregates finds what is stored: of every agent and vocabulary, and
\* also of agents that break what their parser relies on.
THEOREM ChecksAcceptAlways == NormalizeSpec => []ChecksAccept
<1>1. NormalizeInit => AcceptInv
  <2>1. NormalizeInit => reading = None /\ archived = None
    BY DEF NormalizeInit
  <2> QED
    BY <2>1, NativeStarts DEF AcceptInv, ArchivedRight
<1>2. AcceptInv /\ [NormalizeNext]_normalizeVars => AcceptInv'
  BY AcceptStep
<1>3. AcceptInv => ChecksAccept
  <2> SUFFICES ASSUME AcceptInv, archived # None
               PROVE  /\ EventsReferenceSpans(archived.events, archived.spans)
                      /\ ParentsExist(archived.spans)
                      /\ RangesInSession(archived.events, archived.spans)
                      /\ Repaired(archived.aggregates, archived.events, archived.times, 0)
                           = archived.aggregates
    BY DEF ChecksAccept
  <2>1. /\ Derivable(archived.events) /\ archived.spans = DeriveSpans(archived.events)
        /\ archived.aggregates = Aggregates(archived.events, archived.times, 0)
    BY DEF AcceptInv, ArchivedRight
  <2>2. Listed(archived.events) /\ DOMAIN archived.events = 1 .. Len(archived.events)
    BY <2>1, SequenceShape DEF Derivable, Listed
  <2>3. /\ SpansBelow(archived.spans, Len(archived.events))
        /\ CallsSpanned(archived.spans, archived.events, Len(archived.events))
    BY <2>1, <2>2, SpansDerived
  <2>4. Repaired(archived.aggregates, archived.events, archived.times, 0) = archived.aggregates
    BY <2>1, RepairFinds
  <2>5. EventsReferenceSpans(archived.events, archived.spans)
    BY <2>2, <2>3 DEF EventsReferenceSpans, CallsSpanned
  <2> QED
    BY <2>3, <2>4, <2>5 DEF SpansBelow, ParentsExist, RangesInSession
<1> QED
  BY <1>1, <1>2, <1>3, PTL DEF NormalizeSpec

(***************************************************************************)
(* What is known of a span stays                                           *)
(***************************************************************************)
SpansKept(old, new) ==
  /\ DOMAIN old \subseteq DOMAIN new
  /\ \A id \in DOMAIN old :
       /\ SpanKept(old[id], new[id])
       /\ id[1] = "call" /\ old[id].status # "active" => new[id].status # "active"

LEMMA SpansKeptOn ==
  ASSUME NEW a, NEW b, NEW c, NEW k \in Nat, NEW m \in Nat, NEW n \in Nat,
         SpansBelow(a, k), SpansBelow(b, m), SpansBelow(c, n), SpansKept(a, b), SpansKept(b, c)
  PROVE  SpansKept(a, c)
<1>1. DOMAIN a \subseteq DOMAIN b /\ DOMAIN b \subseteq DOMAIN c
  BY DEF SpansKept
<1>2. ASSUME NEW id \in DOMAIN a PROVE SpanKept(a[id], c[id])
  <2>1. SpanKept(a[id], b[id]) /\ SpanKept(b[id], c[id])
    BY <1>1 DEF SpansKept
  <2>2. /\ a[id].last # None => a[id].last \in Int
        /\ b[id].last # None => b[id].last \in Int
        /\ c[id].last # None => c[id].last \in Int
    BY <1>1 DEF SpansBelow
  <2> QED
    BY <2>1, <2>2 DEF SpanKept
<1>3. ASSUME NEW id \in DOMAIN a, id[1] = "call", a[id].status # "active"
      PROVE  c[id].status # "active"
  BY <1>1, <1>3 DEF SpansKept
<1> QED
  BY <1>1, <1>2, <1>3 DEF SpansKept

LEMMA SpansKeptSame ==
  ASSUME NEW spans, NEW n \in Nat, SpansBelow(spans, n)
  PROVE  SpansKept(spans, spans)
<1>1. ASSUME NEW id \in DOMAIN spans PROVE SpanKept(spans[id], spans[id])
  <2>1. spans[id].last # None => spans[id].last \in Int
    BY DEF SpansBelow
  <2> QED
    BY <2>1 DEF SpanKept
<1> QED
  BY <1>1 DEF SpansKept

\* One span is put in the place of the one before it.
LEMMA OnePut ==
  ASSUME NEW spans, NEW n \in Nat, SpansBelow(spans, n), NEW id, NEW span,
         id \in DOMAIN spans =>
           /\ SpanKept(spans[id], span)
           /\ id[1] = "call" /\ spans[id].status # "active" => span.status # "active"
  PROVE  SpansKept(spans, Put(spans, id, span))
<1> DEFINE new == Put(spans, id, span)
<1>1. /\ DOMAIN new = DOMAIN spans \cup {id} /\ new[id] = span
      /\ \A x \in DOMAIN spans : x # id => new[x] = spans[x]
  BY DEF Put
<1>2. SpansKept(spans, spans)
  BY SpansKeptSame
<1> HIDE DEF new
<1>3. ASSUME NEW x \in DOMAIN spans
      PROVE  /\ SpanKept(spans[x], new[x])
             /\ x[1] = "call" /\ spans[x].status # "active" => new[x].status # "active"
  <2>1. CASE x = id
    BY <1>1, <2>1
  <2>2. CASE x # id
    BY <1>1, <1>2, <2>2 DEF SpansKept
  <2> QED
    BY <2>1, <2>2
<1>4. SpansKept(spans, new)
  BY <1>1, <1>3 DEF SpansKept
<1> QED
  BY <1>4 DEF new

LEMMA TaskKeeps ==
  ASSUME NEW spans, NEW e, NEW idx \in Nat, NEW i, SpansBelow(spans, idx + 1)
  PROVE  SpansKept(spans, TaskPut(spans, e, idx, i))
<1> DEFINE task == e.tasks[i]
           id == TaskId(task)
           span == TaskSpan(spans, e, idx, task)
<1>1. id[1] # "call"
  BY DEF TaskId
<1>2. ASSUME id \in DOMAIN spans PROVE SpanKept(spans[id], span)
  <2> DEFINE old == spans[id]
             told == [old EXCEPT !.status = IF task.status = None THEN @ ELSE task.status]
  <2>1. /\ DOMAIN old = SpanFields /\ old.first \in 0 .. idx
        /\ old.last # None => old.last \in Int /\ idx >= old.last
    BY <1>2 DEF SpansBelow
  <2>2. span = IF task.status \in {None, "active"} THEN told
               ELSE [told EXCEPT !.ended = e.time, !.last = idx]
    BY <1>2 DEF TaskSpan, At
  <2> HIDE DEF old, span
  <2>3. /\ DOMAIN told = SpanFields /\ told.parent = old.parent /\ told.first = old.first
        /\ told.last = old.last /\ told.kind = old.kind /\ told.started = old.started
    BY <2>1 DEF SpanFields
  <2> HIDE DEF told
  <2>4. /\ span.parent = old.parent /\ span.first = old.first /\ span.kind = old.kind
        /\ span.started = old.started /\ span.last \in {old.last, idx}
    BY <2>2, <2>3 DEF SpanFields
  <2>5. old.last # None => span.last # None /\ span.last >= old.last
    BY <2>1, <2>4, ProjectionAssumption
  <2>6. SpanKept(old, span)
    BY <2>4, <2>5 DEF SpanKept
  <2> QED
    BY <2>6 DEF old
<1> HIDE DEF id, span
<1>3. SpansKept(spans, Put(spans, id, span))
  BY <1>1, <1>2, OnePut
<1> QED
  BY <1>3 DEF id, span, TaskPut

LEMMA TasksKeep ==
  ASSUME NEW spans, NEW e, IsSequence(e.tasks), NEW idx \in Nat,
         SpansBelow(spans, idx + 1), CallId(e) \in DOMAIN spans
  PROVE  SpansKept(spans, AddTasks(spans, e, idx))
<1>1. PICK add : /\ add = [i \in 0 .. Len(e.tasks) |->
                             IF i = 0 THEN spans ELSE TaskPut(add[i-1], e, idx, i)]
                 /\ AddTasks(spans, e, idx) = add[Len(e.tasks)]
  BY TasksRead
<1>2. Len(e.tasks) \in Nat /\ idx + 1 \in Nat
  BY SequenceShape
<1> DEFINE T == {n \in 0 .. Len(e.tasks) :
                   /\ SpansBelow(add[n], idx + 1) /\ CallId(e) \in DOMAIN add[n]
                   /\ SpansKept(spans, add[n])}
<1>3. 0 \in T
  <2>1. add[0] = spans
    BY <1>1, <1>2
  <2> QED
    BY <1>2, <2>1, SpansKeptSame
<1>4. ASSUME NEW n \in 1 .. Len(e.tasks), n - 1 \in T PROVE n \in T
  <2>1. /\ SpansBelow(add[n-1], idx + 1) /\ CallId(e) \in DOMAIN add[n-1]
        /\ SpansKept(spans, add[n-1])
    BY <1>4
  <2>2. n \in 0 .. Len(e.tasks) /\ n # 0
    BY <1>2
  <2>3. add[n] = TaskPut(add[n-1], e, idx, n)
    BY <1>1, <2>2
  <2>4. SpansBelow(add[n], idx + 1) /\ SpansKept(add[n-1], add[n])
    BY <2>1, <2>3, TaskAdded, TaskKeeps DEF TaskPut
  <2>5. SpansKept(spans, add[n]) /\ CallId(e) \in DOMAIN add[n]
    <3>1. SpansKept(spans, add[n])
      BY <1>2, <2>1, <2>4, SpansKeptOn
    <3> QED
      BY <2>1, <2>4, <3>1 DEF SpansKept
  <2> QED
    BY <2>2, <2>4, <2>5
<1>5. T \subseteq 0 .. Len(e.tasks)
  OBVIOUS
<1>6. \A n \in 1 .. Len(e.tasks) : n - 1 \in T => n \in T
  BY <1>4
<1> HIDE DEF T
<1>7. T = 0 .. Len(e.tasks)
  BY <1>2, <1>3, <1>5, <1>6, UpTo
<1>8. Len(e.tasks) \in T
  BY <1>2, <1>7
<1> QED
  BY <1>1, <1>8 DEF T

LEMMA CallKeeps ==
  ASSUME NEW spans, NEW e, NEW idx \in Nat, SpansBelow(spans, idx)
  PROVE  SpansKept(spans, Put(spans, CallId(e), CallSpan(spans, e, idx)))
<1> DEFINE id == CallId(e)
           span == CallSpan(spans, e, idx)
<1>1. ASSUME id \in DOMAIN spans
      PROVE  /\ SpanKept(spans[id], span)
             /\ spans[id].status # "active" => span.status # "active"
  <2> DEFINE old == spans[id]
             seen == [old EXCEPT !.kind = IF e.delegates THEN "delegation" ELSE @,
                                 !.started = OrElse(@, e.time)]
  <2>1. /\ DOMAIN old = SpanFields /\ old.first \in 0 .. idx - 1
        /\ old.last # None => old.last \in Int /\ idx >= old.last
    BY <1>1 DEF SpansBelow
  <2>2. span = IF e.kind = "tool_result"
               THEN [seen EXCEPT !.ended = e.time, !.last = idx,
                                 !.status = IF e.error THEN "failed" ELSE "completed"]
               ELSE seen
    BY <1>1 DEF CallSpan, At
  <2> HIDE DEF old, span
  <2>3. /\ DOMAIN seen = SpanFields /\ seen.parent = old.parent /\ seen.first = old.first
        /\ seen.last = old.last /\ seen.kind \in {"delegation", old.kind}
        /\ seen.started = OrElse(old.started, e.time) /\ seen.status = old.status
    BY <2>1 DEF SpanFields
  <2> HIDE DEF seen
  <2>4. /\ span.parent = old.parent /\ span.first = old.first
        /\ span.kind \in {"delegation", old.kind}
        /\ span.started = OrElse(old.started, e.time) /\ span.last \in {old.last, idx}
        /\ span.status \in {old.status, "failed", "completed"}
    BY <2>2, <2>3 DEF SpanFields
  <2>5. old.last # None => span.last # None /\ span.last >= old.last
    BY <2>1, <2>4, ProjectionAssumption
  <2>6. SpanKept(old, span)
    BY <2>4, <2>5 DEF SpanKept, OrElse
  <2> QED
    BY <2>4, <2>6 DEF old
<1> HIDE DEF id, span
<1>2. SpansKept(spans, Put(spans, id, span))
  BY <1>1, OnePut
<1> QED
  BY <1>2 DEF id, span

LEMMA EventKeeps ==
  ASSUME NEW spans, NEW e, IsSequence(e.tasks), NEW n \in Nat \ {0}, SpansBelow(spans, n - 1)
  PROVE  SpansBelow(EventPut(spans, e, n), n) /\ SpansKept(spans, EventPut(spans, e, n))
<1> DEFINE idx == n - 1
           mid == Put(spans, CallId(e), CallSpan(spans, e, idx))
           new == AddTasks(mid, e, idx)
<1>1. idx \in Nat /\ n \in Nat /\ idx + 1 = n
  OBVIOUS
<1>2. SpansBelow(spans, idx)
  OBVIOUS
<1> HIDE DEF idx
<1>3. SpansBelow(mid, idx + 1) /\ CallId(e) \in DOMAIN mid
  <2>1. CallGoes(spans, e, idx, mid)
    BY <1>1, <1>2, CallAdded
  <2> HIDE DEF mid
  <2> QED
    BY <2>1 DEF CallGoes
<1>4. SpansKept(spans, mid)
  BY <1>1, <1>2, CallKeeps
<1> HIDE DEF mid
<1>5. SpansBelow(new, idx + 1) /\ SpansKept(mid, new)
  BY <1>1, <1>3, TasksAdded, TasksKeep
<1> HIDE DEF new
<1>6. SpansKept(spans, new)
  BY <1>1, <1>2, <1>3, <1>4, <1>5, SpansKeptOn
<1>7. CASE InSpan(e)
  <2>1. EventPut(spans, e, n) = new
    BY <1>7 DEF EventPut, new, mid, idx
  <2> QED
    BY <1>1, <1>5, <1>6, <2>1
<1>8. CASE ~InSpan(e)
  <2>1. EventPut(spans, e, n) = spans
    BY <1>8 DEF EventPut
  <2>2. SpansBelow(spans, n)
    BY DEF SpansBelow
  <2> QED
    BY <1>1, <2>1, <2>2, SpansKeptSame
<1> QED
  BY <1>7, <1>8

(***************************************************************************)
(* What grows                                                              *)
(***************************************************************************)
\* The same event: of a call of OpenCode's, told again with its state.
Same(e, f) ==
  /\ f.of = e.of /\ f.kind = e.kind /\ f.call = e.call /\ f.delegates = e.delegates
  /\ f.tasks = e.tasks /\ f.error = e.error /\ f.time = e.time

Grown(old, new) ==
  /\ IsSequence(old) /\ IsSequence(new) /\ Len(old) <= Len(new)
  /\ \A i \in 1 .. Len(old) : Same(old[i], new[i])

LEMMA GrownExtends ==
  ASSUME NEW old, NEW new, IsSequence(old), IsSequence(new), Extends(old, new)
  PROVE  Grown(old, new)
  BY DEF Grown, Extends, Same

LEMMA GrownOn ==
  ASSUME NEW a, NEW b, NEW c, Grown(a, b), Grown(b, c)
  PROVE  Grown(a, c)
<1>1. Len(a) \in Nat /\ Len(b) \in Nat /\ Len(c) \in Nat
  BY SequenceShape DEF Grown
<1>2. Len(a) <= Len(b) /\ Len(b) <= Len(c)
  BY DEF Grown
<1>3. ASSUME NEW i \in 1 .. Len(a) PROVE Same(a[i], c[i])
  <2>1. i \in 1 .. Len(b)
    BY <1>1, <1>2
  <2>2. Same(a[i], b[i]) /\ Same(b[i], c[i])
    BY <2>1 DEF Grown
  <2> QED
    BY <2>2 DEF Same
<1> QED
  BY <1>1, <1>2, <1>3 DEF Grown

LEMMA SameTasks ==
  ASSUME NEW e, NEW f, Same(e, f), IsSequence(e.tasks), NEW spans, NEW idx
  PROVE  AddTasks(spans, e, idx) = AddTasks(spans, f, idx)
<1>1. f.tasks = e.tasks /\ CallId(f) = CallId(e) /\ f.time = e.time
  BY DEF Same, CallId
<1>2. PICK a : /\ a = [i \in 0 .. Len(e.tasks) |-> IF i = 0 THEN spans ELSE TaskPut(a[i-1], e, idx, i)]
               /\ AddTasks(spans, e, idx) = a[Len(e.tasks)]
  BY TasksRead
<1>3. PICK b : /\ b = [i \in 0 .. Len(e.tasks) |-> IF i = 0 THEN spans ELSE TaskPut(b[i-1], f, idx, i)]
               /\ AddTasks(spans, f, idx) = b[Len(e.tasks)]
  <2>1. IsSequence(f.tasks)
    BY <1>1
  <2>2. \E b : /\ b = [i \in 0 .. Len(f.tasks) |->
                         IF i = 0 THEN spans ELSE TaskPut(b[i-1], f, idx, i)]
               /\ AddTasks(spans, f, idx) = b[Len(f.tasks)]
    BY <2>1, TasksRead
  <2> QED
    BY <1>1, <2>2
<1>4. \A x, i : TaskPut(x, f, idx, i) = TaskPut(x, e, idx, i)
  BY <1>1 DEF TaskPut, TaskSpan, NewSpan
<1>5. Len(e.tasks) \in Nat
  BY SequenceShape
<1> DEFINE T == {n \in 0 .. Len(e.tasks) : a[n] = b[n]}
<1>6. 0 \in T
  <2>1. 0 \in 0 .. Len(e.tasks)
    BY <1>5
  <2>2. a[0] = spans /\ b[0] = spans
    BY <1>2, <1>3, <2>1
  <2> QED
    BY <2>1, <2>2
<1>7. ASSUME NEW n \in 1 .. Len(e.tasks), n - 1 \in T PROVE n \in T
  <2>1. n \in 0 .. Len(e.tasks) /\ n # 0
    BY <1>5
  <2>2. a[n] = TaskPut(a[n-1], e, idx, n) /\ b[n] = TaskPut(b[n-1], f, idx, n)
    BY <1>2, <1>3, <2>1
  <2>3. a[n-1] = b[n-1]
    BY <1>7
  <2> QED
    BY <1>4, <2>1, <2>2, <2>3
<1>8. T \subseteq 0 .. Len(e.tasks)
  OBVIOUS
<1>9. \A n \in 1 .. Len(e.tasks) : n - 1 \in T => n \in T
  BY <1>7
<1> HIDE DEF T
<1>10. T = 0 .. Len(e.tasks)
  BY <1>5, <1>6, <1>8, <1>9, UpTo
<1>11. Len(e.tasks) \in T
  BY <1>5, <1>10
<1> QED
  BY <1>2, <1>3, <1>11 DEF T

LEMMA SamePut ==
  ASSUME NEW e, NEW f, Same(e, f), IsSequence(e.tasks), NEW spans, NEW i
  PROVE  EventPut(spans, e, i) = EventPut(spans, f, i)
<1>1. InSpan(e) <=> InSpan(f)
  BY DEF Same, InSpan
<1>2. CallId(f) = CallId(e)
  BY DEF Same, CallId
<1>3. CallSpan(spans, f, i - 1) = CallSpan(spans, e, i - 1)
  BY <1>2 DEF CallSpan, Same, NewSpan
<1> DEFINE mid == Put(spans, CallId(e), CallSpan(spans, e, i - 1))
<1>4. AddTasks(mid, e, i - 1) = AddTasks(mid, f, i - 1)
  BY SameTasks
<1>5. EventPut(spans, e, i) = IF InSpan(e) THEN AddTasks(mid, e, i - 1) ELSE spans
  BY DEF EventPut
<1>6. EventPut(spans, f, i) = IF InSpan(f) THEN AddTasks(mid, f, i - 1) ELSE spans
  BY <1>2, <1>3 DEF EventPut
<1> HIDE DEF mid
<1> QED
  BY <1>1, <1>4, <1>5, <1>6

\* The spans of a session that grows.
LEMMA SpansGrow ==
  ASSUME NEW old, NEW new, Listed(old), Listed(new), Grown(old, new)
  PROVE  SpansKept(DeriveSpans(old), DeriveSpans(new))
<1>1. /\ Len(old) \in Nat /\ DOMAIN old = 1 .. Len(old)
      /\ Len(new) \in Nat /\ DOMAIN new = 1 .. Len(new) /\ Len(old) <= Len(new)
  BY SequenceShape DEF Listed, Grown
<1>2. PICK a : /\ a = [i \in 0 .. Len(old) |->
                         IF i = 0 THEN NoSpans ELSE EventPut(a[i-1], old[i], i)]
               /\ DeriveSpans(old) = a[Len(old)]
  BY SpansRead
<1>3. PICK b : /\ b = [i \in 0 .. Len(new) |->
                         IF i = 0 THEN NoSpans ELSE EventPut(b[i-1], new[i], i)]
               /\ DeriveSpans(new) = b[Len(new)]
  BY SpansRead
<1>4. 0 \in 0 .. Len(old) /\ 0 \in 0 .. Len(new) /\ a[0] = NoSpans /\ b[0] = NoSpans
  <2>1. 0 \in 0 .. Len(old) /\ 0 \in 0 .. Len(new)
    BY <1>1
  <2> QED
    BY <1>2, <1>3, <2>1
<1>5. SpansBelow(NoSpans, 0)
  BY DEF NoSpans, SpansBelow
<1>6. \A n \in 1 .. Len(new) : /\ n \in 0 .. Len(new) /\ n \in Nat \ {0} /\ n # 0
                               /\ IsSequence(new[n].tasks)
  BY <1>1 DEF Listed
<1>7. \A n \in 1 .. Len(new) : b[n] = EventPut(b[n-1], new[n], n)
  BY <1>3, <1>6
<1>8. \A n \in 1 .. Len(old) : a[n] = EventPut(a[n-1], old[n], n)
  <2>1. \A n \in 1 .. Len(old) : n \in 0 .. Len(old) /\ n # 0
    BY <1>1
  <2> QED
    BY <1>2, <2>1
<1> DEFINE T == {n \in 0 .. Len(old) : a[n] = b[n]}
           U == {n \in 0 .. Len(new) :
                   SpansBelow(b[n], n) /\ (n >= Len(old) => SpansKept(b[Len(old)], b[n]))}
<1>9. Len(old) \in T
  <2>1. 0 \in T /\ T \subseteq 0 .. Len(old)
    BY <1>4
  <2>2. ASSUME NEW n \in 1 .. Len(old), n - 1 \in T PROVE n \in T
    <3>1. n \in 1 .. Len(new) /\ n \in 0 .. Len(old) /\ n \in DOMAIN old
      BY <1>1
    <3>2. Same(old[n], new[n]) /\ IsSequence(old[n].tasks)
      BY <3>1 DEF Grown, Listed
    <3>3. a[n] = EventPut(a[n-1], old[n], n) /\ b[n] = EventPut(b[n-1], new[n], n)
      BY <1>7, <1>8, <3>1
    <3>4. a[n-1] = b[n-1]
      BY <2>2
    <3>5. a[n] = b[n]
      BY <3>2, <3>3, <3>4, SamePut
    <3> QED
      BY <3>1, <3>5
  <2>3. \A n \in 1 .. Len(old) : n - 1 \in T => n \in T
    BY <2>2
  <2> HIDE DEF T
  <2>4. T = 0 .. Len(old)
    BY <1>1, <2>1, <2>3, UpTo
  <2> QED
    BY <1>1, <2>4
<1>10. Len(new) \in U
  <2>1. 0 \in U
    <3>1. 0 >= Len(old) => Len(old) = 0
      BY <1>1
    <3>2. SpansKept(NoSpans, NoSpans)
      BY <1>5, SpansKeptSame
    <3> QED
      BY <1>4, <1>5, <3>1, <3>2
  <2>2. ASSUME NEW n \in 1 .. Len(new), n - 1 \in U PROVE n \in U
    <3>1. SpansBelow(b[n-1], n - 1) /\ (n - 1 >= Len(old) => SpansKept(b[Len(old)], b[n-1]))
      BY <2>2
    <3>2. SpansBelow(b[n], n) /\ SpansKept(b[n-1], b[n])
      BY <1>6, <1>7, <3>1, EventKeeps
    <3>3. n \in Nat /\ n - 1 \in Nat /\ n \in 0 .. Len(new)
      BY <1>1
    <3>4. ASSUME n >= Len(old) PROVE SpansKept(b[Len(old)], b[n])
      <4>1. CASE n = Len(old)
        BY <3>2, <3>3, <4>1, SpansKeptSame
      <4>2. CASE n # Len(old)
        <5>1. n - 1 >= Len(old) /\ Len(old) \in Nat
          <6>1. Len(old) \in Nat /\ n \in Nat
            BY <1>1, <3>3
          <6> QED
            BY <3>4, <4>2, <6>1
        <5>2. SpansBelow(b[Len(old)], Len(old))
          BY <1>1, <1>2, <1>9, SpansDerived
        <5> QED
          BY <3>1, <3>2, <3>3, <5>1, <5>2, SpansKeptOn
      <4> QED
        BY <4>1, <4>2
    <3> QED
      BY <3>2, <3>3, <3>4
  <2>3. U \subseteq 0 .. Len(new)
    OBVIOUS
  <2>4. \A n \in 1 .. Len(new) : n - 1 \in U => n \in U
    BY <2>2
  <2> HIDE DEF U
  <2>5. U = 0 .. Len(new)
    BY <1>1, <2>1, <2>3, <2>4, UpTo
  <2> QED
    BY <1>1, <2>5
<1>11. a[Len(old)] = b[Len(old)] /\ SpansKept(b[Len(old)], b[Len(new)])
  BY <1>1, <1>9, <1>10
<1> QED
  BY <1>2, <1>3, <1>11

(***************************************************************************)
(* The events of a file that grows                                         *)
(***************************************************************************)
LEMMA JoinExtends ==
  ASSUME NEW s, NEW t, IsSequence(s), IsSequence(t)
  PROVE  IsSequence(s \o t) /\ Extends(s, s \o t)
<1>1. Len(s) \in Nat /\ Len(t) \in Nat
  BY SequenceShape
<1> QED
  BY <1>1, Joined DEF Extends

LEMMA ExtendsOn ==
  ASSUME NEW a, NEW b, NEW c, IsSequence(a), IsSequence(b), IsSequence(c),
         Extends(a, b), Extends(b, c)
  PROVE  Extends(a, c)
<1>1. Len(a) \in Nat /\ Len(b) \in Nat /\ Len(c) \in Nat
  BY SequenceShape
<1>2. Len(a) <= Len(b) /\ Len(b) <= Len(c)
  BY DEF Extends
<1>3. ASSUME NEW i \in 1 .. Len(a) PROVE c[i] = a[i]
  <2>1. i \in 1 .. Len(b)
    BY <1>1, <1>2
  <2> QED
    BY <2>1 DEF Extends
<1> QED
  BY <1>1, <1>2, <1>3 DEF Extends

LEMMA FlatGrows ==
  ASSUME NEW f, NEW g, AllSequences(f), AllSequences(g), Extends(f, g)
  PROVE  Extends(FlattenSeq(f), FlattenSeq(g))
<1>1. /\ Len(f) \in Nat /\ DOMAIN f = 1 .. Len(f) /\ Len(g) \in Nat /\ DOMAIN g = 1 .. Len(g)
      /\ Len(f) <= Len(g)
  BY SequenceShape DEF AllSequences, Extends
<1>2. PICK a : /\ a = [i \in 0 .. Len(f) |-> IF i = 0 THEN <<>> ELSE a[i-1] \o f[i]]
               /\ FlattenSeq(f) = a[Len(f)]
  BY Flattened
<1>3. PICK b : /\ b = [i \in 0 .. Len(g) |-> IF i = 0 THEN <<>> ELSE b[i-1] \o g[i]]
               /\ FlattenSeq(g) = b[Len(g)]
  BY Flattened
<1>4. 0 \in 0 .. Len(f) /\ 0 \in 0 .. Len(g) /\ a[0] = <<>> /\ b[0] = <<>>
  <2>1. 0 \in 0 .. Len(f) /\ 0 \in 0 .. Len(g)
    BY <1>1
  <2> QED
    BY <1>2, <1>3, <2>1
<1>5. \A n \in 1 .. Len(g) : n \in 0 .. Len(g) /\ n \in Nat \ {0} /\ n # 0 /\ IsSequence(g[n])
  BY <1>1 DEF AllSequences
<1>6. \A n \in 1 .. Len(g) : b[n] = b[n-1] \o g[n]
  BY <1>3, <1>5
<1>7. \A n \in 1 .. Len(f) : a[n] = a[n-1] \o f[n]
  <2>1. \A n \in 1 .. Len(f) : n \in 0 .. Len(f) /\ n # 0
    BY <1>1
  <2> QED
    BY <1>2, <2>1
<1> DEFINE T == {n \in 0 .. Len(f) : a[n] = b[n]}
           U == {n \in 0 .. Len(g) :
                   IsSequence(b[n]) /\ (n >= Len(f) => Extends(b[Len(f)], b[n]))}
<1>8. Len(f) \in T
  <2>1. 0 \in T /\ T \subseteq 0 .. Len(f)
    BY <1>4
  <2>2. ASSUME NEW n \in 1 .. Len(f), n - 1 \in T PROVE n \in T
    <3>1. n \in 1 .. Len(g) /\ n \in 0 .. Len(f)
      BY <1>1
    <3>2. g[n] = f[n] /\ a[n] = a[n-1] \o f[n] /\ b[n] = b[n-1] \o g[n]
      BY <1>6, <1>7, <3>1 DEF Extends
    <3>3. a[n-1] = b[n-1]
      BY <2>2
    <3> QED
      BY <3>1, <3>2, <3>3
  <2>3. \A n \in 1 .. Len(f) : n - 1 \in T => n \in T
    BY <2>2
  <2> HIDE DEF T
  <2>4. T = 0 .. Len(f)
    BY <1>1, <2>1, <2>3, UpTo
  <2> QED
    BY <1>1, <2>4
<1>9. Len(g) \in U
  <2>1. 0 \in U
    <3>1. 0 >= Len(f) => Len(f) = 0
      BY <1>1
    <3>2. IsSequence(<<>>) /\ Extends(<<>>, <<>>)
      BY EmptySequence DEF Extends
    <3> QED
      BY <1>4, <3>1, <3>2
  <2>2. ASSUME NEW n \in 1 .. Len(g), n - 1 \in U PROVE n \in U
    <3>1. IsSequence(b[n-1]) /\ (n - 1 >= Len(f) => Extends(b[Len(f)], b[n-1]))
      BY <2>2
    <3>2. IsSequence(b[n]) /\ Extends(b[n-1], b[n])
      BY <1>5, <1>6, <3>1, JoinExtends
    <3>3. n \in Nat /\ n - 1 \in Nat /\ n \in 0 .. Len(g)
      BY <1>1
    <3>4. ASSUME n >= Len(f) PROVE Extends(b[Len(f)], b[n])
      <4>1. CASE n = Len(f)
        BY <3>3, <4>1 DEF Extends
      <4>2. CASE n # Len(f)
        <5>1. Len(f) \in Nat /\ n \in Nat
          BY <1>1, <3>3
        <5>2. n - 1 >= Len(f)
          BY <3>4, <4>2, <5>1
        <5>3. IsSequence(b[Len(f)])
          <6>1. b[Len(f)] = FlattenSeq(f)
            BY <1>1, <1>2, <1>8
          <6> QED
            BY <6>1, FlatItems
        <5> QED
          BY <3>1, <3>2, <5>2, <5>3, ExtendsOn
      <4> QED
        BY <4>1, <4>2
    <3> QED
      BY <3>2, <3>3, <3>4
  <2>3. U \subseteq 0 .. Len(g)
    OBVIOUS
  <2>4. \A n \in 1 .. Len(g) : n - 1 \in U => n \in U
    BY <2>2
  <2> HIDE DEF U
  <2>5. U = 0 .. Len(g)
    BY <1>1, <2>1, <2>3, <2>4, UpTo
  <2> QED
    BY <1>1, <2>5
<1>10. a[Len(f)] = b[Len(f)] /\ Extends(b[Len(f)], b[Len(g)])
  BY <1>1, <1>8, <1>9
<1> QED
  BY <1>2, <1>3, <1>10

LEMMA CodexGrows ==
  ASSUME NEW records, Records(records), NEW r, SoundRecord(r)
  PROVE  Grown(CodexEvents(records), CodexEvents(Append(records, r)))
<1> DEFINE more == Append(records, r)
<1>1. PICK told : /\ CodexReads(records, told) /\ CodexSound(told)
                  /\ CodexEvents(records) = Unflagged(told.events)
  BY CodexReadSound
<1> DEFINE now == CodexRecord(told, r)
<1>2. IsSequence(records) /\ IsSequence(more)
  BY Appended DEF Records
<1>3. CodexReads(more, now) /\ CodexSound(now)
  BY <1>1, <1>2, CodexMore, CodexRecordSound
<1>4. CodexEvents(more) = Unflagged(now.events)
  BY <1>2, <1>3, CodexRead
<1>5. IsSequence(told.events) /\ IsSequence(now.events)
  BY <1>1, <1>3 DEF CodexSound, Complete, Derivable
<1>6. Extends(told.events, now.events)
  <2>1. now.events = told.events \/ \E x : now.events = Append(told.events, x)
    <3> DEFINE e == EventOf("user", r.facts[1])
               d == EventOf(CodexKinds[r.type], r.facts[1])
    <3>0. DOMAIN told = {"events", "seen"}
      BY <1>1 DEF CodexSound
    <3>1. CASE r.type \in {"user_message", "message_user"}
      <4> DEFINE key == <<r.facts[1].text, OrElse(r.time, 0)>>
      <4>1. now = IF key \in told.seen THEN told
                  ELSE [events |-> Append(told.events, e), seen |-> told.seen \cup {key}]
        <5>1. r.type \notin DOMAIN CodexKinds
          BY <3>1 DEF CodexKinds
        <5> QED
          BY <3>1, <5>1 DEF CodexRecord
      <4> HIDE DEF now, e, key
      <4>2. now = told \/ now.events = Append(told.events, e)
        BY <4>1
      <4> QED
        BY <4>2
    <3>2. CASE r.type \in DOMAIN CodexKinds
      <4>1. r.type \notin {"user_message", "message_user"}
        BY <3>2 DEF CodexKinds
      <4>2. now = [told EXCEPT !.events = Append(@, d)]
        BY <3>2, <4>1 DEF CodexRecord
      <4> HIDE DEF now, d
      <4>3. now.events = Append(told.events, d)
        BY <3>0, <4>2
      <4> QED
        BY <4>3
    <3>3. CASE r.type \notin {"user_message", "message_user"} \cup DOMAIN CodexKinds
      BY <3>3 DEF CodexRecord
    <3> QED
      BY <3>1, <3>2, <3>3
  <2>2. Len(told.events) \in Nat
    BY <1>5, SequenceShape
  <2>3. CASE now.events = told.events
    BY <2>2, <2>3 DEF Extends
  <2>4. ASSUME NEW x, now.events = Append(told.events, x) PROVE Extends(told.events, now.events)
    BY <1>5, <2>2, <2>4, Appended DEF Extends
  <2> QED
    BY <2>1, <2>3, <2>4
<1> HIDE DEF now
<1> DEFINE old == told.events
           new == now.events
<1>7. /\ Len(old) \in Nat /\ DOMAIN old = 1 .. Len(old)
      /\ Len(new) \in Nat /\ DOMAIN new = 1 .. Len(new)
  BY <1>5, SequenceShape
<1>8. /\ IsSequence(Unflagged(old)) /\ Len(Unflagged(old)) = Len(old)
      /\ IsSequence(Unflagged(new)) /\ Len(Unflagged(new)) = Len(new)
  <2>1. Complete(old) /\ Complete(new)
    BY <1>1, <1>3 DEF CodexSound
  <2> HIDE DEF old, new
  <2> QED
    BY <2>1, UnflaggedSame DEF Complete, Derivable
<1>9. \A i \in 1 .. Len(old) : Unflagged(new)[i] = Unflagged(old)[i]
  <2>1. \A i \in 1 .. Len(old) : i \in DOMAIN old /\ i \in DOMAIN new /\ new[i] = old[i]
    BY <1>6, <1>7 DEF Extends
  <2> HIDE DEF old, new
  <2> QED
    BY <2>1 DEF Unflagged
<1> HIDE DEF more
<1>10. Extends(Unflagged(old), Unflagged(new))
  BY <1>6, <1>8, <1>9 DEF Extends
<1>11. Grown(Unflagged(old), Unflagged(new))
  BY <1>8, <1>10, GrownExtends
<1> QED
  BY <1>1, <1>4, <1>11 DEF more

LEMMA GeminiGrows ==
  ASSUME NEW records, Records(records), NEW r, SoundRecord(r)
  PROVE  Grown(GeminiEvents(records), GeminiEvents(Append(records, r)))
<1> DEFINE more == Append(records, r)
<1>1. PICK read : /\ GeminiReads(GeminiRows(records), read) /\ GeminiSound(read)
                  /\ GeminiMessages(records) = read.rows
  BY GeminiMessagesRead
<1>2. SoundRows(GeminiRows(records)) /\ GeminiRows(more) = GeminiRows(records) \o r.rows
  BY GeminiRowsGrow
<1>3. /\ IsSequence(GeminiRows(records)) /\ IsSequence(r.rows)
      /\ \A i \in DOMAIN r.rows : SoundRow(r.rows[i])
  BY <1>2 DEF SoundRows, SoundRecord
<1>4. PICK now : /\ GeminiReads(GeminiRows(records) \o r.rows, now) /\ GeminiSound(now)
                 /\ Extends(read.rows, now.rows)
  BY <1>1, <1>3, GeminiMoreRows
<1>5. GeminiMessages(more) = now.rows
  BY <1>2, <1>3, <1>4, GeminiRead, Joined
<1> DEFINE f == [i \in DOMAIN read.rows |-> GeminiMessage(read.rows[i])]
           g == [i \in DOMAIN now.rows |-> GeminiMessage(now.rows[i])]
<1>6. /\ IsSequence(read.rows) /\ Len(read.rows) \in Nat /\ DOMAIN read.rows = 1 .. Len(read.rows)
      /\ IsSequence(now.rows) /\ Len(now.rows) \in Nat /\ DOMAIN now.rows = 1 .. Len(now.rows)
      /\ \A i \in DOMAIN read.rows : SoundRow(read.rows[i])
      /\ \A i \in DOMAIN now.rows : SoundRow(now.rows[i])
  BY <1>1, <1>4, SequenceShape DEF GeminiSound
<1>7. GeminiEvents(records) = FlattenSeq(f) /\ GeminiEvents(more) = FlattenSeq(g)
  BY <1>1, <1>5 DEF GeminiEvents, EventsOf
<1> HIDE DEF more
<1>8. (\A i \in DOMAIN f : Derivable(f[i])) /\ (\A i \in DOMAIN g : Derivable(g[i]))
  BY <1>6, GeminiMessageTold DEF Complete
<1>9. f = [i \in 1 .. Len(read.rows) |-> f[i]] /\ g = [i \in 1 .. Len(now.rows) |-> g[i]]
  BY <1>6
<1>10. \A i \in 1 .. Len(read.rows) : g[i] = f[i]
  <2>1. \A i \in 1 .. Len(read.rows) :
          i \in DOMAIN read.rows /\ i \in DOMAIN now.rows /\ now.rows[i] = read.rows[i]
    BY <1>4, <1>6 DEF Extends
  <2> QED
    BY <2>1
<1> HIDE DEF f, g
<1>11. IsSequence(f) /\ Len(f) = Len(read.rows) /\ IsSequence(g) /\ Len(g) = Len(now.rows)
  BY <1>6, <1>9, SequenceOf
<1>12. AllSequences(f) /\ Derivable(FlattenSeq(f)) /\ AllSequences(g) /\ Derivable(FlattenSeq(g))
  BY <1>8, <1>11, SoundFlat
<1>13. Extends(f, g)
  BY <1>4, <1>10, <1>11 DEF Extends
<1>14. Grown(FlattenSeq(f), FlattenSeq(g))
  BY <1>12, <1>13, FlatGrows, GrownExtends DEF Derivable
<1> QED
  BY <1>7, <1>14 DEF more

LEMMA FileGrows ==
  ASSUME NEW a \in {"claude", "codex", "gemini", "pi"}, NEW p,
         NEW records, Records(records), NEW r, SoundRecord(r)
  PROVE  Grown(ParseFile(a, records, p).events, ParseFile(a, Append(records, r), p).events)
<1>1. CASE a = "claude"
  <2> DEFINE old == EventsOf(records, ClaudeEvents)
             new == EventsOf(Append(records, r), ClaudeEvents)
  <2>1. IsSequence(old) /\ IsSequence(ClaudeEvents(r)) /\ new = old \o ClaudeEvents(r)
    BY ClaudeGrows DEF Derivable
  <2> HIDE DEF old, new
  <2>2. IsSequence(new) /\ Extends(old, new)
    BY <2>1, JoinExtends
  <2>3. Grown(old, new)
    BY <2>1, <2>2, GrownExtends
  <2> QED
    BY <1>1, <2>3 DEF ParseFile, old, new
<1>2. CASE a = "pi"
  <2> DEFINE old == EventsOf(records, PiEvents)
             new == EventsOf(Append(records, r), PiEvents)
  <2>1. IsSequence(old) /\ IsSequence(PiEvents(r)) /\ new = old \o PiEvents(r)
    BY PiGrows DEF Derivable
  <2> HIDE DEF old, new
  <2>2. IsSequence(new) /\ Extends(old, new)
    BY <2>1, JoinExtends
  <2>3. Grown(old, new)
    BY <2>1, <2>2, GrownExtends
  <2> QED
    BY <1>2, <2>3 DEF ParseFile, old, new
<1>3. CASE a = "codex"
  BY <1>3, CodexGrows DEF ParseFile
<1>4. CASE a = "gemini"
  BY <1>4, GeminiGrows DEF ParseFile
<1> QED
  BY <1>1, <1>2, <1>3, <1>4

(***************************************************************************)
(* The session a file names stays                                          *)
(***************************************************************************)
LeastOf(S) == CHOOSE i \in S : \A j \in S : i <= j
GreatestOf(S) == CHOOSE i \in S : \A j \in S : i >= j

\* A bounded set of positions that is not empty has a first and a last.
LEMMA EndsIn ==
  ASSUME NEW L \in Nat, NEW known, known \subseteq 1 .. L, known # {}
  PROVE  /\ LeastOf(known) \in known /\ \A j \in known : LeastOf(known) <= j
         /\ GreatestOf(known) \in known
<1>1. \E i \in known : \A j \in known : i <= j
  <2>1. known \subseteq Nat
    OBVIOUS
  <2> QED
    BY <2>1, LeastExists
<1>2. \E i \in known : \A j \in known : i >= j
  <2> DEFINE S == {L - i : i \in known}
  <2>1. S \subseteq Nat
    OBVIOUS
  <2>2. S # {}
    <3>1. PICK i : i \in known
      OBVIOUS
    <3>2. L - i \in S
      BY <3>1
    <3> QED
      BY <3>2
  <2>3. PICK n \in S : \A m \in S : n <= m
    <3> HIDE DEF S
    <3> QED
      BY <2>1, <2>2, LeastExists
  <2>4. PICK i \in known : n = L - i
    OBVIOUS
  <2>5. \A j \in known : L - i <= L - j
    BY <2>3, <2>4
  <2>6. i \in Int /\ \A j \in known : j \in Int
    OBVIOUS
  <2> HIDE DEF S
  <2>7. \A j \in known : i >= j
    BY <2>5, <2>6
  <2> QED
    BY <2>7
<1> QED
  BY <1>1, <1>2 DEF LeastOf, GreatestOf

LEMMA LeastKept ==
  ASSUME NEW L \in Nat, NEW known, known \subseteq 1 .. L, known # {}
  PROVE  LeastOf(known \cup {L + 1}) = LeastOf(known)
<1> DEFINE more == known \cup {L + 1}
           a == LeastOf(known)
           b == LeastOf(more)
<1>1. a \in known /\ \A j \in known : a <= j
  BY EndsIn
<1>2. more \subseteq 1 .. L + 1 /\ more # {} /\ L + 1 \in Nat
  OBVIOUS
<1>3. b \in more /\ \A j \in more : b <= j
  BY <1>2, EndsIn
<1> HIDE DEF a, b
<1>4. a = b
  BY <1>1, <1>3
<1> QED
  BY <1>4 DEF a, b

\* The first and the last of L values that is not None.
FirstOn(L, g) ==
  LET known == {i \in 1 .. L : g[i] # None} IN IF known = {} THEN None ELSE g[LeastOf(known)]

LastOn(L, g) ==
  LET known == {i \in 1 .. L : g[i] # None} IN IF known = {} THEN None ELSE g[GreatestOf(known)]

\* set_if_none: the first value stays; and one that is None changes nothing.
LEMMA FirstStays ==
  ASSUME NEW L \in Nat, NEW g, NEW h, \A i \in 1 .. L : h[i] = g[i]
  PROVE  /\ FirstOn(L, g) # None => FirstOn(L + 1, h) = FirstOn(L, g)
         /\ h[L + 1] = None => /\ FirstOn(L + 1, h) = FirstOn(L, g)
                               /\ LastOn(L + 1, h) = LastOn(L, g)
<1> DEFINE old == {i \in 1 .. L : g[i] # None}
           new == {i \in 1 .. L + 1 : h[i] # None}
<1>1. /\ old \subseteq 1 .. L /\ (new = old \/ new = old \cup {L + 1})
      /\ h[L + 1] = None => new = old
  <2>1. \A i \in 1 .. L + 1 : i \in 1 .. L \/ i = L + 1
    OBVIOUS
  <2>2. 1 .. L \subseteq 1 .. L + 1 /\ L + 1 \in 1 .. L + 1
    OBVIOUS
  <2> QED
    BY <2>1, <2>2
<1>2. /\ FirstOn(L, g) = IF old = {} THEN None ELSE g[LeastOf(old)]
      /\ FirstOn(L + 1, h) = IF new = {} THEN None ELSE h[LeastOf(new)]
      /\ LastOn(L, g) = IF old = {} THEN None ELSE g[GreatestOf(old)]
      /\ LastOn(L + 1, h) = IF new = {} THEN None ELSE h[GreatestOf(new)]
  BY DEF FirstOn, LastOn
<1> HIDE DEF old, new
<1>3. old # {} => LeastOf(old) \in 1 .. L /\ GreatestOf(old) \in 1 .. L
  BY <1>1, EndsIn
<1>4. old # {} => LeastOf(new) = LeastOf(old)
  BY <1>1, LeastKept
<1>5. old # {} => h[LeastOf(new)] = g[LeastOf(old)] /\ h[GreatestOf(old)] = g[GreatestOf(old)]
                  /\ new # {}
  BY <1>1, <1>3, <1>4
<1> QED
  BY <1>1, <1>2, <1>5

SessionNames(records) == [i \in 1 .. Len(records) |-> records[i].session]
ForkNames(records) == [i \in 1 .. Len(records) |-> records[i].forked]
SessionsOf(records, label) ==
  [i \in 1 .. Len(records) |-> IF records[i].type = label THEN records[i].session ELSE None]

LEMMA SessionsRead ==
  ASSUME NEW records, IsSequence(records), NEW p
  PROVE  /\ ClaudeNamed(records) =
              LET named == Alone(FirstOn(Len(records), SessionNames(records)))
                  fork == FirstOn(Len(records), ForkNames(records))
              IN IF fork = None THEN named
                 ELSE [named EXCEPT !.parent = [session |-> <<fork>>, relation |-> "fork"]]
         /\ GeminiSession(records, p) =
              Alone(OrElse(LastOn(Len(records), SessionNames(records)), p.stem))
         /\ CodexSession(records) =
              Alone(FirstOn(Len(records), SessionsOf(records, "session_meta")))
         /\ PiSession(records) = Alone(FirstOn(Len(records), SessionsOf(records, "session")))
<1>1. DOMAIN records = 1 .. Len(records) /\ Len(records) \in Nat
  BY SequenceShape
<1>2. First(records, LAMBDA q : q.session) = FirstOn(Len(records), SessionNames(records))
  <2> DEFINE value(i) == records[i].session
             S == {i \in DOMAIN records : value(i) # None}
             g == SessionNames(records)
  <2>1. S = {i \in 1 .. Len(records) : g[i] # None} /\ S \subseteq 1 .. Len(records)
    BY <1>1 DEF SessionNames
  <2>3. FirstOn(Len(records), g) = IF S = {} THEN None ELSE g[LeastOf(S)]
    <3> HIDE DEF S, g
    <3> QED
      BY <2>1 DEF FirstOn
  <2>4. S # {} => g[LeastOf(S)] = value(LeastOf(S))
    <3> HIDE DEF S
    <3>1. S # {} => LeastOf(S) \in 1 .. Len(records)
      BY <1>1, <2>1, EndsIn
    <3> QED
      BY <3>1 DEF SessionNames
  <2>5. (IF S = {} THEN None ELSE value(LeastOf(S))) = FirstOn(Len(records), g)
    <3> HIDE DEF S, value
    <3> QED
      BY <2>3, <2>4
  <2> QED
    BY <2>5, Zenon DEF First, LeastOf
<1>3. Latest(records, LAMBDA q : q.session) = LastOn(Len(records), SessionNames(records))
  <2> DEFINE value(i) == records[i].session
             S == {i \in DOMAIN records : value(i) # None}
             g == SessionNames(records)
  <2>1. S = {i \in 1 .. Len(records) : g[i] # None} /\ S \subseteq 1 .. Len(records)
    BY <1>1 DEF SessionNames
  <2>3. LastOn(Len(records), g) = IF S = {} THEN None ELSE g[GreatestOf(S)]
    <3> HIDE DEF S, g
    <3> QED
      BY <2>1 DEF LastOn
  <2>4. S # {} => g[GreatestOf(S)] = value(GreatestOf(S))
    <3> HIDE DEF S
    <3>1. S # {} => GreatestOf(S) \in 1 .. Len(records)
      BY <1>1, <2>1, EndsIn
    <3> QED
      BY <3>1 DEF SessionNames
  <2>5. (IF S = {} THEN None ELSE value(GreatestOf(S))) = LastOn(Len(records), g)
    <3> HIDE DEF S, value
    <3> QED
      BY <2>3, <2>4
  <2> QED
    BY <2>5, Zenon DEF Latest, GreatestOf
<1>4. First(records, LAMBDA q : q.forked) = FirstOn(Len(records), ForkNames(records))
  <2> DEFINE value(i) == records[i].forked
             S == {i \in DOMAIN records : value(i) # None}
             g == ForkNames(records)
  <2>1. S = {i \in 1 .. Len(records) : g[i] # None} /\ S \subseteq 1 .. Len(records)
    BY <1>1 DEF ForkNames
  <2>3. FirstOn(Len(records), g) = IF S = {} THEN None ELSE g[LeastOf(S)]
    <3> HIDE DEF S, g
    <3> QED
      BY <2>1 DEF FirstOn
  <2>4. S # {} => g[LeastOf(S)] = value(LeastOf(S))
    <3> HIDE DEF S
    <3>1. S # {} => LeastOf(S) \in 1 .. Len(records)
      BY <1>1, <2>1, EndsIn
    <3> QED
      BY <3>1 DEF ForkNames
  <2>5. (IF S = {} THEN None ELSE value(LeastOf(S))) = FirstOn(Len(records), g)
    <3> HIDE DEF S, value
    <3> QED
      BY <2>3, <2>4
  <2> QED
    BY <2>5, Zenon DEF First, LeastOf
<1>5. First(records, LAMBDA q : IF q.type = "session_meta" THEN q.session ELSE None) = FirstOn(Len(records), SessionsOf(records, "session_meta"))
  <2> DEFINE value(i) == IF records[i].type = "session_meta" THEN records[i].session ELSE None
             S == {i \in DOMAIN records : value(i) # None}
             g == SessionsOf(records, "session_meta")
  <2>1. S = {i \in 1 .. Len(records) : g[i] # None} /\ S \subseteq 1 .. Len(records)
    BY <1>1 DEF SessionsOf
  <2>3. FirstOn(Len(records), g) = IF S = {} THEN None ELSE g[LeastOf(S)]
    <3> HIDE DEF S, g
    <3> QED
      BY <2>1 DEF FirstOn
  <2>4. S # {} => g[LeastOf(S)] = value(LeastOf(S))
    <3> HIDE DEF S
    <3>1. S # {} => LeastOf(S) \in 1 .. Len(records)
      BY <1>1, <2>1, EndsIn
    <3> QED
      BY <3>1 DEF SessionsOf
  <2>5. (IF S = {} THEN None ELSE value(LeastOf(S))) = FirstOn(Len(records), g)
    <3> HIDE DEF S, value
    <3> QED
      BY <2>3, <2>4
  <2> QED
    BY <2>5, Zenon DEF First, LeastOf
<1>6. First(records, LAMBDA q : IF q.type = "session" THEN q.session ELSE None) = FirstOn(Len(records), SessionsOf(records, "session"))
  <2> DEFINE value(i) == IF records[i].type = "session" THEN records[i].session ELSE None
             S == {i \in DOMAIN records : value(i) # None}
             g == SessionsOf(records, "session")
  <2>1. S = {i \in 1 .. Len(records) : g[i] # None} /\ S \subseteq 1 .. Len(records)
    BY <1>1 DEF SessionsOf
  <2>3. FirstOn(Len(records), g) = IF S = {} THEN None ELSE g[LeastOf(S)]
    <3> HIDE DEF S, g
    <3> QED
      BY <2>1 DEF FirstOn
  <2>4. S # {} => g[LeastOf(S)] = value(LeastOf(S))
    <3> HIDE DEF S
    <3>1. S # {} => LeastOf(S) \in 1 .. Len(records)
      BY <1>1, <2>1, EndsIn
    <3> QED
      BY <3>1 DEF SessionsOf
  <2>5. (IF S = {} THEN None ELSE value(LeastOf(S))) = FirstOn(Len(records), g)
    <3> HIDE DEF S, value
    <3> QED
      BY <2>3, <2>4
  <2> QED
    BY <2>5, Zenon DEF First, LeastOf
<1>7. ClaudeNamed(records) =
        LET named == Alone(FirstOn(Len(records), SessionNames(records)))
            fork == FirstOn(Len(records), ForkNames(records))
        IN IF fork = None THEN named
           ELSE [named EXCEPT !.parent = [session |-> <<fork>>, relation |-> "fork"]]
  BY <1>2, <1>4, Zenon DEF ClaudeNamed
<1>8. GeminiSession(records, p) = Alone(OrElse(LastOn(Len(records), SessionNames(records)), p.stem))
  BY <1>3, Zenon DEF GeminiSession
<1>9. CodexSession(records) = Alone(FirstOn(Len(records), SessionsOf(records, "session_meta")))
  BY <1>5, Zenon DEF CodexSession
<1>10. PiSession(records) = Alone(FirstOn(Len(records), SessionsOf(records, "session")))
  BY <1>6, Zenon DEF PiSession
<1> QED
  BY <1>7, <1>8, <1>9, <1>10

\* One record more does not change the session: no record but the first of Claude's
\* says a fork, and none but the header of Gemini's names a session.
LEMMA SessionStays ==
  ASSUME NEW a \in {"claude", "codex", "gemini", "pi"}, NEW p,
         NEW records, IsSequence(records), NEW r,
         a = "claude" => r.forked = None, a = "gemini" => r.session = None,
         ParseFile(a, records, p).session.id # None
  PROVE  ParseFile(a, Append(records, r), p).session = ParseFile(a, records, p).session
<1> DEFINE more == Append(records, r)
           L == Len(records)
<1>1. /\ IsSequence(more) /\ L \in Nat /\ Len(more) = L + 1 /\ more[L + 1] = r
      /\ \A i \in 1 .. L : more[i] = records[i]
  BY Appended, SequenceShape
<1> HIDE DEF more, L
<1>2. /\ \A i \in 1 .. L : SessionNames(more)[i] = SessionNames(records)[i]
      /\ \A i \in 1 .. L : ForkNames(more)[i] = ForkNames(records)[i]
      /\ \A label : \A i \in 1 .. L : SessionsOf(more, label)[i] = SessionsOf(records, label)[i]
      /\ SessionNames(more)[L + 1] = r.session /\ ForkNames(more)[L + 1] = r.forked
  <2>1. \A i \in 1 .. L : i \in 1 .. Len(more) /\ i \in 1 .. Len(records)
    BY <1>1 DEF L
  <2>2. L + 1 \in 1 .. Len(more)
    BY <1>1
  <2> QED
    BY <1>1, <2>1, <2>2 DEF SessionNames, ForkNames, SessionsOf
<1>3. /\ FirstOn(L, SessionNames(records)) # None =>
           FirstOn(Len(more), SessionNames(more)) = FirstOn(L, SessionNames(records))
      /\ r.forked = None => FirstOn(Len(more), ForkNames(more)) = FirstOn(L, ForkNames(records))
      /\ r.session = None => LastOn(Len(more), SessionNames(more)) = LastOn(L, SessionNames(records))
      /\ \A label : FirstOn(L, SessionsOf(records, label)) # None =>
           FirstOn(Len(more), SessionsOf(more, label)) = FirstOn(L, SessionsOf(records, label))
  BY <1>1, <1>2, FirstStays
<1>4. \A name : Alone(name).id # None => name # None
  BY DEF Alone
<1>5. CASE a = "claude"
  <2>1. /\ ParseFile(a, records, p).session = ClaudeSession(records, p)
        /\ ParseFile(a, more, p).session = ClaudeSession(more, p)
    BY <1>5 DEF ParseFile
  <2>2. ClaudeNamed(records).id # None
    BY <2>1 DEF ClaudeSession
  <2>3. ClaudeNamed(records).id = Alone(FirstOn(L, SessionNames(records))).id
    BY SessionsRead DEF L, Alone
  <2>4. ClaudeNamed(more) = ClaudeNamed(records)
    BY <1>1, <1>3, <1>4, <1>5, <2>2, <2>3, SessionsRead DEF L
  <2> QED
    BY <2>1, <2>4 DEF ClaudeSession, more
<1>6. CASE a = "codex"
  <2>1. /\ ParseFile(a, records, p).session = CodexSession(records)
        /\ ParseFile(a, more, p).session = CodexSession(more)
    BY <1>6 DEF ParseFile
  <2>2. FirstOn(L, SessionsOf(records, "session_meta")) # None
    BY <1>4, <2>1, SessionsRead DEF L
  <2>3. CodexSession(more) = CodexSession(records)
    BY <1>1, <1>3, <2>2, SessionsRead DEF L
  <2> QED
    BY <2>1, <2>3 DEF more
<1>7. CASE a = "gemini"
  <2>1. /\ ParseFile(a, records, p).session = GeminiSession(records, p)
        /\ ParseFile(a, more, p).session = GeminiSession(more, p)
    BY <1>7 DEF ParseFile
  <2>2. GeminiSession(more, p) = GeminiSession(records, p)
    BY <1>1, <1>3, <1>7, SessionsRead DEF L
  <2> QED
    BY <2>1, <2>2 DEF more
<1>8. CASE a = "pi"
  <2>1. /\ ParseFile(a, records, p).session = PiSession(records)
        /\ ParseFile(a, more, p).session = PiSession(more)
    BY <1>8 DEF ParseFile
  <2>2. FirstOn(L, SessionsOf(records, "session")) # None
    BY <1>4, <2>1, SessionsRead DEF L
  <2>3. PiSession(more) = PiSession(records)
    BY <1>1, <1>3, <2>2, SessionsRead DEF L
  <2> QED
    BY <2>1, <2>3 DEF more
<1> QED
  BY <1>5, <1>6, <1>7, <1>8

(***************************************************************************)
(* A session that grows keeps what is archived of it                       *)
(***************************************************************************)
Added(r) ==
  /\ SoundRecord(r)
  /\ agent = "claude" /\ said # <<>> => r.forked = None
  /\ agent = "gemini" => r.session = None

LEMMA FileAdded ==
  ASSUME NativeInv, Say
  PROVE  \/ \E r : Added(r) /\ native' = Append(native, r)
         \/ \E r, q : Added(r) /\ Added(q) /\ native' = Append(Append(native, r), q)
<1>1. PICK fs \in Told : native' \in Writes(fs)
  BY DEF Say
<1>2. ~LiveDatabase /\ Records(native) /\ IsSequence(native)
  BY DEF Say, NativeInv, Records
<1>3. NextFacts(fs)
  BY <1>1, ToldNext DEF NativeInv
<1>4. agent \in {"claude", "codex", "gemini", "pi"}
  BY <1>2, NormalizeAssumption DEF LiveDatabase, NativeInv
<1>5. CASE agent = "claude"
  BY <1>1, <1>3, <1>5, ClaudeSays DEF Writes, Added
<1>6. CASE agent = "codex"
  <2>1. native' \in CodexWrites(fs)
    BY <1>1, <1>6 DEF Writes
  <2>2. PICK r, label :
          /\ Plainly(r, label, fs)
          /\ \/ native' = Append(native, r)
             \/ \E q, other : native' = Append(Append(native, r), q) /\ Plainly(q, other, fs)
    BY <1>2, <1>3, <2>1, CodexSays
  <2>3. Added(r)
    BY <1>3, <1>6, <2>2, PlainSound DEF Added
  <2>4. ASSUME NEW q, NEW other, Plainly(q, other, fs) PROVE Added(q)
    BY <1>3, <1>6, <2>4, PlainSound DEF Added
  <2> QED
    BY <2>2, <2>3, <2>4
<1>7. CASE agent = "gemini"
  BY <1>1, <1>2, <1>3, <1>7, GeminiSays DEF Writes, Added, NativeInv
<1>8. CASE agent = "pi"
  BY <1>1, <1>3, <1>8, PiSays DEF Writes, Added
<1> QED
  BY <1>4, <1>5, <1>6, <1>7, <1>8

\* The records that were read stay, and with them the session they name.
LEMMA FileKeeps ==
  ASSUME NativeInv, Say
  PROVE  LET old == ParseFile(agent, native, path)
             new == ParseFile(agent, native', path)
         IN /\ Grown(old.events, new.events)
            /\ old.session.id # None /\ (agent = "claude" => said # <<>>) =>
                 new.session = old.session
<1> DEFINE old == ParseFile(agent, native, path)
           new == ParseFile(agent, native', path)
           named == old.session.id # None /\ (agent = "claude" => said # <<>>)
<1>1. agent \in {"claude", "codex", "gemini", "pi"} /\ Records(native) /\ IsSequence(native)
  BY NormalizeAssumption DEF LiveDatabase, NativeInv, Say, Records
<1>2. ASSUME NEW records, Records(records), NEW r, Added(r)
      PROVE  LET now == ParseFile(agent, Append(records, r), path)
                 was == ParseFile(agent, records, path)
             IN /\ Records(Append(records, r)) /\ Grown(was.events, now.events)
                /\ was.session.id # None /\ (agent = "claude" => said # <<>>) =>
                     now.session = was.session
  <2>1. IsSequence(records) /\ SoundRecord(r)
    BY <1>2 DEF Records, Added
  <2>2. Records(Append(records, r))
    BY <1>2, <2>1, RecordsAppended
  <2>3. Grown(ParseFile(agent, records, path).events,
              ParseFile(agent, Append(records, r), path).events)
    BY <1>1, <1>2, <2>1, FileGrows
  <2>4. ASSUME ParseFile(agent, records, path).session.id # None, agent = "claude" => said # <<>>
        PROVE  ParseFile(agent, Append(records, r), path).session =
                 ParseFile(agent, records, path).session
    BY <1>1, <1>2, <2>1, <2>4, SessionStays DEF Added
  <2> QED
    BY <2>2, <2>3, <2>4
<1>3. CASE \E r : Added(r) /\ native' = Append(native, r)
  BY <1>1, <1>2, <1>3
<1>4. ASSUME NEW r, NEW q, Added(r), Added(q), native' = Append(Append(native, r), q)
      PROVE  Grown(old.events, new.events) /\ (named => new.session = old.session)
  <2> DEFINE mid == ParseFile(agent, Append(native, r), path)
  <2>1. /\ Records(Append(native, r)) /\ Grown(old.events, mid.events)
        /\ named => mid.session = old.session
    BY <1>1, <1>2, <1>4
  <2>2. /\ Grown(mid.events, new.events)
        /\ mid.session.id # None /\ (agent = "claude" => said # <<>>) => new.session = mid.session
    BY <1>2, <1>4, <2>1
  <2> HIDE DEF old, mid, new
  <2>3. Grown(old.events, new.events)
    BY <2>1, <2>2, GrownOn
  <2> QED
    BY <2>1, <2>2, <2>3
<1> QED
  BY <1>3, <1>4, FileAdded

\* OpenCode's rows only grow: a part is told again with the state of its call.
LEMMA OpenCodeGrows ==
  ASSUME NativeInv, OpenMessage \/ AddPart \/ FinishPart
  PROVE  Grown(OpenCodeEvents(native), OpenCodeEvents(native'))
<1> DEFINE made(p) == [EventOf(p.fact.kind, p.fact) EXCEPT !.error = FALSE]
           old == native.parts
           new == native'.parts
           Stays(p, q) == \A field \in FactFields \ {"state"} : q.fact[field] = p.fact[field]
<1>1. LiveDatabase /\ Database
  BY DEF OpenMessage, AddPart, FinishPart, NativeInv, OpenCodeInv
<1>2. Database' /\ LiveDatabase'
  BY <1>1, DatabaseWritten DEF LiveDatabase
<1>3. /\ IsSequence(old) /\ \A i \in DOMAIN old : old[i].message \in native.messages
      /\ IsSequence(new) /\ \A i \in DOMAIN new : new[i].message \in native'.messages
      /\ DOMAIN native = {"messages", "parts", "updated"}
  BY <1>1, <1>2 DEF Database
<1>4. /\ Len(old) \in Nat /\ DOMAIN old = 1 .. Len(old)
      /\ Len(new) \in Nat /\ DOMAIN new = 1 .. Len(new)
  BY <1>3, SequenceShape
<1>5. Len(old) <= Len(new) /\ \A k \in 1 .. Len(old) : Stays(old[k], new[k])
  <2>1. CASE OpenMessage
    <3>1. new = old
      BY <1>3, <2>1 DEF OpenMessage
    <3> QED
      BY <1>4, <3>1
  <2>2. CASE AddPart
    <3>1. PICK x : new = Append(old, x)
      BY <1>3, <2>2 DEF AddPart
    <3> HIDE DEF old, new
    <3>2. Len(new) = Len(old) + 1 /\ \A k \in 1 .. Len(old) : new[k] = old[k]
      BY <1>3, <3>1, Appended
    <3> QED
      BY <1>4, <3>2
  <2>3. CASE FinishPart
    <3>1. PICK i \in DOMAIN old, quiet \in {FALSE, QuietEdits} :
            native' = [native EXCEPT !.parts[i].fact.state = 1,
                                     !.updated = IF quiet THEN @ ELSE @ + 1]
      BY <2>3 DEF FinishPart
    <3>2. new = [native EXCEPT !.parts[i].fact.state = 1].parts
      BY <1>3, <3>1
    <3> HIDE DEF new
    <3>3. Len(new) = Len(old) /\ \A j \in DOMAIN new : Stays(old[j], new[j])
      BY <1>1, <3>2, PartFinished
    <3> QED
      BY <1>4, <3>3
  <2> QED
    BY <2>1, <2>2, <2>3
<1>6. ASSUME NEW p, NEW q, Stays(p, q) PROVE Same(made(p), made(q))
  <2>1. /\ q.fact.n = p.fact.n /\ q.fact.kind = p.fact.kind /\ q.fact.call = p.fact.call
        /\ q.fact.delegates = p.fact.delegates /\ q.fact.tasks = p.fact.tasks
        /\ q.fact.time = p.fact.time
    BY <1>6 DEF FactFields
  <2>2. \A x : /\ made(x).of = x.fact.n /\ made(x).kind = x.fact.kind
               /\ made(x).call = x.fact.call /\ made(x).delegates = x.fact.delegates
               /\ made(x).tasks = x.fact.tasks /\ made(x).time = x.fact.time
               /\ made(x).error = FALSE
    BY DEF EventOf
  <2> HIDE DEF made
  <2> QED
    BY <2>1, <2>2 DEF Same
<1>7. /\ IsSequence(OpenCodeEvents(native)) /\ Len(OpenCodeEvents(native)) = Len(old)
      /\ \A k \in 1 .. Len(old) : OpenCodeEvents(native)[k] = made(old[k])
  BY <1>3, OpenCodeRead
<1>8. /\ IsSequence(OpenCodeEvents(native')) /\ Len(OpenCodeEvents(native')) = Len(new)
      /\ \A k \in 1 .. Len(new) : OpenCodeEvents(native')[k] = made(new[k])
  BY <1>3, OpenCodeRead
<1>9. \A k \in 1 .. Len(old) : k \in 1 .. Len(new)
  BY <1>4, <1>5
<1> HIDE DEF made, Stays, old, new
<1>10. \A k \in 1 .. Len(old) : Same(OpenCodeEvents(native)[k], OpenCodeEvents(native')[k])
  BY <1>5, <1>6, <1>7, <1>8, <1>9
<1> QED
  BY <1>5, <1>7, <1>8, <1>10 DEF Grown

GrowInv ==
  /\ AcceptInv
  /\ agent = "claude" /\ said = <<>> => native = Started("claude")
  /\ archived # None =>
       /\ LiveDatabase => archived.session = Alone("own")
       /\ ~LiveDatabase =>
            /\ archived.session = ParseFile(agent, native, path).session
            /\ archived.session.id # None
       /\ Grown(archived.events, EventsNow)
  /\ LiveDatabase /\ reading # None =>
       /\ Grown(reading.events, OpenCodeEvents(native))
       /\ archived # None /\ reading.at \notin {"events", "joined"} =>
            Grown(archived.events, reading.events)

LEMMA GrownSame ==
  ASSUME NEW events, IsSequence(events)
  PROVE  Grown(events, events) /\ Grown(<<>>, events)
<1>1. Len(events) \in Nat /\ IsSequence(<<>>) /\ Len(<<>>) = 0
  BY EmptySequence, SequenceShape
<1> QED
  BY <1>1 DEF Grown, Same

LEMMA EssenceGrows ==
  ASSUME NEW old, NEW new, Grown(old, new)
  PROVE  Essence(old) = SubSeq(Essence(new), 1, Len(old))
<1> DEFINE L == Len(old)
           s == Essence(old)
           t == Essence(new)
           u == SubSeq(t, 1, L)
<1>1. /\ L \in Nat /\ DOMAIN old = 1 .. L /\ Len(new) \in Nat /\ DOMAIN new = 1 .. Len(new)
      /\ L <= Len(new)
  BY SequenceShape DEF Grown
<1>2. s = [i \in 1 .. L |-> s[i]] /\ t = [i \in 1 .. Len(new) |-> t[i]]
  BY <1>1 DEF Essence
<1>3. \A i \in 1 .. L : i \in DOMAIN old /\ i \in DOMAIN new /\ s[i] = t[i]
  BY <1>1 DEF Essence, Grown, Same
<1> HIDE DEF L, s, t
<1>4. IsSequence(s) /\ Len(s) = L /\ IsSequence(t) /\ Len(t) = Len(new)
  BY <1>1, <1>2, SequenceOf
<1>5. IsSequence(u) /\ Len(u) = L /\ \A i \in 1 .. L : u[i] = t[i]
  <2> DEFINE S == Entries(t)
  <2>1. t \in Seq(S)
    BY <1>4 DEF IsSequence
  <2> HIDE DEF S
  <2>2. u \in Seq(S) /\ Len(u) = L /\ \A i \in 1 .. L : u[i] = t[i]
    BY <1>1, <1>4, <2>1
  <2> QED
    BY <2>2, TypedSequence
<1> HIDE DEF u
<1>6. s = u
  BY <1>3, <1>4, <1>5, SameSequence
<1> QED
  BY <1>6 DEF s, t, u, L

LEMMA SessionGrows ==
  ASSUME NEW old, NEW new, Derivable(old.events), Derivable(new.events), Grown(old.events, new.events),
         old.spans = DeriveSpans(old.events), new.spans = DeriveSpans(new.events),
         new.session = old.session
  PROVE  SessionKept(old, new)
<1>1. Listed(old.events) /\ Listed(new.events)
  BY DEF Derivable, Listed
<1>2. SpansKept(old.spans, new.spans)
  BY <1>1, SpansGrow
<1>3. Essence(old.events) = SubSeq(Essence(new.events), 1, Len(old.events))
  BY EssenceGrows
<1>4. Len(old.events) <= Len(new.events)
  BY DEF Grown
<1> QED
  BY <1>2, <1>3, <1>4 DEF SessionKept, SpansKept

LEMMA GrowStarts == NormalizeInit => GrowInv
<1> SUFFICES ASSUME NormalizeInit PROVE GrowInv
  OBVIOUS
<1>1. reading = None /\ archived = None /\ (agent = "claude" => native = Started("claude"))
  BY DEF NormalizeInit
<1>2. AcceptInv
  BY <1>1, NativeStarts DEF AcceptInv, ArchivedRight
<1> QED
  BY <1>1, <1>2 DEF GrowInv

\* A file of Claude's that tells nothing names no session.
LEMMA NothingNamed ==
  ASSUME NEW p
  PROVE  ParseFile("claude", Started("claude"), p).session.id = None
<1> DEFINE head == Record("ai-title", <<>>)
           records == <<head>>
<1>1. Started("claude") = records /\ head.session = None
  BY DEF Started, Record
<1> HIDE DEF head
<1>2. IsSequence(records) /\ Len(records) = 1 /\ records[1] = head
  BY SingleSequence
<1> HIDE DEF records
<1>3. SessionNames(records)[1] = None
  BY <1>1, <1>2 DEF SessionNames
<1>4. FirstOn(1, SessionNames(records)) = None
  <2>1. {i \in 1 .. 1 : SessionNames(records)[i] # None} = {}
    BY <1>3
  <2> QED
    BY <2>1 DEF FirstOn
<1>5. ClaudeNamed(records).id = None
  <2>1. Alone(None).id = None
    BY DEF Alone
  <2> QED
    BY <1>2, <1>4, <2>1, SessionsRead DEF Alone
<1>6. ClaudeSession(records, p).id = None
  BY <1>5 DEF ClaudeSession
<1> QED
  BY <1>1, <1>6 DEF ParseFile

LEMMA GrowStep ==
  ASSUME GrowInv, [NormalizeNext]_normalizeVars
  PROVE  GrowInv' /\ (archived' # archived /\ archived # None => SessionKept(archived, archived'))
<1>1. AcceptInv /\ AcceptInv' /\ NativeInv /\ ArchivedRight /\ ArchivedRight'
  BY AcceptStep DEF GrowInv, AcceptInv
<1>2. CASE Say
  <2>1. /\ ~LiveDatabase /\ ~LiveDatabase' /\ UNCHANGED <<agent, path, reading, archived>>
    BY <1>2 DEF Say, LiveDatabase
  <2>2. said' # <<>>
    <3>1. PICK fs \in Told : said' = said \o fs
      BY <1>2 DEF Say
    <3>2. IsSequence(said) /\ NextFacts(fs)
      BY <1>1, <3>1, ToldNext DEF NativeInv
    <3>3. Len(said') = Len(said) + Len(fs) /\ Len(said) \in Nat /\ Len(fs) \in {1, 2}
      BY <3>1, <3>2, Joined, SequenceShape DEF NextFacts, Derivable
    <3>4. Len(<<>>) = 0
      BY EmptySequence
    <3>5. Len(said') # 0
      BY <3>3
    <3> QED
      BY <3>4, <3>5
  <2>3. ASSUME archived # None
        PROVE  /\ archived.session = ParseFile(agent, native', path).session
               /\ archived.session.id # None
               /\ Grown(archived.events, ParseFile(agent, native', path).events)
    <3>1. /\ archived.session = ParseFile(agent, native, path).session
          /\ archived.session.id # None
          /\ Grown(archived.events, ParseFile(agent, native, path).events)
      BY <2>1, <2>3 DEF GrowInv, EventsNow
    <3>2. agent = "claude" => said # <<>>
      BY <3>1, NothingNamed DEF GrowInv
    <3>3. /\ Grown(ParseFile(agent, native, path).events, ParseFile(agent, native', path).events)
          /\ ParseFile(agent, native', path).session = ParseFile(agent, native, path).session
      BY <1>1, <1>2, <3>1, <3>2, FileKeeps
    <3> QED
      BY <3>1, <3>3, GrownOn
  <2> QED
    BY <1>1, <2>1, <2>2, <2>3 DEF GrowInv, EventsNow
<1>3. CASE OpenMessage \/ AddPart \/ FinishPart
  <2>1. /\ LiveDatabase /\ LiveDatabase' /\ UNCHANGED <<agent, path, reading, archived>>
    BY <1>3 DEF OpenMessage, AddPart, FinishPart, LiveDatabase
  <2>2. agent # "claude" /\ agent' # "claude"
    BY <2>1 DEF LiveDatabase
  <2>3. Grown(OpenCodeEvents(native), OpenCodeEvents(native'))
    BY <1>1, <1>3, OpenCodeGrows
  <2>4. archived # None => /\ archived.session = Alone("own")
                           /\ Grown(archived.events, OpenCodeEvents(native'))
    BY <2>1, <2>3, GrownOn DEF GrowInv, EventsNow
  <2>5. reading # None => /\ Grown(reading.events, OpenCodeEvents(native'))
                          /\ archived # None /\ reading.at \notin {"events", "joined"} =>
                               Grown(archived.events, reading.events)
    BY <2>1, <2>3, GrownOn DEF GrowInv
  <2> QED
    BY <1>1, <2>1, <2>2, <2>4, <2>5 DEF GrowInv, EventsNow
<1>4. CASE IngestFile
  <2> DEFINE parsed == ParseFile(agent, native, path)
  <2>1. /\ ~LiveDatabase /\ ~LiveDatabase' /\ UNCHANGED <<agent, path, said, native, reading>>
        /\ parsed.session.id # None /\ archived' = Normalized(parsed, native, None)
    BY <1>4 DEF IngestFile, LiveDatabase
  <2> HIDE DEF parsed
  <2>2. archived'.session = parsed.session /\ archived'.events = parsed.events
        /\ archived'.spans = DeriveSpans(parsed.events)
    BY <2>1 DEF Normalized
  <2>3. Derivable(parsed.events) /\ Grown(parsed.events, parsed.events)
    BY <1>1, <2>1, FileSound, GrownSame DEF parsed, Derivable
  <2>4. GrowInv'
    BY <1>1, <2>1, <2>2, <2>3 DEF GrowInv, EventsNow, parsed
  <2>5. ASSUME archived # None PROVE SessionKept(archived, archived')
    <3>1. Grown(archived.events, parsed.events) /\ archived.session = parsed.session
      BY <2>1, <2>5 DEF GrowInv, EventsNow, parsed
    <3>2. Derivable(archived.events) /\ archived.spans = DeriveSpans(archived.events)
      BY <1>1, <2>5 DEF ArchivedRight
    <3> QED
      BY <2>2, <2>3, <3>1, <3>2, SessionGrows
  <2> QED
    BY <2>4, <2>5
<1>5. CASE Reads
  <2>1. LiveDatabase /\ LiveDatabase' /\ UNCHANGED <<agent, path, said, native, archived>>
    BY <1>1, <1>5 DEF Reads, Discover, ReadRow, ReadEvents, ReadMessages, ReadParts, CopyMessages,
                      CopyParts, Read, NativeInv, OpenCodeInv, LiveDatabase
  <2>2. reading # None => DOMAIN reading = ReadingFields
    BY <1>1, <2>1 DEF NativeInv, OpenCodeInv, Database
  <2>3. IsSequence(OpenCodeEvents(native))
    BY <1>1, <2>1, OpenCodeSound DEF Derivable
  <2>4. /\ Grown(reading'.events, OpenCodeEvents(native))
        /\ archived # None /\ reading'.at \notin {"events", "joined"} =>
             Grown(archived.events, reading'.events)
    <3>1. CASE Discover
      <4>1. reading' = Fresh
        BY <3>1 DEF Discover
      <4>2. reading'.at = "events" /\ reading'.events = <<>>
        BY <4>1 DEF Fresh
      <4> QED
        BY <2>3, <4>2, GrownSame
    <3>2. CASE ReadEvents
      <4>1. reading'.events = OpenCodeEvents(native)
        BY <2>2, <3>2 DEF ReadEvents, Read, ReadingFields
      <4>2. archived # None => Grown(archived.events, OpenCodeEvents(native))
        BY <2>1 DEF GrowInv, EventsNow
      <4> QED
        BY <2>3, <4>1, <4>2, GrownSame
    <3>3. CASE ReadRow \/ ReadMessages \/ ReadParts \/ CopyMessages \/ CopyParts
      <4>1. /\ reading # None /\ reading'.events = reading.events
            /\ reading.at \in {"events", "joined"} => reading'.at \in {"events", "joined"}
        BY <2>2, <3>3 DEF ReadRow, ReadMessages, ReadParts, CopyMessages, CopyParts, Read,
                          ReadingFields
      <4> QED
        BY <2>1, <4>1 DEF GrowInv
    <3> QED
      BY <1>5, <3>1, <3>2, <3>3 DEF Reads
  <2> QED
    BY <1>1, <2>1, <2>4 DEF GrowInv, EventsNow
<1>6. CASE Store
  <2>1. /\ reading # None /\ reading.at = "backup" /\ reading' = None
        /\ UNCHANGED <<agent, path, said, native>>
        /\ archived'.session = Alone("own") /\ archived'.events = reading.events
        /\ archived'.spans = DeriveSpans(reading.events)
    BY <1>6 DEF Store, Normalized
  <2>2. LiveDatabase /\ LiveDatabase'
    BY <1>1, <2>1 DEF NativeInv, OpenCodeInv, LiveDatabase
  <2>3. Derivable(reading.events) /\ Grown(reading.events, OpenCodeEvents(native))
    BY <1>1, <2>1, <2>2 DEF GrowInv, AcceptInv
  <2>4. GrowInv'
    <3>1. agent' # "claude"
      BY <2>2 DEF LiveDatabase
    <3> QED
      BY <1>1, <2>1, <2>2, <2>3, <3>1 DEF GrowInv, EventsNow
  <2>5. ASSUME archived # None PROVE SessionKept(archived, archived')
    <3>1. Grown(archived.events, reading.events) /\ archived.session = Alone("own")
      BY <2>1, <2>2, <2>5 DEF GrowInv
    <3>2. Derivable(archived.events) /\ archived.spans = DeriveSpans(archived.events)
      BY <1>1, <2>5 DEF ArchivedRight
    <3> QED
      BY <2>1, <2>3, <3>1, <3>2, SessionGrows
  <2> QED
    BY <2>4, <2>5
<1>7. CASE UNCHANGED normalizeVars
  BY <1>1, <1>7 DEF GrowInv, EventsNow, normalizeVars, LiveDatabase
<1> QED
  BY <1>2, <1>3, <1>4, <1>5, <1>6, <1>7 DEF NormalizeNext, Reads

\* A session that grows keeps what is archived of it, from one ingestion to the next: of
\* every agent, also of one that repeats itself loosely, and of a database that is
\* written while it is read.
THEOREM GrowthKeepsAlways == NormalizeSpec => GrowthKeeps
<1>1. NormalizeInit => GrowInv
  BY GrowStarts
<1>2. GrowInv /\ [NormalizeNext]_normalizeVars => GrowInv'
  BY GrowStep
<1>3. GrowInv /\ [NormalizeNext]_normalizeVars =>
        [archived # None => SessionKept(archived, archived')]_archived
  BY GrowStep
<1> QED
  BY <1>1, <1>2, <1>3, PTL DEF NormalizeSpec, GrowthKeeps
================================================================================
