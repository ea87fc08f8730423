------------------------------- MODULE Projection ------------------------------
(***************************************************************************)
(* What model.rs derives from the events of one session: the indexes, the  *)
(* spans of tool calls and of delegated tasks, the materialized            *)
(* aggregates; and the SQL of store.rs that repairs the aggregates from    *)
(* the stored rows.                                                        *)
(*                                                                         *)
(* Abstractions.  An event is a record of the fields the derivations read: *)
(* its kind, the tool call it belongs to, whether it names a delegation    *)
(* tool, the task records in its payload in the order they are met, a      *)
(* reported error, a time, a reported usage, and its text.  Of a span are  *)
(* kept its place in the tree, its kind, its status, its interval; of the  *)
(* three token totals, one.  The times a task record carries of its own,   *)
(* names and payloads are left out.                                        *)
(***************************************************************************)
EXTENDS Integers, Sequences, FiniteSets

CONSTANTS
  None,   \* Option::None
  Long    \* the texts of more than PREVIEW_LIMIT characters

ASSUME ProjectionAssumption == None \notin Int

ToolKinds == {"tool_call", "tool_result"}
TurnKinds == {"user", "assistant"}

\* Option::or
OrElse(a, b) == IF a = None THEN b ELSE a

At(spans, id, default) == IF id \in DOMAIN spans THEN spans[id] ELSE default

Put(spans, id, span) ==
  [x \in DOMAIN spans \cup {id} |-> IF x = id THEN span ELSE spans[x]]

(***************************************************************************)
(* Spans.  Indexes count from 0: the event at position i has index i - 1.  *)
(***************************************************************************)
CallId(e) == <<"call", e.call>>
TaskId(task) == <<"task", task.id>>
InSpan(e) == e.kind \in ToolKinds /\ e.call # None

NewSpan(parent, kind, status, e, idx) ==
  [parent |-> parent, kind |-> kind, status |-> status,
   started |-> e.time, ended |-> None, first |-> idx, last |-> None]

\* What a tool event makes of the span of its call.
CallSpan(spans, e, idx) ==
  LET span == At(spans, CallId(e), NewSpan(None, "tool", "active", e, idx))
      seen == [span EXCEPT !.kind = IF e.delegates THEN "delegation" ELSE @,
                           !.started = OrElse(@, e.time)]
  IN IF e.kind = "tool_result"
     THEN [seen EXCEPT !.ended = e.time, !.last = idx,
                       !.status = IF e.error THEN "failed" ELSE "completed"]
     ELSE seen

\* Mutated form: a task ends where its host call started.
HostEndedTask(spans, e, idx, task) ==
  LET span == At(spans, TaskId(task),
                 NewSpan(CallId(e), "delegation", task.status, e, idx))
  IN IF task.status \in {None, "active"} THEN span
     ELSE [span EXCEPT !.status = task.status, !.ended = e.time,
                       !.last = spans[CallId(e)].first]

\* What a task record in the payload of e makes of the task's span.
TaskSpan(spans, e, idx, task) ==
  LET span == At(spans, TaskId(task),
                 NewSpan(CallId(e), "delegation", task.status, e, idx))
      told == [span EXCEPT !.status = IF task.status = None THEN @ ELSE task.status]
  IN IF task.status \in {None, "active"} THEN told
     ELSE [told EXCEPT !.ended = e.time, !.last = idx]

AddTasks(spans, e, idx) ==
  LET add[i \in 0 .. Len(e.tasks)] ==
        IF i = 0 THEN spans
        ELSE Put(add[i-1], TaskId(e.tasks[i]), TaskSpan(add[i-1], e, idx, e.tasks[i]))
  IN add[Len(e.tasks)]

DeriveSpans(events) ==
  LET derive[i \in 0 .. Len(events)] ==
        IF i = 0 THEN [id \in {} |-> None]
        ELSE LET e == events[i]
                 spans == derive[i-1]
             IN IF InSpan(e)
                THEN AddTasks(Put(spans, CallId(e), CallSpan(spans, e, i - 1)), e, i - 1)
                ELSE spans
  IN derive[Len(events)]

(***************************************************************************)
(* Aggregates                                                              *)
(***************************************************************************)
CountOf(events, Counted(_)) == Cardinality({i \in DOMAIN events : Counted(events[i])})

Preview(text) == [of |-> text, whole |-> text \notin Long]

\* SessionAggregates::derive and with_sort_time: one pass over the events.
Aggregates(events, session, now) ==
  LET none == [event_count |-> Len(events),
               turn_count |-> CountOf(events, LAMBDA e : e.kind \in TurnKinds),
               tool_call_count |-> 0, error_count |-> 0, total_tokens |-> None,
               first_user |-> None, last_assistant |-> None,
               sort_time |-> OrElse(session.ended, OrElse(session.started, now))]
      seen(a, e) ==
        [a EXCEPT
           !.tool_call_count = @ + (IF e.kind = "tool_call" THEN 1 ELSE 0),
           !.error_count = @ + (IF e.error THEN 1 ELSE 0),
           !.total_tokens = IF e.usage = None THEN @ ELSE OrElse(@, 0) + e.usage,
           !.first_user = IF e.kind = "user" THEN OrElse(@, Preview(e.text)) ELSE @,
           !.last_assistant = IF e.kind = "assistant" THEN Preview(e.text) ELSE @]
      pass[i \in 0 .. Len(events)] ==
        IF i = 0 THEN none ELSE seen(pass[i-1], events[i])
  IN pass[Len(events)]

\* AGGREGATE_PROJECTION over the stored rows, and truncate_stored_previews.  It
\* leaves the token totals as they are.
Repaired(aggregates, events, session, now) ==
  LET copied(kind, Wanted(_, _)) ==
        LET rows == {i \in DOMAIN events : events[i].kind = kind}
        IN IF rows = {} THEN None
           ELSE Preview(events[CHOOSE i \in rows : \A j \in rows : Wanted(i, j)].text)
  IN [aggregates EXCEPT
        !.event_count = Len(events),
        !.turn_count = CountOf(events, LAMBDA e : e.kind \in TurnKinds),
        !.tool_call_count = CountOf(events, LAMBDA e : e.kind = "tool_call"),
        !.error_count = CountOf(events, LAMBDA e : e.error),
        !.first_user = copied("user", LAMBDA i, j : i <= j),
        !.last_assistant = copied("assistant", LAMBDA i, j : i >= j),
        !.sort_time = OrElse(session.ended, OrElse(session.started, now))]

(***************************************************************************)
(* What verify checks of the rows of one session (store.rs verify)         *)
(***************************************************************************)
EventsReferenceSpans(events, spans) ==
  \A i \in DOMAIN events : InSpan(events[i]) => CallId(events[i]) \in DOMAIN spans

ParentsExist(spans) ==
  \A id \in DOMAIN spans : spans[id].parent \in DOMAIN spans \cup {None}

RangesInSession(events, spans) ==
  \A id \in DOMAIN spans :
    /\ spans[id].first \in 0 .. Len(events) - 1
    /\ spans[id].last # None => spans[id].last \in spans[id].first .. Len(events) - 1
=============================================================================
