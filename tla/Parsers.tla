--------------------------------- MODULE Parsers -------------------------------
(***************************************************************************)
(* What the five parsers make of a native session: parsers/claude.rs,      *)
(* codex.rs, gemini.rs, pi.rs and opencode.rs.                             *)
(*                                                                         *)
(* Abstractions.  A native session tells facts: a user's message, a piece  *)
(* of an answer, a tool call, its result, a note.  A fact carries what an  *)
(* event keeps of it; a parser decides which facts become events, in which *)
(* order, of which session, and which of their fields survive.  A record   *)
(* is a line of a JSONL file, with its type, the facts in it and the       *)
(* fields of its session's head; files hold complete lines.  Texts,        *)
(* subtypes, roles, event parents, models, titles and directories are left *)
(* out, and so are the filter of Pi's test sessions and Gemini's           *)
(* session_context preambles.                                              *)
(***************************************************************************)
EXTENDS Projection, SequencesExt

EventOf(kind, f) ==
  [kind |-> kind, of |-> f.n, call |-> f.call, delegates |-> f.delegates,
   tasks |-> f.tasks, error |-> f.error, time |-> f.time, usage |-> f.usage,
   text |-> f.text, state |-> f.state]

\* The parser that reads no error flag from a record.
Unflagged(events) == [i \in DOMAIN events |-> [events[i] EXCEPT !.error = FALSE]]

EventsOf(records, Parsed(_)) ==
  FlattenSeq([i \in DOMAIN records |-> Parsed(records[i])])

\* set_if_none over the records, and the value of the last record that has one.
First(records, Field(_)) ==
  LET known == {i \in DOMAIN records : Field(records[i]) # None}
  IN IF known = {} THEN None
     ELSE Field(records[CHOOSE i \in known : \A j \in known : i <= j])

Latest(records, Field(_)) ==
  LET known == {i \in DOMAIN records : Field(records[i]) # None}
  IN IF known = {} THEN None
     ELSE Field(records[CHOOSE i \in known : \A j \in known : i >= j])

Times(records) ==
  [started |-> First(records, LAMBDA r : r.time),
   ended |-> Latest(records, LAMBDA r : r.time)]

NoParent == [session |-> None, relation |-> None]

\* A session that is named and has no parent; no name is a parse error.
Alone(name) == [id |-> IF name = None THEN None ELSE <<name>>, parent |-> NoParent]

(***************************************************************************)
(* Claude: a record is a user's message, a tool's result or an answer of   *)
(* several blocks.  Every event keeps the whole record as its payload.     *)
(***************************************************************************)
ClaudeEvents(r) ==
  LET tasks == FlattenSeq([i \in DOMAIN r.facts |-> r.facts[i].tasks])
      told(kind, f) == [EventOf(kind, f) EXCEPT !.tasks = tasks,
                                              !.time = OrElse(r.time, 0)]
  IN CASE r.type = "user"       -> <<told("user", r.facts[1])>>
       [] r.type = "tool_result" -> Unflagged(<<told("tool_result", r.facts[1])>>)
       [] r.type = "assistant"  -> [i \in DOMAIN r.facts |-> told(r.facts[i].kind, r.facts[i])]
       [] r.type = "system"     -> <<told("system", r.facts[1])>>
       [] OTHER                 -> <<>>

\* The session the first record names, a fork of the one a record says.
ClaudeNamed(records) ==
  LET named == Alone(First(records, LAMBDA r : r.session))
      fork == First(records, LAMBDA r : r.forked)
  IN IF fork = None THEN named
     ELSE [named EXCEPT !.parent = [session |-> <<fork>>, relation |-> "fork"]]

\* Mutated form: the session of a file is the one its last record names.
ClaudeLatestSession(records, path) ==
  Alone(Latest(records, LAMBDA r : r.session))

\* A file in a subagents directory is a session under the one of that directory.
ClaudeSession(records, path) ==
  LET named == ClaudeNamed(records)
  IN IF named.id = None \/ path.under = None THEN named
     ELSE [id |-> <<path.under, path.stem>>,
           parent |-> [session |-> <<path.under>>, relation |-> "subagent"]]

(***************************************************************************)
(* Codex: a user's message may be recorded twice, as an event_msg and as a *)
(* response_item, and is told by its text and time.                        *)
(***************************************************************************)
CodexKinds ==
  [token_count |-> "usage", other_event |-> "system", message |-> "assistant",
   reasoning |-> "thinking", function_call |-> "tool_call",
   function_call_output |-> "tool_result", compacted |-> "system"]

\* Mutated form: seen_user is not consulted.
CodexAppend(told, r) ==
  IF r.type \in {"user_message", "message_user"}
  THEN [told EXCEPT !.events = Append(@, EventOf("user", r.facts[1]))]
  ELSE IF r.type \in DOMAIN CodexKinds
       THEN [told EXCEPT !.events = Append(@, EventOf(CodexKinds[r.type], r.facts[1]))]
       ELSE told

CodexRecord(told, r) ==
  LET f == r.facts[1]
      key == <<f.text, OrElse(r.time, 0)>>
  IN CASE r.type \in {"user_message", "message_user"} ->
            IF key \in told.seen THEN told
            ELSE [events |-> Append(told.events, EventOf("user", f)),
                  seen |-> told.seen \cup {key}]
       [] r.type \in DOMAIN CodexKinds ->
            [told EXCEPT !.events = Append(@, EventOf(CodexKinds[r.type], f))]
       [] OTHER -> told

CodexEvents(records) ==
  LET parse[i \in 0 .. Len(records)] ==
        IF i = 0 THEN [events |-> <<>>, seen |-> {}]
        ELSE CodexRecord(parse[i-1], records[i])
  IN Unflagged(parse[Len(records)].events)

CodexSession(records) ==
  Alone(First(records, LAMBDA r : IF r.type = "session_meta" THEN r.session ELSE None))

(***************************************************************************)
(* Gemini: a header with the session's id, then messages, one by one or as *)
(* the whole list again ($set).  Of the messages with one id the first     *)
(* counts, and of the messages with no id the first.                       *)
(***************************************************************************)
GeminiRows(records) == EventsOf(records, LAMBDA r : r.rows)

GeminiRow(read, row) ==
  IF row.id \in read.seen THEN read
  ELSE [rows |-> Append(read.rows, row), seen |-> read.seen \cup {row.id}]

GeminiMessages(records) ==
  LET rows == GeminiRows(records)
      read[i \in 0 .. Len(rows)] ==
        IF i = 0 THEN [rows |-> <<>>, seen |-> {}] ELSE GeminiRow(read[i-1], rows[i])
  IN read[Len(rows)].rows

\* The text of an answer that has none: an event that tells no fact.
Unsaid ==
  [n |-> None, kind |-> "assistant", call |-> None, delegates |-> FALSE, tasks |-> <<>>,
   error |-> FALSE, time |-> None, usage |-> None, text |-> None, state |-> 0]

\* A call and its result: the payload of both is the whole call, with all its tasks.
GeminiCall(call) ==
  [i \in DOMAIN call |->
    [EventOf(call[i].kind, call[i]) EXCEPT
       !.tasks = FlattenSeq([j \in DOMAIN call |-> call[j].tasks])]]

\* A message always has a text, empty if nothing was said; then come the thoughts,
\* then the calls, each followed by its result.
GeminiParts(row) ==
  LET text == IF row.text = <<>> THEN <<Unsaid>> ELSE row.text
      told(facts) == [i \in DOMAIN facts |-> EventOf(facts[i].kind, facts[i])]
  IN told(text) \o told(row.thoughts) \o EventsOf(row.calls, GeminiCall)

\* All events of a message have its time.
GeminiMessage(row) ==
  LET parts == GeminiParts(row)
  IN Unflagged([i \in DOMAIN parts |-> [parts[i] EXCEPT !.time = row.time]])

GeminiEvents(records) == EventsOf(GeminiMessages(records), GeminiMessage)

GeminiTimes(records) ==
  LET messages == GeminiMessages(records)
  IN [started |-> OrElse(First(records, LAMBDA r : r.time), Times(messages).started),
      ended |-> OrElse(Times(messages).ended, Latest(records, LAMBDA r : r.time))]

GeminiSession(records, path) ==
  Alone(OrElse(Latest(records, LAMBDA r : r.session), path.stem))

(***************************************************************************)
(* Pi: a message of several blocks, or the result of a tool.               *)
(***************************************************************************)
PiEvents(r) ==
  CASE r.type = "message" -> [i \in DOMAIN r.facts |-> EventOf(r.facts[i].kind, r.facts[i])]
    [] r.type \in {"model_change", "thinking_level_change"} -> <<EventOf("system", r.facts[1])>>
    [] OTHER -> <<>>

PiSession(records) ==
  Alone(First(records, LAMBDA r : IF r.type = "session" THEN r.session ELSE None))

(***************************************************************************)
(* OpenCode: rows of its database.  A part of a message is an event; the   *)
(* result of a tool is the state of its call's part.                       *)
(***************************************************************************)
OpenCodeEvents(db) ==
  LET joined[i \in 0 .. Len(db.parts)] ==
        IF i = 0 THEN <<>>
        ELSE IF db.parts[i].message \in db.messages
             THEN Append(joined[i-1], EventOf(db.parts[i].fact.kind, db.parts[i].fact))
             ELSE joined[i-1]
  IN Unflagged(joined[Len(db.parts)])

\* What discovery compares: the session's time and the numbers of its rows.
OpenCodePrint(db) == <<db.updated, Cardinality(db.messages), Len(db.parts)>>

(***************************************************************************)
(* A parsed file: fingerprint aside, a function of its records             *)
(***************************************************************************)
ParseFile(agent, records, path) ==
  CASE agent = "claude" ->
         [session |-> ClaudeSession(records, path), times |-> Times(records),
          events |-> EventsOf(records, ClaudeEvents)]
    [] agent = "codex" ->
         [session |-> CodexSession(records),
          times |-> Times(records), events |-> CodexEvents(records)]
    [] agent = "gemini" ->
         [session |-> GeminiSession(records, path), times |-> GeminiTimes(records),
          events |-> GeminiEvents(records)]
    [] agent = "pi" ->
         [session |-> PiSession(records), times |-> Times(records),
          events |-> EventsOf(records, PiEvents)]
=============================================================================
