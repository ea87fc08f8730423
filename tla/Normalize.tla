------------------------------- MODULE Normalize -------------------------------
(***************************************************************************)
(* An agent writes a session and the archive takes it in: discovery,       *)
(* parsing and normalization (parsers/*.rs, model.rs, store.rs             *)
(* upsert_many).  The session grows while it is read: a JSONL file in one  *)
(* step, OpenCode's database in six reads of a live database.              *)
(*                                                                         *)
(* How the agents write is external and follows what the parsers and their *)
(* tests expect: an agent only adds records, names its session in them,    *)
(* and OpenCode alone changes a row, to put the result of a tool into the  *)
(* part of its call.                                                       *)
(***************************************************************************)
EXTENDS Parsers

CONSTANTS
  Agents,      \* the agents that may write
  Vocabulary,  \* Vocabulary[a]: the facts a may tell, without their number and time
  MaxFacts,    \* bound: MaxFacts[a]: facts a tells
  QuietEdits,  \* whether OpenCode may change a part and not its session's time
  Loose        \* whether an agent may break what its parser relies on: Gemini leave
               \* out a message's id or add a result to a message it has written,
               \* Codex stamp the two records of a user's message with two times

ASSUME NormalizeAssumption ==
  /\ Agents \subseteq {"claude", "codex", "gemini", "pi", "opencode"}
  /\ \A a \in Agents : MaxFacts[a] \in Nat
  /\ {QuietEdits, Loose} \subseteq BOOLEAN
  /\ \A a \in Agents : \A t \in Vocabulary[a] :
       /\ t.tasks \in Seq({t.tasks[i] : i \in DOMAIN t.tasks})
       /\ Preview(t.text) # None
  /\ Preview(Unsaid.text) # None

VARIABLES
  agent,     \* the agent whose session it is
  path,      \* the file: its stem, and the session a subagent's file lies under
  said,      \* history: the facts told
  native,    \* the records of the file, or the rows of OpenCode's database
  reading,   \* what a run has read of OpenCode's database, None between runs
  archived   \* the stored session, None before the first

normalizeVars == <<agent, path, said, native, reading, archived>>

LiveDatabase == agent = "opencode"

(***************************************************************************)
(* The agent                                                               *)
(***************************************************************************)
Record(type, facts) ==
  [type |-> type, session |-> None, forked |-> None, facts |-> facts, rows |-> <<>>,
   time |-> IF facts = <<>> THEN None ELSE facts[1].time]

Named(record) == [record EXCEPT !.session = "own"]
Row(id, text, thoughts, calls, time) ==
  [id |-> id, text |-> text, thoughts |-> thoughts, calls |-> calls, time |-> time]

Started(a) ==
  CASE a = "claude" -> <<Record("ai-title", <<>>)>>
    [] a = "codex"  -> <<Named(Record("session_meta", <<>>))>>
    [] a = "gemini" -> <<Named(Record("header", <<>>))>>
    [] a = "pi"     -> <<Named(Record("session", <<>>))>>
    [] a = "opencode" -> [messages |-> {}, parts |-> <<>>, updated |-> 0]

NormalizeInit ==
  /\ agent \in Agents
  /\ path \in [stem : {"stem"}, under : IF agent = "claude" THEN {None, "main"} ELSE {None}]
  /\ said = <<>>
  /\ native = Started(agent)
  /\ reading = None
  /\ archived = None

Fact(t, n) ==
  [n |-> n, kind |-> t.kind, call |-> t.call, delegates |-> t.delegates,
   tasks |-> t.tasks, error |-> t.error, usage |-> t.usage, text |-> t.text,
   time |-> IF t.timed THEN n ELSE None, state |-> 0]

\* One or two facts that are told together.
Told ==
  {<<Fact(t, Len(said) + 1)>> : t \in Vocabulary[agent]}
    \cup {<<Fact(t[1], Len(said) + 1), Fact(t[2], Len(said) + 2)>> :
           t \in Vocabulary[agent] \X Vocabulary[agent]}

OneOf(fs, kinds) == Len(fs) = 1 /\ fs[1].kind \in kinds
AllOf(fs, kinds) == \A i \in DOMAIN fs : fs[i].kind \in kinds
Answer == {"assistant", "thinking", "tool_call"}

\* Claude names the session in every record; a file may hold records of another
\* session, and a fork says so in its first record.
ClaudeHeads ==
  IF said = <<>> THEN [session : {"own"}, forked : {None, "origin"}]
  ELSE [session : {"own", "other"}, forked : {None}]

ClaudeTypes(fs) ==
  {type \in {"user", "tool_result", "system"} : OneOf(fs, {type})}
    \cup {type \in {"assistant"} : AllOf(fs, Answer)}

ClaudeRecord(type, fs, head) ==
  [Record(type, fs) EXCEPT !.session = head.session, !.forked = head.forked]

ClaudeWrites(fs) ==
  {Append(native, ClaudeRecord(type, fs, head)) :
    type \in ClaudeTypes(fs), head \in ClaudeHeads}

\* Codex stamps its records, and records users' and assistants' messages twice.
CodexTypes(f) ==
  CASE f.kind = "user" -> {<<"user_message", "message_user">>, <<"message_user", "user_message">>}
    [] f.kind = "assistant" -> {<<"agent_message", "message">>}
    [] f.kind = "system" -> {<<"other_event">>, <<"compacted">>}
    [] f.kind = "usage" -> {<<"token_count">>}
    [] OTHER -> {<<type>> : type \in {k \in DOMAIN CodexKinds : CodexKinds[k] = f.kind}}

CodexLines(types, fs, second) ==
  [i \in DOMAIN types |->
    [Record(types[i], fs) EXCEPT !.time = IF i = 1 THEN fs[1].time ELSE second]]

CodexWrites(fs) ==
  LET seconds == {fs[1].time} \cup (IF Loose THEN {0} ELSE {})
  IN IF Len(fs) # 1 \/ fs[1].time = None THEN {}
     ELSE {native \o CodexLines(types, fs, second) :
             types \in CodexTypes(fs[1]), second \in seconds}

\* Gemini adds a message or writes the list of all messages again; with Loose it
\* may leave out the id, or write a message again with a result.
GeminiLine(type, fs, rows) == [Record(type, fs) EXCEPT !.time = None, !.rows = rows]

GeminiAdds(fs, row) ==
  {Append(native, GeminiLine("message", fs, <<row>>)),
   Append(native, GeminiLine("set", fs, Append(GeminiMessages(native), row)))}

\* Facts that are calls, or one call and its result.
Called(fs) ==
  (IF AllOf(fs, {"tool_call"}) THEN {[i \in DOMAIN fs |-> <<fs[i]>>]} ELSE {})
    \cup (IF Len(fs) = 2 /\ fs[1].kind = "tool_call" /\ fs[2].kind = "tool_result"
              /\ fs[2].call = fs[1].call THEN {<<fs>>} ELSE {})

\* An answer: a text or none, the thoughts up to some fact, and calls.
GeminiAnswers(id, fs) ==
  LET cuts == {cut \in (0 .. 1) \X (0 .. Len(fs)) :
                /\ cut[1] <= cut[2]
                /\ cut[1] = 1 => fs[1].kind = "assistant"
                /\ AllOf(SubSeq(fs, cut[1] + 1, cut[2]), {"thinking"})}
      answers(a, b) ==
        {Row(id, SubSeq(fs, 1, a), SubSeq(fs, a + 1, b), calls, fs[1].time) :
          calls \in Called(SubSeq(fs, b + 1, Len(fs)))}
  IN UNION {answers(cut[1], cut[2]) : cut \in cuts}

GeminiRowsOf(id, fs) ==
  GeminiAnswers(id, fs)
    \cup (IF OneOf(fs, {"user", "system"})
          THEN {Row(id, fs, <<>>, <<>>, fs[1].time)} ELSE {})

GeminiResults(fs) ==
  LET rows == GeminiMessages(native)
      open(i, j) == Len(rows[i].calls[j]) = 1 /\ rows[i].calls[j][1].call = fs[1].call
  IN UNION {{Append(native, GeminiLine("set", fs, [rows EXCEPT ![i].calls[j] = @ \o fs])) :
               j \in {j \in DOMAIN rows[i].calls : open(i, j)}} : i \in DOMAIN rows}

GeminiWrites(fs) ==
  LET ids == {fs[1].n} \cup (IF Loose THEN {None} ELSE {})
      rows == UNION {GeminiRowsOf(id, fs) : id \in ids}
      added == UNION {GeminiAdds(fs, row) : row \in rows}
  IN added \cup (IF Loose /\ OneOf(fs, {"tool_result"}) THEN GeminiResults(fs) ELSE {})

PiWrites(fs) ==
  IF OneOf(fs, {"tool_result"}) \/ AllOf(fs, {"user"}) \/ AllOf(fs, Answer)
  THEN {Append(native, Record("message", fs))}
  ELSE IF OneOf(fs, {"system"}) THEN {Append(native, Record("model_change", fs))} ELSE {}

Writes(fs) ==
  CASE agent = "claude" -> ClaudeWrites(fs)
    [] agent = "codex"  -> CodexWrites(fs)
    [] agent = "gemini" -> GeminiWrites(fs)
    [] agent = "pi"     -> PiWrites(fs)

Say ==
  /\ ~LiveDatabase
  /\ \E fs \in Told :
       /\ Len(said) + Len(fs) <= MaxFacts[agent]
       /\ native' \in Writes(fs)
       /\ said' = said \o fs
  /\ UNCHANGED <<agent, path, reading, archived>>

\* OpenCode inserts a message, then its parts, one by one.
OpenMessage ==
  /\ LiveDatabase
  /\ Len(said) < MaxFacts[agent]
  /\ \A m \in native.messages : \E i \in DOMAIN native.parts : native.parts[i].message = m
  /\ native' = [native EXCEPT !.messages = @ \cup {Len(said)}, !.updated = @ + 1]
  /\ UNCHANGED <<agent, path, said, reading, archived>>

AddPart ==
  /\ LiveDatabase
  /\ Len(said) < MaxFacts[agent] /\ native.messages # {}
  /\ \E t \in Vocabulary[agent], m \in native.messages :
       LET f == Fact(t, Len(said) + 1)
       IN /\ t.kind # "tool_result" /\ \A other \in native.messages : other <= m
          /\ said' = Append(said, f)
          /\ native' = [native EXCEPT !.parts = Append(@, [message |-> m, fact |-> f]),
                                      !.updated = @ + 1]
  /\ UNCHANGED <<agent, path, reading, archived>>

\* The result of a tool goes into the part of its call.
FinishPart ==
  /\ LiveDatabase
  /\ \E i \in DOMAIN native.parts, quiet \in {FALSE, QuietEdits} :
       /\ native.parts[i].fact.kind = "tool_call" /\ native.parts[i].fact.state = 0
       /\ native' = [native EXCEPT !.parts[i].fact.state = 1,
                                   !.updated = IF quiet THEN @ ELSE @ + 1]
  /\ UNCHANGED <<agent, path, said, reading, archived>>

(***************************************************************************)
(* The archive: upsert_many of one parsed session                          *)
(***************************************************************************)
Normalized(parsed, print, copies) ==
  [print |-> print, session |-> parsed.session, times |-> parsed.times,
   events |-> parsed.events, spans |-> DeriveSpans(parsed.events),
   aggregates |-> Aggregates(parsed.events, parsed.times, 0), copies |-> copies]

\* A file is discovered, parsed and stored; a file that names no session is not.
IngestFile ==
  /\ ~LiveDatabase
  /\ LET parsed == ParseFile(agent, native, path)
     IN /\ parsed.session.id # None
        /\ archived' = Normalized(parsed, native, None)
  /\ UNCHANGED <<agent, path, said, native, reading>>

(***************************************************************************)
(* OpenCode: discovery, then the statements of parse_session, each of them *)
(* beside the agent's writes; the whole database is copied last.           *)
(***************************************************************************)
Fresh == [at |-> "events", print |-> OpenCodePrint(native), updated |-> None,
          events |-> <<>>, messages |-> {}, parts |-> <<>>,
          bundled |-> {}, bundle |-> <<>>]

Read(at, next) ==
  /\ reading # None /\ reading.at = at
  /\ reading' = next
  /\ UNCHANGED <<agent, path, said, native, archived>>

Discover ==
  /\ LiveDatabase
  /\ reading = None
  /\ native.messages # {}
  /\ archived # None => archived.print # OpenCodePrint(native)
  /\ reading' = Fresh
  /\ UNCHANGED <<agent, path, said, native, archived>>

\* The session's row, then the messages joined with their parts.
ReadRow == Read("events", [reading EXCEPT !.at = "joined", !.updated = native.updated])

ReadEvents ==
  Read("joined", [reading EXCEPT !.at = "messages", !.events = OpenCodeEvents(native)])

ReadMessages == Read("messages", [reading EXCEPT !.at = "parts", !.messages = native.messages])

ReadParts == Read("parts", [reading EXCEPT !.at = "bundle", !.parts = native.parts])

\* build_native_bundle copies the tables by name.
CopyMessages == Read("bundle", [reading EXCEPT !.at = "rows", !.bundled = native.messages])

CopyParts == Read("rows", [reading EXCEPT !.at = "backup", !.bundle = native.parts])

\* Mutated form: the events are taken from the backup.
StoreFromBackup ==
  /\ reading # None /\ reading.at = "backup"
  /\ archived' = Normalized([session |-> Alone("own"), events |-> OpenCodeEvents(native),
                             times |-> [started |-> 0, ended |-> reading.updated]],
                            reading.print,
                            [messages |-> reading.messages, parts |-> reading.parts,
                             bundled |-> reading.bundled, bundle |-> reading.bundle,
                             backup |-> native])
  /\ reading' = None
  /\ UNCHANGED <<agent, path, said, native>>

\* Mutated form: the fingerprint is taken after the session was read.
StoreLatePrint ==
  /\ reading # None /\ reading.at = "backup"
  /\ archived' = Normalized([session |-> Alone("own"), events |-> reading.events,
                             times |-> [started |-> 0, ended |-> reading.updated]],
                            OpenCodePrint(native), None)
  /\ reading' = None
  /\ UNCHANGED <<agent, path, said, native>>

\* snapshot_database, and the store.
Store ==
  /\ reading # None /\ reading.at = "backup"
  /\ archived' = Normalized([session |-> Alone("own"), events |-> reading.events,
                             times |-> [started |-> 0, ended |-> reading.updated]],
                            reading.print,
                            [messages |-> reading.messages, parts |-> reading.parts,
                             bundled |-> reading.bundled, bundle |-> reading.bundle,
                             backup |-> native])
  /\ reading' = None
  /\ UNCHANGED <<agent, path, said, native>>

NormalizeNext ==
  \/ Say \/ OpenMessage \/ AddPart \/ FinishPart
  \/ IngestFile \/ Discover
  \/ ReadRow \/ ReadEvents \/ ReadMessages \/ ReadParts
  \/ CopyMessages \/ CopyParts \/ Store

NormalizeSpec == NormalizeInit /\ [][NormalizeNext]_normalizeVars

(***************************************************************************)
(* Properties                                                              *)
(***************************************************************************)
EventsNow ==
  IF LiveDatabase THEN OpenCodeEvents(native) ELSE ParseFile(agent, native, path).events

Essence(events) == [i \in DOMAIN events |-> <<events[i].of, events[i].kind>>]

\* However an agent repeats itself (Codex's mirrored messages, Gemini's lists
\* written again), the facts it told are events, each once and in order.  There is
\* no other event but the empty answer that Gemini's parser puts before the thoughts
\* and calls of a message without text, one for a message.
EachSaidOnce ==
  LET events == EventsNow
      telling == {i \in DOMAIN events : events[i].of # None}
  IN /\ {Essence(events)[i] : i \in telling} = {<<said[k].n, said[k].kind>> : k \in DOMAIN said}
     /\ \A i, j \in telling : i < j => events[i].of < events[j].of
     /\ \A i \in DOMAIN events \ telling :
          /\ agent = "gemini" /\ events[i].kind = "assistant"
          /\ i + 1 \in telling /\ events[i + 1].kind \in {"thinking", "tool_call"}

\* The checks of an archive hold of whatever a parser produces: what verify demands
\* of events and spans, so that no verification fails for what an agent wrote,
\* and the repair of `reindex`, whose SQL over the stored rows finds the
\* aggregates that the pass over the parsed events has stored.
ChecksAccept ==
  archived # None =>
    /\ EventsReferenceSpans(archived.events, archived.spans)
    /\ ParentsExist(archived.spans)
    /\ RangesInSession(archived.events, archived.spans)
    /\ Repaired(archived.aggregates, archived.events, archived.times, 0) = archived.aggregates

\* What is known of a span stays: its place, its start, and that a call ended.
SpanKept(old, new) ==
  /\ new.parent = old.parent /\ new.first = old.first
  /\ old.kind = "delegation" => new.kind = "delegation"
  /\ old.started # None => new.started = old.started
  /\ old.last # None => new.last # None /\ new.last >= old.last

SessionKept(old, new) ==
  /\ new.session = old.session
  /\ Len(old.events) <= Len(new.events)
  /\ Essence(old.events) = SubSeq(Essence(new.events), 1, Len(old.events))
  /\ \A id \in DOMAIN old.spans :
       /\ id \in DOMAIN new.spans /\ SpanKept(old.spans[id], new.spans[id])
       /\ id[1] = "call" /\ old.spans[id].status # "active" => new.spans[id].status # "active"

\* A session that grows keeps what is archived of it: its identity and parent, the
\* index of every event, the start of every span; a call that ended stays ended.
GrowthKeeps == [][archived # None => SessionKept(archived, archived')]_archived

\* The copies of OpenCode's rows hold whatever was indexed: they are read after it.
SnapshotCovers ==
  (archived # None /\ archived.copies # None) =>
    LET c == archived.copies
        has(messages, parts, n) ==
          \E i \in DOMAIN parts : parts[i].fact.n = n /\ parts[i].message \in messages
    IN \A i \in DOMAIN archived.events :
         /\ has(c.messages, c.parts, archived.events[i].of)
         /\ has(c.bundled, c.bundle, archived.events[i].of)
         /\ has(c.backup.messages, c.backup.parts, archived.events[i].of)

\* While the fingerprint is the stored one, the stored events are OpenCode's: what
\* the agent writes while its session is read is found by the next discovery.
PrintCovers ==
  (LiveDatabase /\ archived # None /\ archived.print = OpenCodePrint(native)) =>
    archived.events = OpenCodeEvents(native)

\* "Structured payloads containing multiple task_id objects create child
\* delegation spans under the host call": the call whose payload names the task.
HostsOf(task) ==
  {i \in DOMAIN said : said[i].kind \in ToolKinds /\ said[i].call # None
                         /\ \E k \in DOMAIN said[i].tasks : said[i].tasks[k].id = task}

TasksUnderHost ==
  archived # None =>
    \A id \in DOMAIN archived.spans : id[1] = "task" =>
      \E i \in HostsOf(id[2]) :
        /\ \A j \in HostsOf(id[2]) : i <= j
        /\ archived.spans[id].parent = <<"call", said[i].call>>
=============================================================================
