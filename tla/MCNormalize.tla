------------------------------ MODULE MCNormalize ------------------------------
(***************************************************************************)
(* Small instances of Normalize.                                           *)
(***************************************************************************)
EXTENDS Normalize, TLC

CONSTANTS c1, c2, t1, t2, short, long

AllAgents == {"claude", "codex", "gemini", "pi", "opencode"}
Claude == {"claude"}
OpenCode == {"opencode"}
Gemini == {"gemini"}

Plain(kind, text) ==
  [kind |-> kind, call |-> None, delegates |-> FALSE, tasks |-> <<>>, error |-> FALSE,
   usage |-> None, text |-> text, timed |-> TRUE]

Call(c, delegates, tasks) ==
  [Plain("tool_call", short) EXCEPT !.call = c, !.delegates = delegates, !.tasks = tasks]
Result(c, error, tasks) ==
  [Plain("tool_result", short) EXCEPT !.call = c, !.error = error, !.tasks = tasks]
Task(id, status) == [id |-> id, status |-> status]

Words ==
  {Plain("user", long), Plain("assistant", short), Plain("thinking", short),
   [Plain("user", short) EXCEPT !.timed = FALSE], Plain("system", short),
   Call(c1, TRUE, <<Task(t1, "active")>>), Call(c2, FALSE, <<>>),
   Result(c1, TRUE, <<>>), Result(c1, FALSE, <<Task(t1, "completed"), Task(t2, None)>>)}

\* A database is read in six steps: two kinds of part are enough.  Gemini's rows
\* take many forms: its results are those that succeed, since its parser marks none
\* as failed, and one call, with or without its result, is enough.
WordsOf ==
  [a \in AllAgents |->
    CASE a = "opencode" -> {Plain("assistant", long), Call(c1, FALSE, <<>>)}
      [] a = "gemini" -> {w \in Words : ~w.error /\ w.call # c2}
      [] OTHER -> Words]

FactsOf == [a \in AllAgents |-> IF a = "opencode" THEN 2 ELSE IF a = "claude" THEN 3 ELSE 4]
=============================================================================
