------------------------------ MODULE MCRetrieval ------------------------------
(***************************************************************************)
(* Small instances of Retrieval: a session that delegates a task and grows *)
(* by a transcript, and its child, first seen without a parent.            *)
(***************************************************************************)
EXTENDS Retrieval, TLC

CONSTANTS s1, s2, p1, p2, a1, a2, m1, b1, b2

Ev(kind, id, tasks, error) ==
  [kind |-> kind, call |-> id, delegates |-> FALSE, tasks |-> tasks, error |-> error,
   time |-> None, usage |-> None, text |-> kind]

Asked == Ev("user", None, <<>>, FALSE)
Called(c, tasks) == Ev("tool_call", c, tasks, FALSE)
Returned(c, tasks) == Ev("tool_result", c, tasks, FALSE)

Work == <<Asked, Called("c1", <<[id |-> "t", status |-> "active"]>>)>>
More == Work \o <<Returned("c1", <<>>), Called("c2", <<>>),
                  Returned("c2", <<[id |-> "t", status |-> "completed"]>>)>>

Source(locator, path, hash) == [locator |-> locator, path |-> path, hash |-> hash]

Saw(events, parent, sources) ==
  [events |-> events, parent |-> parent, started |-> 1, ended |-> None, sources |-> sources]

\* A transcript and its sidecar; the transcript grows.
Grown ==
  [s \in {s1, s2} |->
    IF s = s1
    THEN <<Saw(Work, None, {Source(1, p1, a1), Source(2, p2, m1)}),
           Saw(More, None, {Source(1, p1, a2), Source(2, p2, m1)})>>
    ELSE <<Saw(<<Asked>>, None, {Source(3, p1, b1)}),
           Saw(<<Asked>>, s1, {Source(3, p1, b2)})>>]

\* The same, but the transcript is found at another place the second time.
Moved ==
  [s \in {s1, s2} |->
    IF s = s1
    THEN <<Saw(Work, None, {Source(1, p1, a1)}), Saw(More, None, {Source(2, p1, a2)})>>
    ELSE Grown[s]]

Lengths == [c \in {a1, a2, m1, b1, b2} |-> IF c \in {a1, b1} THEN 1 ELSE IF c = m1 THEN 3 ELSE 2]

Asks ==
  {[from |-> None, to |-> None, kinds |-> {}],
   [from |-> 1, to |-> 1, kinds |-> {}],
   [from |-> 3, to |-> None, kinds |-> {"user", "tool_call"}],
   [from |-> 1, to |-> 4, kinds |-> {"user"}]}

\* A restore may follow any call, its own retry included.
Calls == [show_sources |-> 1, verify |-> 1, restore |-> 2, failed |-> 2]

NoLong == {}
=============================================================================
