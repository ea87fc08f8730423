--------------------------------- MODULE Watch ---------------------------------
(***************************************************************************)
(* TraceDb::watch (facade.rs): the loop that ingests at startup, after     *)
(* filesystem notifications that have been quiet for the debounce, and     *)
(* periodically as a fallback, until it is told to stop.                   *)
(*                                                                         *)
(* Abstractions.  Time passes in ticks; deadlines are the ticks left until *)
(* them.  A tick is longer than an iteration of the loop that has nothing  *)
(* to wait for, so no tick passes while a notification or an expired       *)
(* deadline is to be handled; runs and the stability pause take any number *)
(* of ticks.  Each source of notifications produces one in a tick, and     *)
(* equal notifications in the channel count as one.  What a run does       *)
(* inside `ingest` is Ingest.tla; here it looks at the agents in scope.    *)
(***************************************************************************)
EXTENDS Naturals, FiniteSets

CONSTANTS
  Agents,     \* the agents of the request
  Watched,    \* those whose native root the notifier could watch
  Interval,   \* watch_interval_seconds, in ticks
  Debounce,   \* watch_debounce_ms, in ticks
  MaxErrors,  \* bound: runs that fail as a whole
  Unset

ASSUME WatchAssumption ==
  /\ Watched \subseteq Agents
  /\ Interval \in Nat \ {0}
  /\ Debounce \in Nat \ {0}
  /\ MaxErrors \in Nat
  /\ Unset \notin Nat \cup Agents

VARIABLES
  dirty,      \* agents with native changes no run has looked at
  wrote,      \* what produced a notification since the last tick
  queue,      \* the channel: agents with an unread notification
  notifier,   \* "alive" as long as the sending side of the channel exists
  channel,    \* watch_channel_open
  pending,    \* pending_paths, as the agents they belong to
  settle,     \* ticks to pending_deadline, or Unset
  interval,   \* periodic_interval
  due,        \* ticks to next_periodic
  at,         \* where the loop is
  trigger,    \* what started the current or last run
  scope,      \* the agents of that run
  outcome,    \* what the run reported
  errors,     \* history: runs that failed as a whole
  waited,     \* history: ticks spent in the loop since the last run
  stop, once  \* the caller's stop flag; request.once

vars == <<dirty, wrote, queue, notifier, channel, pending, settle, interval, due,
          at, trigger, scope, outcome, errors, waited, stop, once>>

timers == <<settle, interval, due, waited>>
world  == <<dirty, wrote, notifier>>

Triggers == {"startup", "filesystem", "periodic"}

\* build_watch_channel: a notifier that cannot be created leaves a channel
\* without a sender, and a root that cannot be watched is only reported.
Init ==
  /\ dirty \in SUBSET Agents
  /\ wrote = {}
  /\ queue = {}
  /\ notifier \in (IF Watched = {} THEN {"gone"} ELSE {"alive"})
  /\ channel = "open"
  /\ pending = {}
  /\ settle = Unset
  /\ interval = Interval
  /\ due = Interval
  /\ at = "run"
  /\ trigger = "startup"
  /\ scope = Agents
  /\ outcome = "quiet"
  /\ errors = 0
  /\ waited = 0
  /\ stop = FALSE
  /\ once \in BOOLEAN

(***************************************************************************)
(* Outside the loop                                                        *)
(***************************************************************************)
\* An agent writes a session file; a watched root produces a notification.
Edit(a) ==
  /\ a \notin wrote
  /\ dirty' = dirty \cup {a}
  /\ wrote' = wrote \cup {a}
  /\ queue' = IF a \in Watched /\ notifier = "alive" THEN queue \cup {a} ELSE queue
  /\ UNCHANGED <<notifier, channel, pending, timers, at, trigger, scope, outcome,
                 errors, stop, once>>

\* A notification that is not relevant, or a notification error.
Noise ==
  /\ notifier = "alive"
  /\ Unset \notin wrote
  /\ wrote' = wrote \cup {Unset}
  /\ queue' = queue \cup {Unset}
  /\ UNCHANGED <<dirty, notifier, channel, pending, timers, at, trigger, scope, outcome,
                 errors, stop, once>>

NotifierDies ==
  /\ notifier = "alive"
  /\ notifier' = "gone"
  /\ UNCHANGED <<dirty, wrote, queue, channel, pending, timers, at, trigger, scope,
                 outcome, errors, stop, once>>

RequestStop ==
  /\ ~stop
  /\ stop' = TRUE
  /\ UNCHANGED <<world, queue, channel, pending, timers, at, trigger, scope, outcome,
                 errors, once>>

Less(n) == IF n = Unset \/ n = 0 THEN n ELSE n - 1

\* The loop has something to do before it would sleep.
Ready ==
  /\ at = "wait"
  /\ \/ stop
     \/ due = 0
     \/ channel = "open" /\ (queue # {} \/ settle = 0 \/ notifier = "gone")

Tick ==
  /\ ~Ready
  /\ wrote' = {}
  /\ settle' = Less(settle)
  /\ due' = Less(due)
  /\ waited' = IF at = "wait" THEN waited + 1 ELSE waited
  /\ UNCHANGED <<dirty, queue, notifier, channel, pending, interval, at, trigger, scope,
                 outcome, errors, stop, once>>

(***************************************************************************)
(* The loop                                                                *)
(***************************************************************************)
Looping == at = "wait" /\ ~stop

\* Mutated form: the paths of a notification replace those before it.
ReceiveLast(n) ==
  /\ Looping
  /\ channel = "open"
  /\ n \in queue
  /\ queue' = queue \ {n}
  /\ IF n = Unset
       THEN UNCHANGED <<pending, settle>>
       ELSE pending' = {n} /\ settle' = Debounce
  /\ UNCHANGED <<world, channel, interval, due, at, trigger, scope, outcome,
                 errors, waited, stop, once>>

\* recv_timeout prefers a queued notification to an expired deadline.
Receive(n) ==
  /\ Looping
  /\ channel = "open"
  /\ n \in queue
  /\ queue' = queue \ {n}
  /\ IF n = Unset
       THEN UNCHANGED <<pending, settle>>
       ELSE pending' = pending \cup {n} /\ settle' = Debounce
  /\ UNCHANGED <<world, channel, interval, due, at, trigger, scope, outcome,
                 errors, waited, stop, once>>

TimedOut == Looping /\ channel = "open" /\ queue = {} /\ notifier = "alive"

\* The debounce is over: wait_for_stable_paths pauses, then the run begins.
Debounced ==
  /\ TimedOut
  /\ settle = 0
  /\ at' = "pause"
  /\ UNCHANGED <<world, queue, channel, pending, timers, trigger, scope, outcome,
                 errors, stop, once>>

BeginRun(why, which) ==
  /\ at' = "run"
  /\ trigger' = why
  /\ scope' = which

\* agents_for_watch_paths: the agents whose roots hold the paths, or all.
WatchScope(paths) == IF paths = {} THEN Agents ELSE paths

\* The paths are taken whatever becomes of the run.
FilesystemRun ==
  /\ at = "pause"
  /\ BeginRun("filesystem", WatchScope(pending))
  /\ pending' = {}
  /\ settle' = Unset
  /\ UNCHANGED <<world, queue, channel, interval, due, outcome, errors, waited, stop, once>>

\* Mutated form: the periodic run waits for the debounce to be over.
PeriodicRunOnceSettled ==
  /\ Looping
  /\ due = 0
  /\ settle = Unset
  /\ IF channel = "open" THEN TimedOut ELSE TRUE
  /\ BeginRun("periodic", Agents)
  /\ UNCHANGED <<world, queue, channel, pending, timers, outcome, errors, stop, once>>

\* A deadline of the debounce that is also over goes first.
PeriodicRun ==
  /\ Looping
  /\ due = 0
  /\ IF channel = "open" THEN TimedOut /\ settle # 0 ELSE TRUE
  /\ BeginRun("periodic", Agents)
  /\ UNCHANGED <<world, queue, channel, pending, timers, outcome, errors, stop, once>>

\* The channel has no sender any more: it is not read again, and a run begins.
Disconnected ==
  /\ Looping
  /\ channel = "open"
  /\ notifier = "gone"
  /\ queue = {}
  /\ channel' = "closed"
  /\ BeginRun("periodic", Agents)
  /\ UNCHANGED <<world, queue, pending, timers, outcome, errors, stop, once>>

\* ingest looks at the agents in scope.  `failing`: candidates of theirs failed.
Scan ==
  /\ at = "run"
  /\ at' = "ran"
  /\ dirty' = dirty \ scope
  /\ \E failing \in BOOLEAN :
       outcome' = IF failing \/ dirty \cap scope # {} THEN "active" ELSE "quiet"
  /\ UNCHANGED <<wrote, queue, notifier, channel, pending, timers, trigger, scope,
                 errors, stop, once>>

\* ingest returns an error: a database failure, not that of one candidate.
ScanFails ==
  /\ at = "run"
  /\ errors < MaxErrors
  /\ errors' = errors + 1
  /\ at' = "ran"
  /\ outcome' = "error"
  /\ UNCHANGED <<world, queue, channel, pending, timers, trigger, scope, stop, once>>

Smaller(m, n) == IF m < n THEN m ELSE n

\* Mutated form: the backoff is not capped.
AdaptiveIntervalUncapped(current, report) ==
  IF report = "quiet" THEN 2 * current ELSE Interval

\* adaptive_periodic_interval.
AdaptiveInterval(current, report) ==
  IF report = "quiet" THEN Smaller(2 * current, 4 * Interval) ELSE Interval

\* The interval after a run.  A periodic run that returned no report keeps it;
\* so does the run at startup, which the loop has not begun to time.
NextInterval ==
  CASE trigger = "startup"                        -> Interval
    [] trigger = "filesystem"                     -> Interval
    [] trigger = "periodic" /\ outcome = "error"  -> interval
    [] trigger = "periodic" /\ outcome # "error"  -> AdaptiveInterval(interval, outcome)

\* Mutated form: only the loop over the closed channel looks at the stop flag.
LeaveWhenClosed ==
  /\ at = "wait"
  /\ stop
  /\ channel = "closed"
  /\ at' = "ended"
  /\ UNCHANGED <<world, queue, channel, pending, timers, trigger, scope, outcome,
                 errors, stop, once>>

\* The head of the loop sees the stop flag.
Leave ==
  /\ at = "wait"
  /\ stop
  /\ at' = "ended"
  /\ UNCHANGED <<world, queue, channel, pending, timers, trigger, scope, outcome,
                 errors, stop, once>>

\* The observer is told, the next periodic run is scheduled from now.
FinishRun ==
  /\ at = "ran"
  /\ at' = IF trigger = "startup" /\ once THEN "ended" ELSE "wait"
  /\ interval' = NextInterval
  /\ due' = NextInterval
  /\ waited' = 0
  /\ UNCHANGED <<world, queue, channel, pending, settle, trigger, scope, outcome,
                 errors, stop, once>>

\* The observer returns an error, which ends the watch.
ObserverFails ==
  /\ at = "ran"
  /\ at' = "ended"
  /\ UNCHANGED <<world, queue, channel, pending, timers, trigger, scope, outcome,
                 errors, stop, once>>

Loop ==
  \/ \E n \in Agents \cup {Unset} : Receive(n)
  \/ Debounced
  \/ FilesystemRun
  \/ PeriodicRun
  \/ Disconnected
  \/ Scan
  \/ ScanFails
  \/ FinishRun
  \/ ObserverFails
  \/ Leave

Next ==
  \/ \E a \in Agents : Edit(a)
  \/ Noise
  \/ NotifierDies
  \/ RequestStop
  \/ Tick
  \/ Loop

Spec == Init /\ [][Next]_vars

\* Time passes and the loop's thread is scheduled; nothing forces files to
\* change, the notifier to die or anyone to ask for a stop.
FairSpec == Spec /\ WF_vars(Tick) /\ WF_vars(Loop)

(***************************************************************************)
(* Properties                                                              *)
(***************************************************************************)
TypeOK ==
  /\ dirty \subseteq Agents /\ wrote \subseteq Agents \cup {Unset}
  /\ queue \subseteq Agents \cup {Unset}
  /\ notifier \in {"alive", "gone"} /\ channel \in {"open", "closed"}
  /\ pending \subseteq Agents
  /\ settle \in 0 .. Debounce \cup {Unset}
  /\ interval \in {Interval, 2 * Interval, 4 * Interval}
  /\ due \in 0 .. 4 * Interval
  /\ at \in {"run", "ran", "wait", "pause", "ended"}
  /\ trigger \in Triggers /\ scope \subseteq Agents
  /\ outcome \in {"quiet", "active", "error"}
  /\ errors \in 0 .. MaxErrors /\ waited \in Nat
  /\ stop \in BOOLEAN /\ once \in BOOLEAN

\* The variables keep their types, and however notifications, failures and the
\* backoff interleave, the loop never waits longer than four intervals between
\* two runs (references/watch.md: "back off from the configured interval to 2x
\* and then 4x").
SilenceBounded == TypeOK /\ (at = "wait" => waited <= 4 * Interval)

\* A change whose notification was sent is still queued or pending until a run
\* looks at it, unless a run that failed took the notification with it: no
\* notification is dropped between the channel, the debounce and the run.
NotificationKept ==
  errors = 0 /\ notifier = "alive" =>
    \A a \in dirty \cap Watched :
      \/ a \in queue \cup pending
      \/ at \in {"run", "ended"} /\ (a \in scope \/ at = "ended")

\* Every change is looked at by some run, or the watch has ended: however often its
\* debounce is postponed, and also when a run that failed as a whole lost the
\* notification of it, unless after such a loss filesystem runs for ever postpone
\* the periodic run that would make up for it.
EventuallyScanned ==
  \A a \in Agents :
    \/ a \in dirty ~> (a \notin dirty \/ at = "ended")
    \/ []<>(errors > 0 /\ at = "run" /\ trigger = "filesystem")

\* A stop request ends the watch, however many notifications keep arriving.
StopHonoured == stop ~> at = "ended"

\* A failed run brings the periodic scan back to the configured interval
\* (references/watch.md: "Filesystem activity or a failed ingest resets the
\* next periodic scan to the configured interval").
FailureResetsInterval ==
  [][at = "ran" /\ at' = "wait" /\ outcome = "error" => due' = Interval]_vars
=============================================================================
