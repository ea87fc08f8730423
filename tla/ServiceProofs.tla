---------------------------- MODULE ServiceProofs -----------------------------
(***************************************************************************)
(* Theorems about the background service: Watch, the loop it runs, for     *)
(* every set of agents, every interval, debounce and bound on failing      *)
(* runs; and Daemon, its installation, for every configuration, file and   *)
(* environment.                                                            *)
(*                                                                         *)
(* SilenceBounded is not inductive: that the loop has waited for no longer *)
(* than four intervals says nothing of how long it may go on waiting.  The *)
(* time waited and the time still to wait add up to at most four           *)
(* intervals: a tick takes from the one what it gives to the other.        *)
(*                                                                         *)
(* InstallApplies and RemovalHolds speak of commands that have ended.      *)
(* Their invariant says what the steps taken so far have achieved on each  *)
(* platform, and that no crash, restart or login undoes it.                *)
(* ConfigDocumented needs no state: one layer laid over a configuration is *)
(* described setting by setting, and three of them are composed.           *)
(***************************************************************************)
EXTENDS Watch, Daemon, TLAPS

(***************************************************************************)
(* The watch loop                                                          *)
(***************************************************************************)

WaitBounded == at = "wait" => waited + due <= 4 * Interval

WatchInv == TypeOK /\ WaitBounded

\* A deadline after a tick.
LEMMA LessTyped ==
  ASSUME NEW n \in Nat, NEW bound \in Nat, n <= bound
  PROVE  /\ Less(n) \in 0 .. bound
         /\ n # 0 => Less(n) = n - 1
  BY WatchAssumption DEF Less

\* The debounce deadline after a tick.
LEMMA SettleTyped ==
  ASSUME settle \in 0 .. Debounce \cup {Unset}
  PROVE  Less(settle) \in 0 .. Debounce \cup {Unset}
  BY WatchAssumption DEF Less

\* The interval after a run is the configured one, doubled at most twice.
LEMMA NextIntervalTyped ==
  ASSUME TypeOK
  PROVE  NextInterval \in {Interval, 2 * Interval, 4 * Interval}
<1>1. interval \in {Interval, 2 * Interval, 4 * Interval} /\ Interval \in Nat
  BY WatchAssumption DEF TypeOK
<1>2. AdaptiveInterval(interval, outcome) \in {Interval, 2 * Interval, 4 * Interval}
  BY <1>1 DEF AdaptiveInterval, Smaller
<1>3. trigger \in {"startup", "filesystem", "periodic"}
  BY DEF TypeOK, Triggers
<1> QED
  BY <1>1, <1>2, <1>3 DEF NextInterval

LEMMA WatchInit == Init => WatchInv
<1> SUFFICES ASSUME Init PROVE WatchInv
  OBVIOUS
<1>1. stop \in BOOLEAN /\ once \in BOOLEAN
  BY Zenon DEF Init
<1> QED
  BY <1>1, WatchAssumption DEF Init, WatchInv, TypeOK, WaitBounded, Triggers

LEMMA WatchStep == WatchInv /\ [Next]_vars => WatchInv'
<1> SUFFICES ASSUME WatchInv, [Next]_vars PROVE WatchInv'
  OBVIOUS
<1> USE DEF WatchInv, timers, world
<1>0. Interval \in Nat \ {0} /\ Debounce \in Nat \ {0} /\ Unset \notin Nat \cup Agents
      /\ MaxErrors \in Nat
  BY WatchAssumption
<1>1. ASSUME NEW a \in Agents, Edit(a) PROVE WatchInv'
  BY <1>1, Zenon DEF Edit, TypeOK, WaitBounded
<1>2. CASE Noise
  BY <1>2 DEF Noise, TypeOK, WaitBounded
<1>3. CASE NotifierDies
  BY <1>3 DEF NotifierDies, TypeOK, WaitBounded
<1>4. CASE RequestStop
  BY <1>4 DEF RequestStop, TypeOK, WaitBounded
<1>5. CASE Tick
  <2>1. settle' \in 0 .. Debounce \cup {Unset}
    BY <1>5, SettleTyped DEF Tick, TypeOK
  <2>2. due' \in 0 .. 4 * Interval /\ (due # 0 => due' = due - 1)
    BY <1>0, <1>5, LessTyped DEF Tick, TypeOK
  <2>3. waited' \in Nat
    BY <1>5 DEF Tick, TypeOK
  <2>4. WaitBounded'
    BY <1>0, <1>5, <2>2 DEF Tick, Ready, WaitBounded, TypeOK
  <2> QED
    BY <1>5, <2>1, <2>2, <2>3, <2>4 DEF Tick, TypeOK
<1>6. ASSUME NEW n \in Agents \cup {Unset}, Receive(n) PROVE WatchInv'
  <2>1. pending' \subseteq Agents /\ settle' \in 0 .. Debounce \cup {Unset}
    BY <1>0, <1>6 DEF Receive, TypeOK
  <2> QED
    BY <1>6, <2>1 DEF Receive, TypeOK, WaitBounded
<1>7. CASE Debounced
  BY <1>7 DEF Debounced, TypeOK, WaitBounded
<1>8. CASE FilesystemRun
  BY <1>8 DEF FilesystemRun, BeginRun, WatchScope, TypeOK, WaitBounded, Triggers
<1>9. CASE PeriodicRun
  BY <1>9 DEF PeriodicRun, BeginRun, TypeOK, WaitBounded, Triggers
<1>10. CASE Disconnected
  BY <1>10 DEF Disconnected, BeginRun, TypeOK, WaitBounded, Triggers
<1>11. CASE Scan
  BY <1>11 DEF Scan, TypeOK, WaitBounded
<1>12. CASE ScanFails
  BY <1>0, <1>12 DEF ScanFails, TypeOK, WaitBounded
<1>13. CASE FinishRun
  <2>1. interval' \in {Interval, 2 * Interval, 4 * Interval} /\ due' = interval' /\ waited' = 0
    BY <1>13, NextIntervalTyped DEF FinishRun
  <2> QED
    BY <1>0, <1>13, <2>1 DEF FinishRun, TypeOK, WaitBounded
<1>14. CASE ObserverFails
  BY <1>14 DEF ObserverFails, TypeOK, WaitBounded
<1>15. CASE Leave
  BY <1>15 DEF Leave, TypeOK, WaitBounded
<1>16. CASE UNCHANGED vars
  BY <1>16 DEF vars, TypeOK, WaitBounded
<1> QED
  BY <1>1, <1>2, <1>3, <1>4, <1>5, <1>6, <1>7, <1>8, <1>9, <1>10, <1>11, <1>12, <1>13,
     <1>14, <1>15, <1>16 DEF Next, Loop

LEMMA WatchAlways == Spec => []WatchInv
  BY WatchInit, WatchStep, PTL DEF Spec

\* The loop is never silent for longer than four intervals.
THEOREM SilenceBoundedAlways == Spec => []SilenceBounded
<1>1. WatchInv => SilenceBounded
  BY WatchAssumption DEF WatchInv, WaitBounded, SilenceBounded, TypeOK
<1> QED
  BY <1>1, WatchAlways, PTL

-------------------------------------------------------------------------------
(***************************************************************************)
(* Notifications                                                           *)
(***************************************************************************)
LEMMA NotificationStep ==
  WatchInv /\ NotificationKept /\ [Next]_vars => NotificationKept'
<1> SUFFICES ASSUME WatchInv, NotificationKept, [Next]_vars,
                    errors' = 0, notifier' = "alive",
                    NEW a \in dirty' \cap Watched
             PROVE  \/ a \in queue' \cup pending'
                    \/ at' \in {"run", "ended"} /\ (a \in scope' \/ at' = "ended")
  BY DEF NotificationKept
<1> USE DEF NotificationKept, timers, world
<1>0. TypeOK /\ a \in Agents /\ a # Unset /\ Interval \in Nat /\ MaxErrors \in Nat
  BY WatchAssumption DEF WatchInv
<1>1. ASSUME NEW b \in Agents, Edit(b)
      PROVE  a \in queue' \cup pending' \/ (at' \in {"run", "ended"} /\ (a \in scope' \/ at' = "ended"))
  <2>0. errors = 0 /\ notifier = "alive" /\ pending' = pending /\ at' = at /\ scope' = scope
        /\ a \in Watched /\ a \in dirty' /\ dirty' = dirty \cup {b}
    BY <1>1 DEF Edit
  <2>1. CASE a = b
    <3>1. queue' = queue \cup {a}
      BY <1>1, <2>0, <2>1 DEF Edit
    <3> QED
      BY <3>1
  <2>2. CASE a # b
    <3>1. a \in dirty \cap Watched
      BY <2>0, <2>2
    <3>2. a \in queue \cup pending \/ (at \in {"run", "ended"} /\ (a \in scope \/ at = "ended"))
      BY <2>0, <3>1
    <3>3. queue \subseteq queue'
      BY <1>1 DEF Edit
    <3> QED
      BY <2>0, <3>2, <3>3
  <2> QED
    BY <2>1, <2>2
<1>2. CASE Noise
  BY <1>2 DEF Noise
<1>3. CASE NotifierDies
  BY <1>3 DEF NotifierDies
<1>4. CASE RequestStop
  BY <1>4 DEF RequestStop
<1>5. CASE Tick
  BY <1>5 DEF Tick
<1>6. ASSUME NEW n \in Agents \cup {Unset}, Receive(n) PROVE a \in queue' \cup pending'
  BY <1>0, <1>6 DEF Receive, Looping
<1>7. CASE Debounced
  BY <1>7 DEF Debounced, TimedOut, Looping
<1>8. CASE FilesystemRun
  BY <1>0, <1>8 DEF FilesystemRun, BeginRun, WatchScope
<1>9. CASE PeriodicRun
  BY <1>0, <1>9 DEF PeriodicRun, BeginRun
<1>10. CASE Disconnected
  BY <1>10 DEF Disconnected
<1>11. CASE Scan
  BY <1>11 DEF Scan
<1>12. CASE ScanFails
  BY <1>0, <1>12 DEF ScanFails, TypeOK
<1>13. CASE FinishRun
  BY <1>13 DEF FinishRun
<1>14. CASE ObserverFails
  BY <1>14 DEF ObserverFails
<1>15. CASE Leave
  BY <1>15 DEF Leave
<1>16. CASE UNCHANGED vars
  BY <1>16 DEF vars
<1> QED
  BY <1>1, <1>2, <1>3, <1>4, <1>5, <1>6, <1>7, <1>8, <1>9, <1>10, <1>11, <1>12, <1>13,
     <1>14, <1>15, <1>16 DEF Next, Loop

\* No notification is dropped between the channel, the debounce and the run:
\* whatever order notifications, deadlines, runs and stops come in.
THEOREM NotificationKeptAlways == Spec => []NotificationKept
<1>1. Init => NotificationKept
  BY WatchAssumption DEF Init, NotificationKept
<1> QED
  BY <1>1, WatchAlways, NotificationStep, PTL DEF Spec

(***************************************************************************)
(* The commands and the service manager                                    *)
(***************************************************************************)
Ops == {"none", "install", "uninstall", "start", "stop"}

\* What the records of the command and of the service are.
Shape ==
  /\ platform \in {"macos", "linux", "windows"}
  /\ enabled \in BOOLEAN
  /\ DOMAIN service = {"state", "args", "config", "restarts"}
  /\ service.state \in {"off", "up", "crashed"}
  /\ DOMAIN command = {"op", "at", "config", "args", "state", "running", "left", "login"}
  /\ command.op \in Ops
  /\ command.op = "none" => command.state = "failed"
  /\ command.at \in Nat \ {0}
  /\ command.state \in {"runs", "ok", "failed", "not_installed"}

\* Only a systemd unit is enabled; launchd runs nothing it has not loaded.
ManagerInv ==
  /\ enabled => platform = "linux"
  /\ platform = "macos" /\ known = None => service.state = "off"

\* A command that has succeeded is past its last step, and one that runs has not
\* seen a login.
Under(op) == command.op = op /\ command.state \in {"runs", "ok"}
Past(n) == command.at > n

CommandInv ==
  /\ command.state = "ok" => Past(Len(Program(command.op)))
  /\ command.state = "runs" => ~command.login

\* What the steps of an install have done so far: the definition is written, the
\* manager has it, the service has been started.
InstallInv ==
  Under("install") =>
    /\ Past(IF platform = "windows" THEN 2 ELSE 1) => unit = command.args
    /\ platform # "macos" /\ Past(IF platform = "windows" THEN 3 ELSE 2) => known = command.args
    /\ Past(IF platform = "windows" THEN 4 ELSE 3) =>
         /\ known = command.args /\ command.args # None
         /\ platform = "linux" => enabled
         /\ service.state # "off"
         /\ platform = "macos" \/ ~command.running \/ command.login =>
              service.args = command.args

\* What the steps of an uninstall have done, and that what is off stays off.
UninstallInv ==
  Under("uninstall") =>
    /\ platform = "macos" =>
         /\ Past(1) /\ ~command.left => known = None
         /\ Past(2) => unit = None
         /\ command.login => known = None
    /\ platform = "linux" =>
         /\ Past(1) => ~enabled /\ service.state = "off"
         /\ Past(2) => unit = None
         /\ Past(3) => known = None
    /\ platform = "windows" =>
         /\ Past(1) => known = None
         /\ command.login => service.state = "off"

StopInv ==
  Under("stop") /\ Past(1) /\ ~command.login => service.state = "off"

DaemonInv ==
  Shape /\ ManagerInv /\ CommandInv /\ InstallInv /\ UninstallInv /\ StopInv

\* The steps of each command.
LEMMA Programs ==
  /\ platform = "macos" =>
       /\ Len(Program("install")) = 3 /\ Len(Program("uninstall")) = 2
       /\ Len(Program("start")) = 1 /\ Len(Program("stop")) = 1
       /\ Program("install")[1] = "write" /\ Program("install")[2] = "unload"
       /\ Program("install")[3] = "load"
       /\ Program("uninstall")[1] = "unload" /\ Program("uninstall")[2] = "remove"
       /\ Program("start")[1] = "load" /\ Program("stop")[1] = "unload"
  /\ platform = "linux" =>
       /\ Len(Program("install")) = 3 /\ Len(Program("uninstall")) = 3
       /\ Len(Program("start")) = 1 /\ Len(Program("stop")) = 1
       /\ Program("install")[1] = "write" /\ Program("install")[2] = "reload"
       /\ Program("install")[3] = "enable"
       /\ Program("uninstall")[1] = "disable" /\ Program("uninstall")[2] = "remove"
       /\ Program("uninstall")[3] = "reload"
       /\ Program("start")[1] = "run" /\ Program("stop")[1] = "end"
  /\ platform = "windows" =>
       /\ Len(Program("install")) = 4 /\ Len(Program("uninstall")) = 2
       /\ Len(Program("start")) = 1 /\ Len(Program("stop")) = 1
       /\ Program("install")[1] = "whoami" /\ Program("install")[2] = "write"
       /\ Program("install")[3] = "create" /\ Program("install")[4] = "run"
       /\ Program("uninstall")[1] = "delete" /\ Program("uninstall")[2] = "remove"
       /\ Program("start")[1] = "run" /\ Program("stop")[1] = "end"
<1>1. platform = "macos" => \A op : Program(op) = Launchd[op]
  BY DEF Program
<1>2. platform = "linux" => \A op : Program(op) = Systemd[op]
  BY DEF Program
<1>3. platform = "windows" => \A op : Program(op) = Schtasks[op]
  BY DEF Program
<1> QED
  BY <1>1, <1>2, <1>3 DEF Launchd, Systemd, Schtasks

\* A service that is started has the arguments it is given and is not off.
LEMMA RunningShape ==
  ASSUME NEW args, NEW restarts
  PROVE  /\ DOMAIN Running(args, restarts) = {"state", "args", "config", "restarts"}
         /\ Running(args, restarts).state \in {"up", "crashed"}
         /\ Running(args, restarts).args = args
  BY DEF Running

LEMMA LaunchedShape ==
  ASSUME Shape, NEW args
  PROVE  /\ DOMAIN Launched(args) = {"state", "args", "config", "restarts"}
         /\ Launched(args).state \in {"up", "crashed"}
         /\ service.state # "up" => Launched(args).args = args
  BY RunningShape DEF Launched, Shape

LEMMA DaemonStarts == DaemonInit => DaemonInv
<1> SUFFICES ASSUME DaemonInit PROVE DaemonInv
  OBVIOUS
<1>1. platform \in {"macos", "linux", "windows"}
  BY DaemonAssumption DEF DaemonInit
<1>2. /\ command = [op |-> "none", at |-> 1, config |-> None, args |-> None,
                    state |-> "failed", running |-> FALSE, left |-> FALSE, login |-> FALSE]
      /\ service = Stopped /\ enabled = FALSE
  BY DEF DaemonInit
<1>3. Shape
  <2>1. /\ DOMAIN service = {"state", "args", "config", "restarts"} /\ service.state = "off"
        /\ DOMAIN command = {"op", "at", "config", "args", "state", "running", "left", "login"}
        /\ command.op = "none" /\ command.at = 1 /\ command.state = "failed"
    BY <1>2 DEF Stopped
  <2>2. enabled \in BOOLEAN
    BY <1>2, Zenon
  <2> QED
    BY <1>1, <2>1, <2>2 DEF Shape, Ops
<1> QED
  BY <1>2, <1>3 DEF DaemonInv, ManagerInv, CommandInv, InstallInv, UninstallInv, StopInv,
                    Under, Stopped

\* What a new command starts from.
LEMMA InvokeKeeps ==
  ASSUME DaemonInv, NEW op \in Ops \ {"none"}, NEW environment, NEW request, NEW options,
         Invoke(op, environment, request, options)
  PROVE  DaemonInv'
<1>1. /\ DOMAIN command' = {"op", "at", "config", "args", "state", "running", "left", "login"}
      /\ command'.op = op /\ command'.at = 1
      /\ command'.state \in {"failed", "not_installed", "runs"}
      /\ ~command'.running /\ ~command'.login
  BY Zenon DEF Invoke
<1>2. UNCHANGED <<platform, unit, known, enabled, service>>
  BY DEF Invoke
<1>3. Shape' /\ ManagerInv' /\ CommandInv'
  BY <1>1, <1>2 DEF DaemonInv, Shape, ManagerInv, CommandInv
<1> QED
  BY <1>1, <1>2, <1>3 DEF DaemonInv, InstallInv, UninstallInv, StopInv, Under, Past, Shape

\* What a step of the manager may do to the definitions and to the service.
LEMMA DoesKeeps ==
  ASSUME DaemonInv, Working, Does(Step), UNCHANGED platform
  PROVE  /\ enabled' \in BOOLEAN
         /\ DOMAIN service' = {"state", "args", "config", "restarts"}
         /\ service'.state \in {"off", "up", "crashed"}
         /\ ManagerInv'
<1> USE DEF DaemonInv
<1>0. /\ command.op \in Ops \ {"none"} /\ platform \in {"macos", "linux", "windows"}
      /\ command.at \in 1 .. Len(Program(command.op))
  BY Programs DEF Working, Shape, Ops
<1>1. Step = "enable" => platform = "linux"
  BY <1>0, Programs DEF Step, Ops
<1>2. platform = "macos" => Step \in {"write", "unload", "load", "remove"}
  BY <1>0, Programs DEF Step, Ops
<1>3. ASSUME NEW args PROVE DOMAIN Launched(args) = {"state", "args", "config", "restarts"}
                            /\ Launched(args).state \in {"up", "crashed"}
  BY LaunchedShape
<1>4. DOMAIN Stopped = {"state", "args", "config", "restarts"} /\ Stopped.state = "off"
  BY DEF Stopped
<1>5. CASE Step = "write" /\ WriteUnit
  BY <1>5 DEF WriteUnit, Shape, ManagerInv
<1>6. CASE Step = "remove" /\ RemoveUnit
  BY <1>6 DEF RemoveUnit, Shape, ManagerInv
<1>7. CASE Step = "unload" /\ Unload
  BY <1>4, <1>7 DEF Unload, Shape, ManagerInv
<1>8. CASE Step = "load" /\ LoadUnit
  BY <1>3, <1>8 DEF LoadUnit, Shape, ManagerInv
<1>9. CASE Step = "reload" /\ Reload
  BY <1>2, <1>9 DEF Reload, Shape, ManagerInv
<1>10. CASE Step = "enable" /\ Enable
  BY <1>1, <1>3, <1>10 DEF Enable, Shape, ManagerInv
<1>11. CASE Step = "disable" /\ Disable
  BY <1>4, <1>11 DEF Disable, Shape, ManagerInv
<1>12. CASE Step = "whoami" /\ UNCHANGED <<unit, known, enabled, service>>
  BY <1>12 DEF Shape, ManagerInv
<1>13. CASE Step = "create" /\ CreateTask
  BY <1>2, <1>13 DEF CreateTask, Shape, ManagerInv
<1>14. CASE Step = "delete" /\ DeleteTask
  BY <1>2, <1>14 DEF DeleteTask, Shape, ManagerInv
<1>15. CASE Step = "run" /\ RunKnown
  BY <1>3, <1>15 DEF RunKnown, Shape, ManagerInv
<1>16. CASE Step = "end" /\ End
  BY <1>4, <1>16 DEF End, Shape, ManagerInv
<1> QED
  BY <1>5, <1>6, <1>7, <1>8, <1>9, <1>10, <1>11, <1>12, <1>13, <1>14, <1>15, <1>16 DEF Does

LEMMA StepDoneKeeps ==
  ASSUME DaemonInv, StepDone
  PROVE  DaemonInv'
<1> USE DEF DaemonInv
<1>0. /\ command.op \in Ops \ {"none"} /\ platform \in {"macos", "linux", "windows"}
      /\ command.at \in 1 .. Len(Program(command.op)) /\ command.state = "runs"
      /\ ~command.login
  BY Programs DEF StepDone, Working, Shape, Ops, CommandInv
<1>1. /\ DOMAIN command' = {"op", "at", "config", "args", "state", "running", "left", "login"}
      /\ command'.op = command.op /\ command'.args = command.args
      /\ command'.at = command.at + 1 /\ command'.state = "runs"
  BY <1>0 DEF StepDone, Shape
<1>2. ~command'.login /\ (~command'.running => service.state # "up")
      /\ (command'.left <=> command.left)
  <2>1. command'.login = command.login /\ command'.running = (service.state = "up")
        /\ command'.left = command.left
    BY Zenon DEF StepDone, Shape
  <2> QED
    BY <1>0, <2>1, Zenon
<1>3. Does(Step) /\ UNCHANGED platform
  BY DEF StepDone
<1>4. Shape' /\ ManagerInv' /\ CommandInv'
  <2>1. /\ enabled' \in BOOLEAN
        /\ DOMAIN service' = {"state", "args", "config", "restarts"}
        /\ service'.state \in {"off", "up", "crashed"}
        /\ ManagerInv'
    BY <1>3, DoesKeeps DEF StepDone
  <2> QED
    BY <1>0, <1>1, <1>2, <1>3, <2>1 DEF Shape, CommandInv
<1>5. InstallInv'
  <2> SUFFICES ASSUME command.op = "install" PROVE InstallInv'
    BY <1>1 DEF InstallInv, Under
  <2>0. /\ platform \in {"macos", "linux"} => command.at \in 1 .. 3
        /\ platform = "windows" => command.at \in 1 .. 4
    <3>1. command.at \in 1 .. Len(Program("install"))
      BY <1>0
    <3> QED
      BY <3>1, Programs
  <2> USE DEF InstallInv, Under, Past
  <2>1. CASE platform = "macos"
    <3>1. CASE command.at = 1
      <4>1. WriteUnit
        BY <1>3, <2>1, <3>1, Programs DEF Step, Does
      <4> QED
        BY <1>1, <1>3, <2>1, <3>1, <4>1 DEF WriteUnit
    <3>2. CASE command.at = 2
      <4>1. Unload
        BY <1>3, <2>1, <3>2, Programs DEF Step, Does
      <4> QED
        BY <1>0, <1>1, <1>3, <2>1, <3>2, <4>1 DEF Unload
    <3>3. CASE command.at = 3
      <4>1. LoadUnit
        BY <1>3, <2>1, <3>3, Programs DEF Step, Does
      <4>2. service.state # "up"
        BY <2>1, <4>1 DEF LoadUnit, ManagerInv
      <4>3. service'.state # "off" /\ service'.args = unit
        BY <4>1, <4>2, LaunchedShape DEF LoadUnit
      <4> QED
        BY <1>0, <1>1, <1>3, <2>1, <3>3, <4>1, <4>3 DEF LoadUnit
    <3> QED
      BY <2>0, <2>1, <3>1, <3>2, <3>3
  <2>2. CASE platform = "linux"
    <3>1. CASE command.at = 1
      <4>1. WriteUnit
        BY <1>3, <2>2, <3>1, Programs DEF Step, Does
      <4> QED
        BY <1>1, <1>3, <2>2, <3>1, <4>1 DEF WriteUnit
    <3>2. CASE command.at = 2
      <4>1. Reload
        BY <1>3, <2>2, <3>2, Programs DEF Step, Does
      <4> QED
        BY <1>0, <1>1, <1>3, <2>2, <3>2, <4>1 DEF Reload
    <3>3. CASE command.at = 3
      <4>1. Enable
        BY <1>3, <2>2, <3>3, Programs DEF Step, Does
      <4>2. unit = command.args /\ known = command.args /\ Over(known, unit) = command.args
            /\ command.args # None
        BY <1>0, <2>2, <3>3, <4>1 DEF Enable, Over
      <4>3. service'.state # "off" /\ (service.state # "up" => service'.args = command.args)
            /\ known' = command.args /\ unit' = unit /\ enabled'
        BY <4>1, <4>2, LaunchedShape DEF Enable
      <4> QED
        BY <1>0, <1>1, <1>2, <1>3, <2>2, <3>3, <4>2, <4>3
    <3> QED
      BY <2>0, <2>2, <3>1, <3>2, <3>3
  <2>3. CASE platform = "windows"
    <3>1. CASE command.at = 1
      BY <1>1, <1>3, <2>3, <3>1
    <3>2. CASE command.at = 2
      <4>1. WriteUnit
        BY <1>3, <2>3, <3>2, Programs DEF Step, Does
      <4> QED
        BY <1>1, <1>3, <2>3, <3>2, <4>1 DEF WriteUnit
    <3>3. CASE command.at = 3
      <4>1. CreateTask
        BY <1>3, <2>3, <3>3, Programs DEF Step, Does
      <4> QED
        BY <1>0, <1>1, <1>3, <2>3, <3>3, <4>1 DEF CreateTask
    <3>4. CASE command.at = 4
      <4>1. RunKnown
        BY <1>3, <2>3, <3>4, Programs DEF Step, Does
      <4>2. unit = command.args /\ known = command.args /\ command.args # None
        BY <1>0, <2>3, <3>4, <4>1 DEF RunKnown
      <4>3. service'.state # "off" /\ (service.state # "up" => service'.args = command.args)
            /\ known' = known /\ unit' = unit
        BY <4>1, <4>2, LaunchedShape DEF RunKnown
      <4> QED
        BY <1>0, <1>1, <1>2, <1>3, <2>3, <3>4, <4>2, <4>3
    <3> QED
      BY <2>0, <2>3, <3>1, <3>2, <3>3, <3>4
  <2> QED
    BY <1>0, <2>1, <2>2, <2>3
<1>6. UninstallInv'
  <2> SUFFICES ASSUME command.op = "uninstall" PROVE UninstallInv'
    BY <1>1 DEF UninstallInv, Under
  <2>0. /\ platform \in {"macos", "windows"} => command.at \in 1 .. 2
        /\ platform = "linux" => command.at \in 1 .. 3
    <3>1. command.at \in 1 .. Len(Program("uninstall"))
      BY <1>0
    <3> QED
      BY <3>1, Programs
  <2> USE DEF UninstallInv, Under, Past
  <2>1. CASE platform = "macos"
    <3>1. CASE command.at = 1
      <4>1. Unload
        BY <1>3, <2>1, <3>1, Programs DEF Step, Does
      <4> QED
        BY <1>1, <1>2, <1>3, <2>1, <3>1, <4>1 DEF Unload
    <3>2. CASE command.at = 2
      <4>1. RemoveUnit
        BY <1>3, <2>1, <3>2, Programs DEF Step, Does
      <4>2. Past(1)
        BY <3>2
      <4>3. ~command.left => known = None
        BY <1>0, <2>1, <4>2, Zenon
      <4>4. ~command'.left => known' = None
        BY <1>2, <4>1, <4>3, Zenon DEF RemoveUnit
      <4> QED
        BY <1>1, <1>2, <1>3, <2>1, <3>2, <4>1, <4>4 DEF RemoveUnit
    <3> QED
      BY <2>0, <2>1, <3>1, <3>2
  <2>2. CASE platform = "linux"
    <3>1. CASE command.at = 1
      <4>1. Disable
        BY <1>3, <2>2, <3>1, Programs DEF Step, Does
      <4>2. ~enabled' /\ service'.state = "off"
        BY <4>1 DEF Disable, Stopped
      <4> QED
        BY <1>1, <1>3, <2>2, <3>1, <4>2
    <3>2. CASE command.at = 2
      <4>1. RemoveUnit
        BY <1>3, <2>2, <3>2, Programs DEF Step, Does
      <4> QED
        BY <1>0, <1>1, <1>3, <2>2, <3>2, <4>1 DEF RemoveUnit
    <3>3. CASE command.at = 3
      <4>1. Reload
        BY <1>3, <2>2, <3>3, Programs DEF Step, Does
      <4> QED
        BY <1>0, <1>1, <1>3, <2>2, <3>3, <4>1 DEF Reload
    <3> QED
      BY <2>0, <2>2, <3>1, <3>2, <3>3
  <2>3. CASE platform = "windows"
    <3>1. CASE command.at = 1
      <4>1. DeleteTask
        BY <1>3, <2>3, <3>1, Programs DEF Step, Does
      <4> QED
        BY <1>1, <1>2, <1>3, <2>3, <3>1, <4>1 DEF DeleteTask
    <3>2. CASE command.at = 2
      <4>1. RemoveUnit
        BY <1>3, <2>3, <3>2, Programs DEF Step, Does
      <4> QED
        BY <1>0, <1>1, <1>2, <1>3, <2>3, <3>2, <4>1 DEF RemoveUnit
    <3> QED
      BY <2>0, <2>3, <3>1, <3>2
  <2> QED
    BY <1>0, <2>1, <2>2, <2>3
<1>7. StopInv'
  <2> SUFFICES ASSUME command.op = "stop" PROVE service'.state = "off"
    BY <1>1 DEF StopInv, Under
  <2>1. command.at = 1 /\ Step \in {"unload", "end"} /\ (platform = "macos" => Step = "unload")
    BY <1>0, Programs DEF Step
  <2>2. CASE Step = "unload"
    BY <1>3, <2>2 DEF Does, Unload, Stopped
  <2>3. CASE Step = "end"
    <3>1. platform # "macos" /\ End
      BY <1>3, <2>1, <2>3 DEF Does
    <3> QED
      BY <3>1 DEF End, Stopped
  <2> QED
    BY <2>1, <2>2, <2>3
<1> QED
  BY <1>4, <1>5, <1>6, <1>7

LEMMA StepFailsKeeps ==
  ASSUME DaemonInv, StepFails
  PROVE  DaemonInv'
<1> USE DEF DaemonInv
<1>0. /\ command.op \in Ops \ {"none"} /\ platform \in {"macos", "linux", "windows"}
      /\ command.at \in Nat \ {0} /\ command.state = "runs" /\ ~command.login
  BY DEF StepFails, Working, Shape, Ops, CommandInv
<1>1. UNCHANGED <<platform, unit, known, enabled, service>>
  BY DEF StepFails
<1>2. CASE ~Tolerated(command.op, Step)
  <2>1. /\ DOMAIN command' = {"op", "at", "config", "args", "state", "running", "left", "login"}
        /\ command'.op = command.op /\ command'.at = command.at /\ command'.state = "failed"
    BY <1>2 DEF StepFails, Shape
  <2> QED
    BY <1>0, <1>1, <2>1 DEF Shape, ManagerInv, CommandInv, InstallInv, UninstallInv, StopInv, Under
<1>3. CASE Tolerated(command.op, Step)
  <2>1. /\ DOMAIN command' = {"op", "at", "config", "args", "state", "running", "left", "login"}
        /\ command'.op = command.op /\ command'.at = command.at + 1
        /\ command'.state = "runs" /\ command'.args = command.args
    BY <1>0, <1>3 DEF StepFails, Shape
  <2>2. ~command'.login /\ (command'.left <=> known # None)
    <3>1. command'.login = command.login /\ command'.left = (known # None)
      BY <1>3, Zenon DEF StepFails, Shape
    <3> QED
      BY <1>0, <3>1, Zenon
  <2>3. Shape' /\ ManagerInv' /\ CommandInv'
    BY <1>0, <1>1, <2>1, <2>2 DEF Shape, ManagerInv, CommandInv
  <2>4. command.at \in 1 .. Len(Program(command.op))
    BY <1>0, Programs DEF StepFails, Working, Ops
  <2>5. CASE platform = "macos" /\ command.op = "install" /\ Step = "unload"
    <3>1. command.at = 2
      BY <2>4, <2>5, Programs DEF Step
    <3>2. unit' = command'.args
      BY <1>0, <1>1, <2>1, <2>5, <3>1 DEF InstallInv, Under, Past
    <3>3. command'.at = 3 /\ platform' = "macos" /\ command'.op = "install"
      BY <1>1, <2>1, <2>5, <3>1
    <3> QED
      BY <2>3, <3>2, <3>3 DEF InstallInv, UninstallInv, StopInv, Under, Past
  <2>6. CASE platform = "macos" /\ command.op = "uninstall" /\ Step = "unload"
    <3>1. command.at = 1
      BY <2>4, <2>6, Programs DEF Step
    <3> QED
      BY <1>1, <2>1, <2>2, <2>3, <2>6, <3>1 DEF InstallInv, UninstallInv, StopInv, Under, Past
  <2>7. CASE platform = "windows" /\ command.op = "uninstall" /\ Step = "remove"
    <3>1. command.at = 2
      BY <2>4, <2>7, Programs DEF Step
    <3> QED
      BY <1>0, <1>1, <2>1, <2>2, <2>3, <2>7, <3>1
      DEF InstallInv, UninstallInv, StopInv, Under, Past
  <2> QED
    BY <1>3, <2>5, <2>6, <2>7 DEF Tolerated
<1> QED
  BY <1>2, <1>3

LEMMA DoneKeeps ==
  ASSUME DaemonInv, Done
  PROVE  DaemonInv'
<1> USE DEF DaemonInv
<1>1. UNCHANGED <<platform, unit, known, enabled, service>>
  BY DEF Done
<1>2. /\ DOMAIN command' = {"op", "at", "config", "args", "state", "running", "left", "login"}
      /\ command'.op = command.op /\ command'.at = command.at
      /\ command'.state = "ok" /\ command'.args = command.args
      /\ command.state = "runs" /\ command.at > Len(Program(command.op))
  BY DEF Done, Shape
<1>3. /\ command'.login = command.login /\ command'.running = command.running
      /\ command'.left = command.left
  BY Zenon DEF Done, Shape
<1>4. /\ command'.login <=> command.login
      /\ command'.running <=> command.running
      /\ command'.left <=> command.left
  BY <1>3, Zenon
<1>5. \A op : Program(op)' = Program(op)
  BY <1>1 DEF Program
<1>6. Shape' /\ ManagerInv' /\ CommandInv'
  BY <1>1, <1>2, <1>5 DEF Shape, ManagerInv, CommandInv, Past
<1>7. InstallInv'
  BY <1>1, <1>2, <1>4 DEF InstallInv, Under, Past
<1>8. UninstallInv'
  BY <1>1, <1>2, <1>4 DEF UninstallInv, Under, Past
<1>9. StopInv'
  BY <1>1, <1>2, <1>4 DEF StopInv, Under, Past
<1> QED
  BY <1>6, <1>7, <1>8, <1>9

\* A crash and a restart: the manager starts again what it knows.
LEMMA ServiceKeeps ==
  ASSUME DaemonInv, Crash \/ Restart
  PROVE  DaemonInv'
<1> USE DEF DaemonInv
<1>1. UNCHANGED <<platform, unit, known, enabled, command>>
  BY DEF Crash, Restart
<1>2. /\ service.state # "off"
      /\ DOMAIN service' = {"state", "args", "config", "restarts"}
      /\ service'.state \in {"up", "crashed"}
      /\ service'.args = service.args \/ (service'.args = known /\ known # None)
      /\ platform = "macos" => known # None
  <2>1. CASE Crash
    BY <2>1 DEF Crash, Shape, ManagerInv
  <2>2. CASE Restart
    BY <2>2, RunningShape DEF Restart
  <2> QED
    BY <2>1, <2>2
<1>3. \A op : Program(op)' = Program(op)
  BY <1>1 DEF Program
<1>4. Shape' /\ ManagerInv' /\ CommandInv'
  BY <1>1, <1>2, <1>3 DEF Shape, ManagerInv, CommandInv, Past
<1>5. InstallInv'
  BY <1>1, <1>2 DEF InstallInv, Under, Past
<1>6. UninstallInv'
  <2>1. ASSUME Under("uninstall"), command.login, platform = "windows" PROVE FALSE
    BY <1>2, <2>1 DEF UninstallInv
  <2> QED
    BY <1>1, <1>2, <2>1 DEF UninstallInv, Under, Past
<1>7. StopInv'
  BY <1>1, <1>2 DEF StopInv, Under, Past
<1> QED
  BY <1>4, <1>5, <1>6, <1>7

\* A login: the manager starts what it finds.
LEMMA LoginKeeps ==
  ASSUME DaemonInv, Login
  PROVE  DaemonInv'
<1> USE DEF DaemonInv
<1>1. UNCHANGED <<platform, unit, enabled>> /\ command.state # "runs"
  BY DEF Login, Idle
<1>2. /\ DOMAIN command' = {"op", "at", "config", "args", "state", "running", "left", "login"}
      /\ command'.op = command.op /\ command'.at = command.at
      /\ command'.state = command.state /\ command'.args = command.args
  BY DEF Login, Shape
<1>3. known' = IF platform = "windows" THEN known ELSE unit
  BY DEF Login
<1>4. known' # None /\ (platform = "linux" => enabled) =>
        service'.state \in {"up", "crashed"} /\ service'.args = known'
  BY RunningShape DEF Login
<1>5. known' = None \/ (platform = "linux" /\ ~enabled) => service'.state = "off"
  BY DEF Login, Stopped
<1>6. DOMAIN service' = {"state", "args", "config", "restarts"}
  BY RunningShape DEF Login, Stopped
<1>7. \A op : Program(op)' = Program(op)
  BY <1>1 DEF Program
<1>8. Shape' /\ ManagerInv' /\ CommandInv'
  BY <1>1, <1>2, <1>4, <1>5, <1>6, <1>7 DEF Shape, ManagerInv, CommandInv, Past
<1>9. Under("install") \/ Under("uninstall") => command.at > Len(Program(command.op))
  BY <1>1 DEF Under, CommandInv, Past
<1>10. InstallInv'
  <2> SUFFICES ASSUME Under("install") PROVE InstallInv'
    BY <1>2 DEF InstallInv, Under
  <2>1. command.at > IF platform = "windows" THEN 4 ELSE 3
    <3>1. command.at > Len(Program("install"))
      BY <1>9 DEF Under
    <3> QED
      BY <3>1, Programs DEF Shape
  <2>2. unit = command.args /\ known = command.args /\ command.args # None
        /\ (platform = "linux" => enabled)
    BY <2>1 DEF InstallInv, Past, Shape
  <2>3. known' = command.args
    BY <1>3, <2>2
  <2> QED
    BY <1>1, <1>2, <1>4, <2>2, <2>3 DEF InstallInv, Past
<1>11. UninstallInv'
  <2> SUFFICES ASSUME Under("uninstall") PROVE UninstallInv'
    BY <1>2 DEF UninstallInv, Under
  <2>1. command.at > IF platform = "linux" THEN 3 ELSE 2
    <3>1. command.at > Len(Program("uninstall"))
      BY <1>9 DEF Under
    <3> QED
      BY <3>1, Programs DEF Shape
  <2>2. platform # "windows" => unit = None
    BY <2>1 DEF UninstallInv, Past, Shape
  <2>3. platform = "windows" => known = None
    BY <2>1 DEF UninstallInv, Past, Shape
  <2>4. known' = None
    BY <1>3, <2>2, <2>3
  <2>5. platform = "linux" => ~enabled
    <3> SUFFICES ASSUME platform = "linux" PROVE ~enabled
      OBVIOUS
    <3>1. Past(1)
      BY <2>1 DEF Past, Shape
    <3> QED
      BY <3>1, Zenon DEF UninstallInv
  <2> QED
    BY <1>1, <1>2, <1>5, <2>2, <2>4, <2>5 DEF UninstallInv
<1>12. StopInv'
  <2>1. command'.login
    BY Zenon DEF Login, Shape
  <2> QED
    BY <2>1 DEF StopInv
<1> QED
  BY <1>8, <1>10, <1>11, <1>12

LEMMA DaemonStep == DaemonInv /\ [DaemonNext]_daemonVars => DaemonInv'
<1> SUFFICES ASSUME DaemonInv, [DaemonNext]_daemonVars PROVE DaemonInv'
  OBVIOUS
<1>1. CASE Install
  BY <1>1, InvokeKeeps DEF Install, Ops
<1>2. CASE Uninstall
  BY <1>2, InvokeKeeps DEF Uninstall, Ops
<1>3. CASE StartService
  BY <1>3, InvokeKeeps DEF StartService, Ops
<1>4. CASE StopService
  BY <1>4, InvokeKeeps DEF StopService, Ops
<1>5. CASE StepDone
  BY <1>5, StepDoneKeeps
<1>6. CASE StepFails
  BY <1>6, StepFailsKeeps
<1>7. CASE Done
  BY <1>7, DoneKeeps
<1>8. CASE UNCHANGED <<platform, unit, known, enabled, service, command>>
  <2>1. \A op : Program(op)' = Program(op)
    BY <1>8 DEF Program
  <2> QED
    BY <1>8, <2>1 DEF DaemonInv, Shape, ManagerInv, CommandInv, InstallInv, UninstallInv,
                      StopInv, Under, Past
<1>9. CASE Crash \/ Restart
  BY <1>9, ServiceKeeps
<1>10. CASE Login
  BY <1>10, LoginKeeps
<1> QED
  BY <1>1, <1>2, <1>3, <1>4, <1>5, <1>6, <1>7, <1>8, <1>9, <1>10 DEF DaemonNext, EditConfig, daemonVars

LEMMA DaemonAlways == DaemonSpec => []DaemonInv
  BY DaemonStarts, DaemonStep, PTL DEF DaemonSpec

\* An install that succeeded holds: on every platform, whatever crashes, restarts,
\* logins and edits of the configuration come between its steps and after them.
THEOREM InstallAppliesAlways == DaemonSpec => []InstallApplies
<1>1. DaemonInv => InstallApplies
  <2> SUFFICES ASSUME DaemonInv, command.op = "install", command.state = "ok"
               PROVE  /\ unit = command.args /\ known = command.args
                      /\ service.state # "off"
                      /\ platform = "macos" \/ ~command.running \/ command.login =>
                           service.args = command.args
    BY DEF InstallApplies
  <2>1. command.at > Len(Program("install"))
    BY DEF DaemonInv, CommandInv, Past
  <2>2. command.at > IF platform = "windows" THEN 4 ELSE 3
    BY <2>1, Programs DEF DaemonInv, Shape
  <2> QED
    BY <2>2 DEF DaemonInv, InstallInv, Under, Past, Shape
<1> QED
  BY <1>1, DaemonAlways, PTL

\* What an uninstall removed and a stop stopped stays so, whatever crashes, restarts
\* and logins follow: on each platform as far as the code sees to it, under launchd
\* from the next login on if unload failed (daemon.rs uninstall_daemon).
THEOREM RemovalHoldsAlways == DaemonSpec => []RemovalHolds
<1>1. DaemonInv => RemovalHolds
  <2> SUFFICES ASSUME DaemonInv PROVE RemovalHolds
    OBVIOUS
  <2>1. ASSUME command.op = "uninstall", command.state = "ok"
        PROVE  /\ platform # "windows" => unit = None
               /\ platform # "macos" \/ ~command.left \/ command.login => known = None
               /\ platform = "linux" \/ (platform = "macos" /\ ~command.left) \/ command.login =>
                    ~enabled /\ service.state = "off"
    <3>1. command.at > Len(Program("uninstall"))
      BY <2>1 DEF DaemonInv, CommandInv, Past
    <3>2. command.at > IF platform = "linux" THEN 3 ELSE 2
      BY <3>1, Programs DEF DaemonInv, Shape
    <3> QED
      BY <2>1, <3>2 DEF DaemonInv, ManagerInv, UninstallInv, Under, Past, Shape
  <2>2. ASSUME command.op = "stop", command.state = "ok", ~command.login
        PROVE  service.state = "off"
    <3>1. command.at > Len(Program("stop"))
      BY <2>2 DEF DaemonInv, CommandInv, Past
    <3>2. command.at > 1
      BY <3>1, Programs DEF DaemonInv, Shape
    <3> QED
      BY <2>2, <3>2 DEF DaemonInv, StopInv, Under, Past
  <2> QED
    BY <2>1, <2>2 DEF RemovalHolds
<1> QED
  BY <1>1, DaemonAlways, PTL

(***************************************************************************)
(* The configuration                                                       *)
(***************************************************************************)
Settings == {"database_path", "default_agents", "exclude", "watch_interval_seconds",
             "tokenizer", "tokenizer_extension"}

IsConfig(config) == config = [setting \in Settings |-> config[setting]]

Plain == Settings \ {"tokenizer", "tokenizer_extension"}

LEMMA LayerSettings ==
  /\ \A layer : IsLayer(layer) <=>
       DOMAIN layer = Settings /\ layer.tokenizer \in {None, "unicode61", "jieba"}
  /\ IsLayer(Silent) /\ \A setting \in Settings : Silent[setting] = None
  /\ IsConfig(Defaults) /\ IsLayer(Defaults)
  BY DEF IsLayer, Silent, Settings, Defaults, IsConfig

\* What one layer does to each setting.
LEMMA Applied ==
  ASSUME NEW config, IsConfig(config), NEW layer
  PROVE  /\ IsConfig(Apply(config, layer))
         /\ \A setting \in Plain :
              Apply(config, layer)[setting] =
                IF layer[setting] = None THEN config[setting] ELSE layer[setting]
         /\ Apply(config, layer).tokenizer =
              IF layer.tokenizer # None THEN layer.tokenizer
              ELSE IF layer.tokenizer_extension # None THEN "jieba" ELSE config.tokenizer
         /\ Apply(config, layer).tokenizer_extension =
              IF layer.tokenizer_extension # None THEN layer.tokenizer_extension
              ELSE IF layer.tokenizer = "unicode61" THEN None ELSE config.tokenizer_extension
<1> DEFINE chosen == TokenizerLayer(config, layer)
<1>1. DOMAIN config = Settings
  BY DEF IsConfig
<1>2. /\ IsConfig(chosen)
      /\ \A setting \in Plain : chosen[setting] = config[setting]
      /\ chosen.tokenizer =
           IF layer.tokenizer # None THEN layer.tokenizer
           ELSE IF layer.tokenizer_extension # None THEN "jieba" ELSE config.tokenizer
      /\ chosen.tokenizer_extension =
           IF layer.tokenizer_extension # None THEN layer.tokenizer_extension
           ELSE IF layer.tokenizer = "unicode61" THEN None ELSE config.tokenizer_extension
  BY <1>1, ConfigAssumption DEF IsConfig, Settings, Plain, TokenizerLayer, Selected
<1>3. DOMAIN chosen = Settings
  BY <1>2 DEF IsConfig
<1> HIDE DEF chosen
<1>4. Apply(config, layer) =
        [chosen EXCEPT
           !.database_path = Over(layer.database_path, @),
           !.default_agents = Over(layer.default_agents, @),
           !.exclude = Over(layer.exclude, @),
           !.watch_interval_seconds = Over(layer.watch_interval_seconds, @)]
  BY DEF Apply, chosen
<1>5. IsConfig(Apply(config, layer))
  BY <1>2, <1>3, <1>4 DEF IsConfig, Settings
<1>6. \A setting \in {"tokenizer", "tokenizer_extension"} :
        Apply(config, layer)[setting] = chosen[setting]
  BY <1>3, <1>4 DEF Settings
<1>7. /\ Apply(config, layer).database_path = Over(layer.database_path, chosen.database_path)
      /\ Apply(config, layer).default_agents = Over(layer.default_agents, chosen.default_agents)
      /\ Apply(config, layer).exclude = Over(layer.exclude, chosen.exclude)
      /\ Apply(config, layer).watch_interval_seconds =
           Over(layer.watch_interval_seconds, chosen.watch_interval_seconds)
  BY <1>3, <1>4 DEF Settings
<1>8. \A setting \in Plain : Apply(config, layer)[setting] = Over(layer[setting], chosen[setting])
  BY <1>7 DEF Plain, Settings
<1> QED
  BY <1>2, <1>5, <1>6, <1>8 DEF Over

LEMMA TopOf ==
  ASSUME NEW setting \in SUBSET (1 .. 4)
  PROVE  Top(setting) = IF 1 \in setting THEN 1 ELSE IF 2 \in setting THEN 2
                        ELSE IF 3 \in setting THEN 3 ELSE IF 4 \in setting THEN 4 ELSE 0
<1>1. CASE setting = {}
  BY <1>1 DEF Top
<1>2. CASE setting # {}
  <2> DEFINE first == IF 1 \in setting THEN 1 ELSE IF 2 \in setting THEN 2
                      ELSE IF 3 \in setting THEN 3 ELSE 4
  <2>0. \A j \in setting : j \in {1, 2, 3, 4}
    OBVIOUS
  <2>1. first \in setting /\ \A j \in {1, 2, 3, 4} : j \in setting => first <= j
    <3>1. PICK k \in setting : k \in {1, 2, 3, 4}
      BY <1>2, <2>0
    <3>2. 1 \in setting \/ 2 \in setting \/ 3 \in setting \/ 4 \in setting
      BY <3>1
    <3> QED
      BY <3>2
  <2>2. first \in setting /\ \A j \in setting : first <= j
    BY <2>0, <2>1
  <2>3. \A i \in setting : (\A j \in setting : i <= j) => i = first
    <3> SUFFICES ASSUME NEW i \in setting, \A j \in setting : i <= j PROVE i = first
      OBVIOUS
    <3> QED
      BY <2>0, <2>2
  <2> HIDE DEF first
  <2>4. Top(setting) = first
    BY <1>2, <2>2, <2>3 DEF Top
  <2> QED
    BY <2>0, <2>1, <2>4 DEF first
<1> QED
  BY <1>1, <1>2

\* The layers, applied one over another, give what the README says of them.
LEMMA ResolvedAsApplied ==
  ASSUME NEW lowest, NEW middle, NEW highest,
         IsLayer(lowest), IsLayer(middle), IsLayer(highest)
  PROVE  Apply(Apply(Apply(Defaults, lowest), middle), highest) =
           Resolved(<<highest, middle, lowest, Defaults>>)
<1> DEFINE layers == <<highest, middle, lowest, Defaults>>
           one == Apply(Defaults, lowest)
           two == Apply(one, middle)
           three == Apply(two, highest)
<1>1. /\ DOMAIN layers = 1 .. 4
      /\ layers[1] = highest /\ layers[2] = middle /\ layers[3] = lowest /\ layers[4] = Defaults
  OBVIOUS
<1>2. IsConfig(one) /\ IsConfig(two) /\ IsConfig(three)
  BY Applied, LayerSettings
<1> HIDE DEF layers
<1>3. \A field \in Settings : Top(Having(layers, field)) =
        IF highest[field] # None THEN 1 ELSE IF middle[field] # None THEN 2
        ELSE IF lowest[field] # None THEN 3 ELSE IF Defaults[field] # None THEN 4 ELSE 0
  <2> SUFFICES ASSUME NEW field \in Settings
               PROVE  Top(Having(layers, field)) =
                        IF highest[field] # None THEN 1 ELSE IF middle[field] # None THEN 2
                        ELSE IF lowest[field] # None THEN 3
                        ELSE IF Defaults[field] # None THEN 4 ELSE 0
    OBVIOUS
  <2>1. Having(layers, field) \in SUBSET (1 .. 4)
    BY <1>1 DEF Having
  <2>2. /\ 1 \in Having(layers, field) <=> highest[field] # None
        /\ 2 \in Having(layers, field) <=> middle[field] # None
        /\ 3 \in Having(layers, field) <=> lowest[field] # None
        /\ 4 \in Having(layers, field) <=> Defaults[field] # None
    BY <1>1 DEF Having
  <2> QED
    BY <2>1, <2>2, TopOf
<1>4. Top({i \in DOMAIN layers : layers[i].tokenizer = "unicode61"}) =
        IF highest.tokenizer = "unicode61" THEN 1 ELSE IF middle.tokenizer = "unicode61" THEN 2
        ELSE IF lowest.tokenizer = "unicode61" THEN 3 ELSE 4
  <2> DEFINE clears == {i \in DOMAIN layers : layers[i].tokenizer = "unicode61"}
  <2>1. clears \in SUBSET (1 .. 4) /\ 4 \in clears
    BY <1>1 DEF Defaults
  <2>2. /\ 1 \in clears <=> highest.tokenizer = "unicode61"
        /\ 2 \in clears <=> middle.tokenizer = "unicode61"
        /\ 3 \in clears <=> lowest.tokenizer = "unicode61"
    BY <1>1
  <2> HIDE DEF clears
  <2>3. Top(clears) =
          IF highest.tokenizer = "unicode61" THEN 1 ELSE IF middle.tokenizer = "unicode61" THEN 2
          ELSE IF lowest.tokenizer = "unicode61" THEN 3 ELSE 4
    BY <2>1, <2>2, TopOf
  <2> QED
    BY <2>3 DEF clears
<1> DEFINE resolved == Resolved(layers)
<1>5. IsConfig(resolved)
  BY DEF Resolved, IsConfig, Settings
<1>6. ASSUME NEW setting \in Plain PROVE three[setting] = resolved[setting]
  <2>1. setting \in Settings /\ Defaults[setting] # None
    BY ConfigAssumption DEF Plain, Settings, Defaults
  <2>2. resolved[setting] = layers[Top(Having(layers, setting))][setting]
    BY DEF Resolved, Plain, Settings
  <2>3. three[setting] = IF highest[setting] # None THEN highest[setting]
                         ELSE IF middle[setting] # None THEN middle[setting]
                         ELSE IF lowest[setting] # None THEN lowest[setting]
                         ELSE Defaults[setting]
    <3>1. one[setting] = IF lowest[setting] = None THEN Defaults[setting] ELSE lowest[setting]
      BY Applied, LayerSettings
    <3>2. two[setting] = IF middle[setting] = None THEN one[setting] ELSE middle[setting]
      BY <1>2, Applied
    <3>3. three[setting] = IF highest[setting] = None THEN two[setting] ELSE highest[setting]
      BY <1>2, Applied
    <3> QED
      BY <3>1, <3>2, <3>3
  <2> QED
    BY <1>1, <1>3, <2>1, <2>2, <2>3
<1>7. /\ three.tokenizer =
           IF highest.tokenizer # None THEN highest.tokenizer
           ELSE IF highest.tokenizer_extension # None THEN "jieba"
           ELSE IF middle.tokenizer # None THEN middle.tokenizer
           ELSE IF middle.tokenizer_extension # None THEN "jieba"
           ELSE IF lowest.tokenizer # None THEN lowest.tokenizer
           ELSE IF lowest.tokenizer_extension # None THEN "jieba"
           ELSE "unicode61"
      /\ three.tokenizer_extension =
           IF highest.tokenizer_extension # None THEN highest.tokenizer_extension
           ELSE IF highest.tokenizer = "unicode61" THEN None
           ELSE IF middle.tokenizer_extension # None THEN middle.tokenizer_extension
           ELSE IF middle.tokenizer = "unicode61" THEN None
           ELSE IF lowest.tokenizer_extension # None THEN lowest.tokenizer_extension
           ELSE None
  <2>1. IsConfig(Defaults) /\ Defaults.tokenizer = "unicode61"
        /\ Defaults.tokenizer_extension = None
    BY LayerSettings DEF Defaults
  <2>2. /\ one.tokenizer = IF lowest.tokenizer # None THEN lowest.tokenizer
                           ELSE IF lowest.tokenizer_extension # None THEN "jieba"
                           ELSE "unicode61"
        /\ one.tokenizer_extension =
             IF lowest.tokenizer_extension # None THEN lowest.tokenizer_extension ELSE None
    BY <2>1, Applied
  <2>3. /\ two.tokenizer = IF middle.tokenizer # None THEN middle.tokenizer
                           ELSE IF middle.tokenizer_extension # None THEN "jieba"
                           ELSE one.tokenizer
        /\ two.tokenizer_extension =
             IF middle.tokenizer_extension # None THEN middle.tokenizer_extension
             ELSE IF middle.tokenizer = "unicode61" THEN None ELSE one.tokenizer_extension
    BY <1>2, Applied
  <2>4. /\ three.tokenizer = IF highest.tokenizer # None THEN highest.tokenizer
                             ELSE IF highest.tokenizer_extension # None THEN "jieba"
                             ELSE two.tokenizer
        /\ three.tokenizer_extension =
             IF highest.tokenizer_extension # None THEN highest.tokenizer_extension
             ELSE IF highest.tokenizer = "unicode61" THEN None ELSE two.tokenizer_extension
    BY <1>2, Applied
  <2> HIDE DEF one, two, three
  <2> QED
    BY <2>2, <2>3, <2>4
<1>8. /\ "tokenizer" \in Settings /\ "tokenizer_extension" \in Settings
      /\ Defaults.tokenizer = "unicode61" /\ Defaults.tokenizer_extension = None
  BY DEF Settings, Defaults
<1>9. three.tokenizer = resolved.tokenizer
  <2> DEFINE explicit == Top(Having(layers, "tokenizer"))
             supplied == Top(Having(layers, "tokenizer_extension"))
  <2>1. resolved.tokenizer = IF supplied # 0 /\ supplied < explicit THEN "jieba"
                             ELSE layers[explicit].tokenizer
    BY DEF Resolved
  <2>2. explicit = IF highest.tokenizer # None THEN 1 ELSE IF middle.tokenizer # None THEN 2
                   ELSE IF lowest.tokenizer # None THEN 3 ELSE 4
    BY <1>3, <1>8, ConfigAssumption
  <2>3. supplied = IF highest.tokenizer_extension # None THEN 1
                   ELSE IF middle.tokenizer_extension # None THEN 2
                   ELSE IF lowest.tokenizer_extension # None THEN 3 ELSE 0
    BY <1>3, <1>8
  <2> HIDE DEF explicit, supplied, three, resolved
  <2> QED
    BY <1>1, <1>7, <1>8, <2>1, <2>2, <2>3
<1>10. three.tokenizer_extension = resolved.tokenizer_extension
  <2> DEFINE cleared == Top({i \in DOMAIN layers : layers[i].tokenizer = "unicode61"})
             supplied == Top(Having(layers, "tokenizer_extension"))
  <2>1. resolved.tokenizer_extension = IF supplied = 0 \/ cleared < supplied THEN None
                                       ELSE layers[supplied].tokenizer_extension
    BY DEF Resolved
  <2>2. supplied = IF highest.tokenizer_extension # None THEN 1
                   ELSE IF middle.tokenizer_extension # None THEN 2
                   ELSE IF lowest.tokenizer_extension # None THEN 3 ELSE 0
    BY <1>3, <1>8
  <2> HIDE DEF cleared, supplied, three, resolved
  <2>3. cleared = IF highest.tokenizer = "unicode61" THEN 1
                  ELSE IF middle.tokenizer = "unicode61" THEN 2
                  ELSE IF lowest.tokenizer = "unicode61" THEN 3 ELSE 4
    BY <1>4 DEF cleared
  <2> QED
    BY <1>1, <1>7, <2>1, <2>2, <2>3
<1>11. \A setting \in Settings : three[setting] = resolved[setting]
  BY <1>6, <1>9, <1>10 DEF Plain
<1> HIDE DEF three, resolved
<1>12. three = resolved
  BY <1>2, <1>5, <1>11 DEF IsConfig
<1> QED
  BY <1>12 DEF three, two, one, resolved, layers

LEMMA LoadAsDocumented ==
  ASSUME IsFile(default),
         NEW environment \in Layers, NEW request \in Layers, request.layer # Bad
  PROVE  LET named == Over(request.config_path, environment.config_path)
             file == files[Over(named, "default.toml")]
             broken == file = Bad \/ environment.layer = Bad \/ (named # None /\ file = None)
         IN Load(files, environment, request) =
              IF broken THEN Invalid
              ELSE Documented(<<request.layer, environment.layer, Over(file, Silent), Defaults>>)
<1> DEFINE named == Over(request.config_path, environment.config_path)
           file == files[Over(named, "default.toml")]
           broken == file = Bad \/ environment.layer = Bad \/ (named # None /\ file = None)
<1>1. Over(named, "default.toml") \in {"default.toml"} \cup DOMAIN NamedFiles
  BY DaemonAssumption DEF Over
<1>2. IsFile(file)
  <2> DEFINE name == Over(named, "default.toml")
  <2> HIDE DEF name
  <2>1. files[name] = IF name = "default.toml" THEN default ELSE NamedFiles[name]
    BY <1>1 DEF name, files
  <2> QED
    BY <1>1, <2>1, DaemonAssumption DEF name
<1>3. Load(files, environment, request) =
        IF broken THEN Invalid
        ELSE Validated(Apply(Apply(Apply(Defaults, Over(file, Silent)), environment.layer),
                             request.layer))
  BY DEF Load
<1> SUFFICES ASSUME ~broken
             PROVE  Apply(Apply(Apply(Defaults, Over(file, Silent)), environment.layer),
                          request.layer) =
                      Resolved(<<request.layer, environment.layer, Over(file, Silent), Defaults>>)
  BY <1>3 DEF Documented
<1>4. IsLayer(request.layer) /\ IsLayer(environment.layer)
  BY DaemonAssumption
<1>5. IsLayer(Over(file, Silent))
  BY <1>2, LayerSettings DEF IsFile, Over
<1> HIDE DEF file
<1> QED
  BY <1>4, <1>5, ResolvedAsApplied

\* Whatever the user makes of the files, whatever the environment and the options say,
\* and for every list of agents and pattern a layer may hold, load resolves the layers
\* as the README documents.
THEOREM ConfigDocumentedAlways == DaemonSpec => []ConfigDocumented
<1> DEFINE Inv == IsFile(default)
<1>1. DaemonInit => Inv
  BY DaemonAssumption DEF DaemonInit
<1>2. Inv /\ [DaemonNext]_daemonVars => Inv'
  <2> SUFFICES ASSUME Inv, [DaemonNext]_daemonVars PROVE default' = default \/ default' \in DefaultFiles
    BY DaemonAssumption
  <2> QED
    BY DEF DaemonNext, daemonVars, Install, Uninstall, StartService, StopService, Invoke, StepDone,
           StepFails, Done, EditConfig, Crash, Restart, Login
<1>3. Inv => ConfigDocumented
  BY LoadAsDocumented DEF ConfigDocumented
<1> QED
  BY <1>1, <1>2, <1>3, PTL DEF DaemonSpec
===============================================================================
