--------------------------------- MODULE Daemon ---------------------------------
(***************************************************************************)
(* daemon.rs: the watch service on launchd, systemd or the Task Scheduler. *)
(* Each command of the CLI loads its configuration and then runs a few     *)
(* file operations and commands of the service manager, any of which may  *)
(* fail; the service crashes, is restarted by the manager, starts at the   *)
(* next login, and resolves its own configuration (Config) at each start.  *)
(*                                                                         *)
(* The managers are external: a command that reports success has done what *)
(* its name says, one that fails has changed nothing.  The environment a   *)
(* manager gives the service sets none of the TRACEDB variables, as the    *)
(* definitions this code generates do not.  Texts (plist, unit, XML, their *)
(* quoting) are the arguments they carry.                                  *)
(***************************************************************************)
EXTENDS Config

CONSTANTS
  Platforms,
  DefaultFiles,  \* what the user may make of default.toml
  NamedFiles,    \* the other files a --config may name
  Environments,  \* the shells the CLI is run from
  Requests,      \* the options of the CLI: [config_path, layer]
  Installs,      \* the options of daemon install
  Layers         \* environments and options to resolve in the initial states

IsFile(file) == file = None \/ file = Bad \/ IsLayer(file)

ASSUME DaemonAssumption ==
  /\ Platforms \subseteq {"macos", "linux", "windows"}
  /\ \A file \in DefaultFiles : IsFile(file)
  /\ \A name \in DOMAIN NamedFiles : IsFile(NamedFiles[name])
  /\ \A l \in Layers :
       /\ l.config_path \in {None} \cup DOMAIN NamedFiles
       /\ l.layer = Bad \/ IsLayer(l.layer)

VARIABLES
  platform,
  default,    \* default.toml
  unit,       \* the definition on disk: the arguments of watch, or None
  known,      \* the definition the manager has loaded
  enabled,    \* systemd: the unit is enabled
  service,    \* the service's process
  command     \* the CLI's command

daemonVars == <<platform, default, unit, known, enabled, service, command>>

Stopped == [state |-> "off", args |-> None, config |-> None, restarts |-> 0]

files ==
  [name \in {"default.toml"} \cup DOMAIN NamedFiles |->
     IF name = "default.toml" THEN default ELSE NamedFiles[name]]

(***************************************************************************)
(* The commands: for each platform the steps in their order                *)
(***************************************************************************)
Launchd ==
  [install |-> <<"write", "unload", "load">>, uninstall |-> <<"unload", "remove">>,
   start |-> <<"load">>, stop |-> <<"unload">>]

\* Mutated form: systemd is not told to read the unit again.
SystemdNoReload ==
  [install |-> <<"write", "enable">>, uninstall |-> <<"disable", "remove", "reload">>,
   start |-> <<"run">>, stop |-> <<"end">>]

\* Mutated form: the unit is removed while its service runs.
SystemdNoDisable ==
  [install |-> <<"write", "reload", "enable">>, uninstall |-> <<"remove", "reload">>,
   start |-> <<"run">>, stop |-> <<"end">>]

Systemd ==
  [install |-> <<"write", "reload", "enable">>, uninstall |-> <<"disable", "remove", "reload">>,
   start |-> <<"run">>, stop |-> <<"end">>]

Schtasks ==
  [install |-> <<"whoami", "write", "create", "run">>, uninstall |-> <<"delete", "remove">>,
   start |-> <<"run">>, stop |-> <<"end">>]

Program(op) ==
  CASE platform = "macos" -> Launchd[op]
    [] platform = "linux" -> Systemd[op]
    [] platform = "windows" -> Schtasks[op]

\* The steps whose failure the code ignores or only warns of.
Tolerated(op, step) ==
  \/ platform = "macos" /\ op \in {"install", "uninstall"} /\ step = "unload"
  \/ platform = "windows" /\ op = "uninstall" /\ step = "remove"

\* The Task Scheduler is asked whether or not there is a definition on disk.
NeedsUnit(op) == platform # "windows" /\ op \in {"uninstall", "start", "stop"}

(***************************************************************************)
(* The service                                                             *)
(***************************************************************************)
NoEnvironment == [config_path |-> None, layer |-> Silent]

\* trace-db watch with these arguments: a configuration it cannot load ends it.
Running(args, restarts) ==
  LET config == Load(files, NoEnvironment, [config_path |-> None, layer |-> args])
  IN [state |-> IF config = Invalid THEN "crashed" ELSE "up",
      args |-> args, config |-> config, restarts |-> restarts]

\* A manager starts what is not running.
Launched(args) == IF service.state = "up" THEN service ELSE Running(args, 0)

(***************************************************************************)
(* The steps of a command; each is enabled when the manager can do it.     *)
(***************************************************************************)
WriteUnit ==
  unit' = command.args /\ UNCHANGED <<known, enabled, service>>

RemoveUnit ==
  /\ unit # None
  /\ unit' = None
  /\ UNCHANGED <<known, enabled, service>>

Unload ==
  /\ known # None
  /\ known' = None /\ service' = Stopped
  /\ UNCHANGED <<unit, enabled>>

LoadUnit ==
  /\ unit # None /\ known = None
  /\ known' = unit /\ service' = Launched(unit)
  /\ UNCHANGED <<unit, enabled>>

Reload ==
  known' = unit /\ UNCHANGED <<unit, enabled, service>>

Enable ==
  /\ Over(known, unit) # None
  /\ known' = Over(known, unit) /\ enabled' = TRUE
  /\ service' = Launched(known')
  /\ UNCHANGED unit

Disable ==
  /\ unit # None
  /\ enabled' = FALSE /\ service' = Stopped
  /\ UNCHANGED <<unit, known>>

CreateTask ==
  known' = unit /\ UNCHANGED <<unit, enabled, service>>

DeleteTask ==
  /\ known # None
  /\ known' = None
  /\ UNCHANGED <<unit, enabled, service>>

RunKnown ==
  /\ known # None
  /\ service' = Launched(known)
  /\ UNCHANGED <<unit, known, enabled>>

\* The process is ended; launchd keeps the job of a loaded definition alive.
End ==
  /\ known # None
  /\ service' = IF platform = "macos" /\ service.state # "off"
                THEN [service EXCEPT !.state = "crashed"] ELSE Stopped
  /\ UNCHANGED <<unit, known, enabled>>

Does(step) ==
  \/ step = "write" /\ WriteUnit
  \/ step = "remove" /\ RemoveUnit
  \/ step = "unload" /\ Unload
  \/ step = "load" /\ LoadUnit
  \/ step = "reload" /\ Reload
  \/ step = "enable" /\ Enable
  \/ step = "disable" /\ Disable
  \/ step = "whoami" /\ UNCHANGED <<unit, known, enabled, service>>
  \/ step = "create" /\ CreateTask
  \/ step = "delete" /\ DeleteTask
  \/ step = "run" /\ RunKnown
  \/ step = "end" /\ End

(***************************************************************************)
(* The CLI.  running, left and login are what the properties look back on: *)
(* the service ran when the last step was taken; a step whose failure the  *)
(* code tolerates failed and left a definition loaded; the user has logged *)
(* in since.                                                               *)
(***************************************************************************)
Idle == command.state # "runs"

\* main and handle_daemon_command: --agent, --exclude and --interval of install
\* go into the arguments of the service, not into the CLI's configuration.
Invoke(op, environment, request, options) ==
  LET config == Load(files, environment, request)
  IN /\ Idle
     /\ command' =
          [op |-> op, at |-> 1,
           config |-> IF op = "install" THEN config ELSE None,
           args |-> IF op = "install" /\ config # Invalid
                    THEN [options EXCEPT !.database_path = config.database_path] ELSE None,
           state |-> IF config = Invalid THEN "failed"
                     ELSE IF NeedsUnit(op) /\ unit = None THEN "not_installed"
                     ELSE "runs",
           running |-> FALSE, left |-> FALSE, login |-> FALSE]
     /\ UNCHANGED <<platform, default, unit, known, enabled, service>>

Install ==
  \E environment \in Environments, request \in Requests, options \in Installs :
    Invoke("install", environment, request, options)

Uninstall == \E environment \in Environments : Invoke("uninstall", environment, NoEnvironment, None)

StartService == \E environment \in Environments : Invoke("start", environment, NoEnvironment, None)

StopService == \E environment \in Environments : Invoke("stop", environment, NoEnvironment, None)

Step == Program(command.op)[command.at]

Working == command.state = "runs" /\ command.at <= Len(Program(command.op))

StepDone ==
  /\ Working
  /\ Does(Step)
  /\ command' = [command EXCEPT !.at = @ + 1, !.running = service.state = "up"]
  /\ UNCHANGED <<platform, default>>

StepFails ==
  /\ Working
  /\ command' = IF Tolerated(command.op, Step)
                THEN [command EXCEPT !.at = @ + 1, !.left = known # None]
                ELSE [command EXCEPT !.state = "failed"]
  /\ UNCHANGED <<platform, default, unit, known, enabled, service>>

Done ==
  /\ command.state = "runs" /\ command.at > Len(Program(command.op))
  /\ command' = [command EXCEPT !.state = "ok"]
  /\ UNCHANGED <<platform, default, unit, known, enabled, service>>

(***************************************************************************)
(* The rest of the machine                                                 *)
(***************************************************************************)
EditConfig ==
  /\ default' \in DefaultFiles
  /\ UNCHANGED <<platform, unit, known, enabled, service, command>>

Crash ==
  /\ service.state = "up"
  /\ service' = [service EXCEPT !.state = "crashed"]
  /\ UNCHANGED <<platform, default, unit, known, enabled, command>>

\* KeepAlive, Restart=on-failure, RestartOnFailure
Restart ==
  /\ service.state = "crashed" /\ known # None
  /\ platform = "windows" => service.restarts < 3
  /\ service' = Running(known, IF platform = "windows" THEN service.restarts + 1 ELSE 0)
  /\ UNCHANGED <<platform, default, unit, known, enabled, command>>

\* RunAtLoad, WantedBy=default.target, LogonTrigger: the manager reads what is
\* on disk, the Task Scheduler its own copy.
Login ==
  LET read == IF platform = "windows" THEN known ELSE unit
      starts == read # None /\ (platform = "linux" => enabled)
  IN /\ known' = read
     /\ service' = IF starts THEN Running(read, 0) ELSE Stopped
     /\ command' = [command EXCEPT !.login = TRUE]
     /\ Idle
     /\ UNCHANGED <<platform, default, unit, enabled>>

DaemonInit ==
  /\ platform \in Platforms
  /\ default \in DefaultFiles
  /\ unit = None /\ known = None /\ enabled = FALSE
  /\ service = Stopped
  /\ command = [op |-> "none", at |-> 1, config |-> None, args |-> None,
                state |-> "failed", running |-> FALSE, left |-> FALSE, login |-> FALSE]

DaemonNext ==
  \/ Install \/ Uninstall \/ StartService \/ StopService
  \/ StepDone \/ StepFails \/ Done
  \/ EditConfig \/ Crash \/ Restart \/ Login

DaemonSpec == DaemonInit /\ [][DaemonNext]_daemonVars

(***************************************************************************)
(* Properties                                                              *)
(***************************************************************************)

\* Whatever the file says, the layers resolve, or fail, as the README says they
\* do: precedence, and the tokenizer and its extension, which one layer may select
\* and a higher one clear (README.md:149-150, 604-609).  Initial states suffice.
ConfigDocumented ==
  command.op = "none" =>
    \A environment \in Layers, request \in {l \in Layers : l.layer # Bad} :
      LET named == Over(request.config_path, environment.config_path)
          file == files[Over(named, "default.toml")]
          broken == file = Bad \/ environment.layer = Bad \/ (named # None /\ file = None)
      IN Load(files, environment, request) =
           IF broken THEN Invalid
           ELSE Documented(<<request.layer, environment.layer, Over(file, Silent), Defaults>>)

\* After an install that succeeded the manager knows the new arguments, and every
\* service it starts from then on has them, after a crash and after a login; only
\* under systemd and the Task Scheduler may the service that ran before go on
\* with its old ones.
InstallApplies ==
  command.op = "install" /\ command.state = "ok" =>
    /\ unit = command.args /\ known = command.args
    /\ service.state # "off"
    /\ platform = "macos" \/ ~command.running \/ command.login => service.args = command.args

\* After an uninstall that succeeded nothing starts the service again, whatever
\* crashes, restarts and logins follow.  The definition is gone from launchd's and
\* systemd's directories, and no manager knows it any more: at once under systemd
\* and the Task Scheduler, under launchd only from the next login on if unload
\* failed and left it loaded, which uninstall only warns of (until then launchd
\* goes on restarting the service).  The process itself is ended at once by systemd
\* and by an unload that succeeded, else by the next login.  And what a stop has
\* stopped the manager does not restart before the next login or command
\* (docs/daemon.md, on daemon stop).
RemovalHolds ==
  /\ command.op = "uninstall" /\ command.state = "ok" =>
       /\ platform # "windows" => unit = None
       /\ platform # "macos" \/ ~command.left \/ command.login => known = None
       /\ platform = "linux" \/ (platform = "macos" /\ ~command.left) \/ command.login =>
            ~enabled /\ service.state = "off"
  /\ command.op = "stop" /\ command.state = "ok" /\ ~command.login => service.state = "off"

\* An uninstall that reports success has unloaded the service: not so under launchd,
\* where only a warning tells that unload failed.
UninstallUnloads ==
  command.op = "uninstall" /\ command.state = "ok" => known = None

\* A reinstall replaces the running service: not so where the manager is asked to
\* start what is already running.
ReinstallRestarts ==
  command.op = "install" /\ command.state = "ok" => service.args = command.args

\* The service opens the archive with the tokenizer of the install: not so when
\* the tokenizer came from the environment or from the command line.
ServiceTokenizer ==
  command.op = "install" /\ command.state = "ok" /\ ~command.running /\ service.state = "up" =>
    service.config.tokenizer = command.config.tokenizer
=============================================================================
