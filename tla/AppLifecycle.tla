----------------------------- MODULE AppLifecycle -----------------------------
(***************************************************************************)
(* The process: APP.Start and APP.Stop, step by step, the signals that     *)
(* restart and end it, the settings every start reads again, the ports its *)
(* two servers hold, the scheduler whose job revives the core, and the     *)
(* service manager around it (hypanel.service).                            *)
(*                                                                         *)
(* Settings are saved at any time, from a request or the command line;     *)
(* signal.Notify comes after the first start, with room for one signal.    *)
(***************************************************************************)
EXTENDS Naturals, FiniteSets

CONSTANTS Ports,
          MaxSaves, \* bound: saves of the settings
          MaxAsks,  \* bound: requests for a restart
          MaxFaults \* bound: failures of a read, of the core's start

ASSUME AppAssumption == MaxSaves \in Nat /\ MaxAsks \in Nat /\ MaxFaults \in Nat

Servers == {"web", "sub"}

VARIABLES
  pc,       \* where APP.Start, APP.Stop or the signal loop is; "off" without a process
  first,    \* the process is in its first start: signals are not yet caught
  ending,   \* APP.Stop was called for a SIGTERM
  stored,   \* the settings: of each server its port and whether its certificate loads;
            \* whether trafficAge is a number
  saves,    \* their version
  read,     \* the certificate a starting server has read, and its version
  server,   \* of each server: up, and the version of the settings it serves
  held,     \* of each port: the server whose listener has it, "free", or "lost"
  cron, job, \* the scheduler runs; CheckCoreJob is at work
  core,     \* the core runs
  failedAt, \* where the last APP.Start failed
  channel,  \* sigCh
  hups,     \* restarts asked for whose SIGHUP is still to be sent
  due,      \* history: the version of the settings when a restart was last asked for
  unit,     \* the service manager: "up", "failed", "stopping", "stopped"
  asks, faults

process == <<pc, first, ending>>
signals == <<channel, hups, due, unit, asks>>
settings == <<stored, saves>>
vars == <<process, settings, read, server, held, cron, job, core, failedAt, signals, faults>>

Settings == [web : [port : Ports, cert : BOOLEAN], sub : [port : Ports, cert : BOOLEAN],
             age : BOOLEAN]
Usable(s) == s.age /\ s.web.cert /\ s.sub.cert /\ s.web.port # s.sub.port
Down == [up |-> FALSE, version |-> 0]
NoPorts == [p \in Ports |-> "free"]

Init ==
  /\ pc = "init" /\ first = TRUE /\ ending = FALSE
  /\ stored \in {s \in Settings : Usable(s)} /\ saves = 0
  /\ read = [cert |-> TRUE, version |-> 0]
  /\ server = [s \in Servers |-> Down] /\ held = NoPorts
  /\ cron = FALSE /\ job = FALSE /\ core = FALSE /\ failedAt = "none"
  /\ channel = "none" /\ hups = 0 /\ due = 0 /\ unit = "up" /\ asks = 0 /\ faults = 0

-----------------------------------------------------------------------------
(* APP.Start. *)

\* The process ends, and everything it held with it.
Gone(u) ==
  /\ pc' = "off" /\ unit' = u
  /\ server' = [s \in Servers |-> Down] /\ held' = NoPorts
  /\ cron' = FALSE /\ job' = FALSE /\ core' = FALSE
  /\ channel' = "none" /\ hups' = 0
  /\ UNCHANGED <<first, ending, settings, read, failedAt, due, asks>>

InitApp ==
  /\ pc = "init" /\ pc' = "age"
  /\ UNCHANGED <<first, ending, settings, read, server, held, cron, job, core, failedAt,
                 signals, faults>>

\* An error ends the first start with log.Fatal; RestartApp ignores it.
StartFails(place) ==
  /\ failedAt' = place
  /\ IF first
     THEN /\ pc' = "off" /\ unit' = IF unit = "stopping" THEN "stopped" ELSE "failed"
          /\ server' = [s \in Servers |-> Down] /\ held' = NoPorts
          /\ cron' = FALSE /\ job' = FALSE /\ core' = FALSE /\ channel' = "none" /\ hups' = 0
     ELSE pc' = "loop" /\ UNCHANGED <<unit, server, cron, job, core, channel, hups>>
  /\ UNCHANGED <<first, ending, settings, read, due, asks>>

\* Mutant: the scheduler is started after the servers.
StartCronLater ==
  /\ pc = "age" /\ UNCHANGED faults
  /\ IF stored.age
     THEN /\ pc' = "web" /\ failedAt' = "none"
          /\ UNCHANGED <<first, ending, settings, read, server, held, cron, job, core, signals>>
     ELSE /\ StartFails("age") /\ IF first THEN TRUE ELSE UNCHANGED held
StartCron ==
  /\ pc = "age" /\ UNCHANGED faults
  /\ IF stored.age
     THEN /\ cron' = TRUE /\ pc' = "web" /\ failedAt' = "none"
          /\ UNCHANGED <<first, ending, settings, read, server, held, job, core, signals>>
     ELSE /\ StartFails("age") /\ IF first THEN TRUE ELSE UNCHANGED held

\* A server starts: its router and certificate files are read, later its port.
ReadServer(s) ==
  /\ pc = s
  /\ pc' = IF s = "web" THEN "webListen" ELSE "subListen"
  /\ read' = [cert |-> stored[s].cert, version |-> saves]
  /\ UNCHANGED <<first, ending, settings, server, held, cron, job, core, failedAt, signals, faults>>

ListenServer(s) ==
  LET port == stored[s].port IN
  /\ pc = (IF s = "web" THEN "webListen" ELSE "subListen")
  /\ \/ \* the port is taken, or the certificate does not load and the listener is closed
        /\ held[port] # "free" \/ ~ read.cert
        /\ StartFails(s) /\ UNCHANGED faults
        /\ IF first THEN TRUE ELSE UNCHANGED held
     \/ \* the domain cannot be read: the listener is neither kept nor closed
        /\ held[port] = "free" /\ read.cert /\ faults < MaxFaults /\ faults' = faults + 1
        /\ StartFails(s)
        /\ IF first THEN TRUE ELSE held' = [held EXCEPT ![port] = "lost"]
     \/ /\ held[port] = "free" /\ read.cert
        /\ held' = [held EXCEPT ![port] = s]
        /\ server' = [server EXCEPT ![s] = [up |-> TRUE, version |-> read.version]]
        /\ pc' = IF s = "web" THEN "sub" ELSE "core"
        /\ UNCHANGED <<first, ending, settings, read, cron, job, core, failedAt, signals, faults>>

\* StartCore: its errors are logged only.
StartCore ==
  /\ pc = "core" /\ pc' = IF first THEN "notify" ELSE "loop"
  /\ \/ core' = TRUE /\ UNCHANGED faults
     \/ ~ core /\ faults < MaxFaults /\ faults' = faults + 1 /\ UNCHANGED core
  /\ UNCHANGED <<first, ending, settings, read, server, held, cron, job, failedAt, signals>>

Notify ==
  /\ pc = "notify" /\ pc' = "loop" /\ first' = FALSE
  /\ UNCHANGED <<ending, settings, read, server, held, cron, job, core, failedAt, signals, faults>>

-----------------------------------------------------------------------------
(* The loop of runApp, and APP.Stop. *)

TakeSignal ==
  /\ pc = "loop" /\ channel # "none"
  /\ ending' = (channel = "TERM") /\ channel' = "none" /\ pc' = "stopCron"
  /\ UNCHANGED <<first, settings, read, server, held, cron, job, core, failedAt, hups, due,
                 unit, asks, faults>>

\* A job that is at work goes on.
StopCron ==
  /\ pc = "stopCron" /\ pc' = "stopSub" /\ cron' = FALSE
  /\ UNCHANGED <<first, ending, settings, read, server, held, job, core, failedAt, signals, faults>>

StopServer(s) ==
  /\ pc = (IF s = "sub" THEN "stopSub" ELSE "stopWeb")
  /\ pc' = IF s = "sub" THEN "stopWeb" ELSE "stopCore"
  /\ server' = [server EXCEPT ![s] = Down]
  /\ held' = [p \in Ports |-> IF held[p] = s THEN "free" ELSE held[p]]
  /\ UNCHANGED <<first, ending, settings, read, cron, job, core, failedAt, signals, faults>>

StopCore ==
  /\ pc = "stopCore" /\ UNCHANGED faults
  /\ IF ending
     THEN Gone("stopped")
     ELSE /\ core' = FALSE /\ pc' = "age"
          /\ UNCHANGED <<first, ending, settings, read, server, held, cron, job, failedAt, signals>>

-----------------------------------------------------------------------------
(* The scheduler. *)

Apart == <<process, settings, read, server, held, cron, failedAt, signals>>

CheckCore == pc # "off" /\ cron /\ ~ job /\ job' = TRUE /\ UNCHANGED <<Apart, core, faults>>

CoreChecked ==
  /\ job /\ job' = FALSE
  /\ \/ core' = TRUE /\ UNCHANGED faults
     \/ ~ core /\ faults < MaxFaults /\ faults' = faults + 1 /\ UNCHANGED core
  /\ UNCHANGED Apart

-----------------------------------------------------------------------------
(* Settings, signals and the service manager. *)

Rest == <<read, server, held, cron, job, core, failedAt, faults>>

Save ==
  /\ saves < MaxSaves /\ saves' = saves + 1 /\ stored' \in Settings
  /\ UNCHANGED <<process, Rest, signals>>

\* RestartApp of the API, or an import: the signal is sent from a goroutine.
Ask ==
  /\ server["web"].up /\ asks < MaxAsks
  /\ hups' = hups + 1 /\ due' = saves /\ asks' = asks + 1
  /\ UNCHANGED <<process, settings, Rest, channel, unit>>

\* The signal arrives; one that finds the channel full is dropped.
\* Mutant: a channel without room, which takes a signal only from the waiting loop.
HangUpUnbuffered ==
  /\ hups > 0 /\ pc # "off" /\ ~ first
  /\ hups' = hups - 1
  /\ channel' = IF channel = "none" /\ pc = "loop" THEN "HUP" ELSE channel
  /\ UNCHANGED <<process, settings, Rest, due, unit, asks>>
HangUp ==
  /\ hups > 0 /\ pc # "off" /\ ~ first
  /\ hups' = hups - 1
  /\ channel' = IF channel = "none" THEN "HUP" ELSE channel
  /\ UNCHANGED <<process, settings, Rest, due, unit, asks>>

\* Before signal.Notify it ends the process, and counts as a clean exit: no restart.
HangUpEarly ==
  /\ hups > 0 /\ pc # "off" /\ first
  /\ Gone("stopped") /\ UNCHANGED faults

StopUnit ==
  /\ unit = "up" /\ pc # "off"
  /\ IF first
     THEN Gone("stopped") /\ UNCHANGED faults
     ELSE /\ unit' = "stopping"
          /\ channel' = IF channel = "none" THEN "TERM" ELSE channel
          /\ UNCHANGED <<process, settings, Rest, hups, due, asks>>

\* The stop timeout of the service manager.
Kill == unit = "stopping" /\ pc # "off" /\ Gone("stopped") /\ UNCHANGED faults

\* Restart=on-failure.
Respawn ==
  /\ unit = "failed" /\ unit' = "up" /\ pc' = "init" /\ first' = TRUE /\ ending' = FALSE
  /\ UNCHANGED <<settings, Rest, channel, hups, due, asks>>

Main ==
  \/ InitApp \/ StartCron \/ StartCore \/ Notify \/ TakeSignal \/ StopCron \/ StopCore
  \/ \E s \in Servers : ReadServer(s) \/ ListenServer(s) \/ StopServer(s)

Next ==
  \/ Main \/ CheckCore \/ CoreChecked
  \/ Save \/ Ask \/ HangUp \/ HangUpEarly \/ StopUnit \/ Kill \/ Respawn

Spec == Init /\ [][Next]_vars

\* The main goroutine goes on, the scheduler runs its job, a signal is delivered, and the
\* service manager keeps its word.
Fairness ==
  /\ WF_vars(Main) /\ WF_vars(CheckCore) /\ WF_vars(CoreChecked)
  /\ WF_vars(HangUp \/ HangUpEarly) /\ WF_vars(Kill) /\ WF_vars(Respawn)
FairSpec == Spec /\ Fairness

-----------------------------------------------------------------------------
(* Properties. *)

\* The variables have their types; there is a process unless the service manager says that it
\* has failed or stopped.
TypeOK ==
  /\ pc \in {"init", "age", "web", "webListen", "sub", "subListen", "core", "notify", "loop",
             "stopCron", "stopSub", "stopWeb", "stopCore", "off"}
  /\ {first, ending, cron, job, core} \subseteq BOOLEAN
  /\ stored \in Settings /\ {saves, due} \subseteq 0 .. MaxSaves
  /\ held \in [Ports -> Servers \union {"free", "lost"}]
  /\ channel \in {"none", "HUP", "TERM"} /\ unit \in {"up", "failed", "stopping", "stopped"}
  /\ (pc = "off") <=> (unit \in {"failed", "stopped"})

\* A server that runs once every signal has been handled serves settings no older than those
\* stored when a restart was last asked for: neither the reads in pieces nor a dropped signal
\* lose a change that was followed by a restart.
Applied ==
  pc = "loop" /\ channel = "none" /\ hups = 0
    => \A s \in Servers : server[s].up => server[s].version >= due

\* A process that waits for signals gets its core back, whichever server failed to start,
\* unless the last start failed before the scheduler.
CoreBack == (pc = "loop" /\ failedAt # "age") ~> (core \/ pc # "loop")

Lost == \E p \in Ports : held[p] = "lost"

================================================================================
