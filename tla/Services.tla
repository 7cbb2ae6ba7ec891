---- MODULE Services ----
(***************************************************************************)
(* The user services of a workstation: the units of daemon, relay and      *)
(* connector, and the service, recover and watchdog commands that act on   *)
(* them through launchd, systemd or not at all.  A command reads config    *)
(* and registry once, then acts on one service after the other; other      *)
(* commands run in between.                                                *)
(*                                                                         *)
(* Left out: --dry-run and a missing binary (the services it concerns are  *)
(* treated as not configured), log tailing, and lock recovery, which is in *)
(* LockRecovery.                                                           *)
(***************************************************************************)
EXTENDS HomeFiles

VARIABLES
    unit,           \* unit files on disk: the project repo it was rendered for
    loaded,         \* services the manager knows
    active,         \* its process: off, on, or exited by itself
    daemonConfig,   \* services/daemon.config.json: the repo it points at
    blockers        \* of the last finished recover or watchdog report

serviceVars == <<unit, loaded, active, daemonConfig, blockers>>

ServiceNames == {"daemon", "relay", "connector"}

running == {s \in ServiceNames : active[s] = "on"}

isServiceCommand(cmd) == cmd.name \in {"install", "uninstall", "start", "stop", "restart", "recover", "watchdog"}

------------------------------------------------------------------------------
\* What a command finds configured when it starts.

\* An explicit id is not given: the current project, or the one of this repo.
ResolveProject(reg, repo) ==
    IF reg.current # Blank THEN reg.current
    ELSE LET here == {i \in DOMAIN reg.entries : reg.entries[i].repo = repo} IN
         IF here = {} THEN Blank ELSE CHOOSE i \in here : TRUE

daemonSpec(p) == proc[p].id # Blank
relaySpec(p) == proc[p].config.relay /\ home.relay # Absent
connectorSpec(p) == proc[p].config.connector /\ home.connector # Absent

configured(p, s) ==
    CASE s = "daemon" -> daemonSpec(p) [] s = "relay" -> relaySpec(p) [] s = "connector" -> connectorSpec(p)

buildSpecs == <<"daemon", "relay", "connector">>

\* Mutant: the services are taken in the order they were built.
orderSpecsForActionMutant(action) == buildSpecs

\* The order in which an action takes the services.
orderSpecsForAction(action) ==
    CASE action \in {"start", "restart"} -> <<"relay", "daemon", "connector">>
      [] action \in {"stop", "uninstall"} -> <<"connector", "daemon", "relay">>
      [] OTHER -> buildSpecs

selectSpecs(p) == IF proc[p].cmd.service = "all" THEN ServiceNames ELSE {proc[p].cmd.service}

resolveRuntimeContext(p) ==
    /\ next(p, "resolve")
    /\ goOn(p, [proc[p] EXCEPT !.id = ResolveProject(proc[p].projects, proc[p].cmd.repo)], 1)
    /\ UNCHANGED <<home, repoCfg, minted, serviceVars>>

\* The services of an order that are selected and configured.
chosen(p, order) ==
    LET kept(s) == IF s \in selectSpecs(p) /\ configured(p, s) THEN <<s>> ELSE <<>>
    IN  kept(order[1]) \o kept(order[2]) \o kept(order[3])

pickServices(p) ==
    /\ next(p, "pick")
    /\ goOn(p, [proc[p] EXCEPT !.svcs = chosen(p, orderSpecsForAction(proc[p].cmd.name))], 1)
    /\ UNCHANGED <<home, repoCfg, minted, serviceVars>>

\* The daemon's config follows the resolved project at install, start and
\* restart; its unit is rendered at install only.
writeGeneratedConfigs(p) ==
    /\ next(p, "writeDaemonConfig")
    /\ IF "daemon" \in {proc[p].svcs[i] : i \in DOMAIN proc[p].svcs}
       THEN daemonConfig' = proc[p].projects.entries[proc[p].id].repo
       ELSE UNCHANGED daemonConfig
    /\ goOn(p, proc[p], 1)
    /\ UNCHANGED <<home, repoCfg, minted, unit, loaded, active, blockers>>

------------------------------------------------------------------------------
\* The managers.  A tool that fails changes nothing.

repoOf(p, s) == IF s = "daemon" THEN proc[p].projects.entries[proc[p].id].repo ELSE "home"

\* launchctl bootstrap starts the service: the agent is RunAtLoad.
launchdInstall(p, s) ==
    /\ unit' = [unit EXCEPT ![s] = repoOf(p, s)]
    /\ loaded' = loaded \cup {s}
    /\ active' = IF s \in loaded THEN active ELSE [active EXCEPT ![s] = "on"]

systemdInstall(p, s) ==
    /\ unit' = [unit EXCEPT ![s] = repoOf(p, s)]
    /\ loaded' = loaded \cup {s}
    /\ UNCHANGED active

\* bootout, or disable --now, and the unit file is removed.
Uninstall(s) ==
    /\ unit' = [unit EXCEPT ![s] = Absent]
    /\ loaded' = loaded \ {s}
    /\ active' = [active EXCEPT ![s] = "off"]

\* kickstart, or systemctl start and restart.
Start(s) == s \in loaded /\ active' = [active EXCEPT ![s] = "on"] /\ UNCHANGED <<unit, loaded>>

\* bootout unloads the service: it cannot be started again before the next
\* install.
launchdStop(s) == active' = [active EXCEPT ![s] = "off"] /\ loaded' = loaded \ {s} /\ UNCHANGED unit

systemdStop(s) == s \in loaded /\ active' = [active EXCEPT ![s] = "off"] /\ UNCHANGED <<unit, loaded>>

launchdDoes(p, s, action) ==
    \/ action = "install" /\ launchdInstall(p, s)
    \/ action = "uninstall" /\ Uninstall(s)
    \/ action \in {"start", "restart"} /\ Start(s)
    \/ action = "stop" /\ launchdStop(s)

systemdDoes(p, s, action) ==
    \/ action = "install" /\ systemdInstall(p, s)
    \/ action = "uninstall" /\ Uninstall(s)
    \/ action \in {"start", "restart"} /\ Start(s)
    \/ action = "stop" /\ systemdStop(s)

managerDoes(p, s, action) ==
    \/ scene.manager = "launchd" /\ launchdDoes(p, s, action)
    \/ scene.manager = "systemd" /\ systemdDoes(p, s, action)

\* A refused or failing tool is recorded; the loop goes on.  Uninstall
\* ignores its tools' errors: the unit file goes, the process may stay.
managerFails(s, action) ==
    /\ scene.manager # "manual"
    /\ IF action = "uninstall"
       THEN unit' = [unit EXCEPT ![s] = Absent] /\ UNCHANGED <<loaded, active>>
       ELSE UNCHANGED <<unit, loaded, active>>

\* The manual manager does nothing and says so.
manualDoes == scene.manager = "manual" /\ UNCHANGED <<unit, loaded, active>>

performServiceAction(p) ==
    LET s == Head(proc[p].svcs)
        later == [proc[p] EXCEPT !.svcs = Tail(proc[p].svcs)] IN
    /\ next(p, "serve") /\ proc[p].svcs # <<>>
    /\ \/ managerDoes(p, s, proc[p].cmd.name) /\ goOn(p, later, 0)
       \/ managerFails(s, proc[p].cmd.name) /\ goOn(p, [later EXCEPT !.failed = @ \cup {s}], 0)
       \/ manualDoes /\ goOn(p, later, 0)
    /\ UNCHANGED <<home, repoCfg, minted, daemonConfig, blockers>>

serviceReported(p) == next(p, "serve") /\ proc[p].svcs = <<>> /\ skip(p, 1) /\ UNCHANGED serviceVars

------------------------------------------------------------------------------
\* recover --restart-services looks at a service and restarts it in a second
\* step; an error is a blocker of its report.

inspectService(p) ==
    LET s == Head(proc[p].svcs) IN
    /\ next(p, "recover") /\ proc[p].svcs # <<>> /\ ~proc[p].open
    /\ IF unit[s] # Absent /\ s \notin running /\ scene.manager # "manual"
       THEN goOn(p, [proc[p] EXCEPT !.open = TRUE], 0)
       ELSE goOn(p, [proc[p] EXCEPT !.svcs = Tail(@)], 0)
    /\ UNCHANGED <<home, repoCfg, minted, serviceVars>>

recoverServices(p) ==
    LET s == Head(proc[p].svcs)
        later == [proc[p] EXCEPT !.svcs = Tail(@), !.open = FALSE] IN
    /\ next(p, "recover") /\ proc[p].open
    /\ \/ Start(s) /\ goOn(p, later, 0)
       \/ UNCHANGED <<unit, loaded, active>> /\ goOn(p, [later EXCEPT !.failed = @ \cup {s}], 0)
    /\ UNCHANGED <<home, repoCfg, minted, daemonConfig, blockers>>

Recover(p) ==
    /\ next(p, "recover") /\ proc[p].svcs = <<>>
    /\ blockers' = proc[p].failed \cup (IF proc[p].id = Blank THEN {"project"} ELSE {})
    /\ skip(p, 1)
    /\ UNCHANGED <<unit, loaded, active, daemonConfig>>

\* The watchdog only reports.  The connector's status file says connected
\* while daemon, relay and connector all run.
registryWatchdogCheck(p) == IF proc[p].id = Blank THEN {"project"} ELSE {}
daemonWatchdogCheck == IF "daemon" \in running THEN {} ELSE {"daemon"}
relayWatchdogCheck(p) ==
    IF proc[p].config.relay /\ (home.relay \in {Absent, Torn} \/ "relay" \notin running) THEN {"relay"} ELSE {}
connectorWatchdogCheck(p) ==
    IF proc[p].config.connector /\ ~({"connector", "relay"} \subseteq running) THEN {"connector"} ELSE {}

WatchdogOnce(p) ==
    /\ next(p, "watch")
    /\ blockers' = registryWatchdogCheck(p) \cup daemonWatchdogCheck \cup relayWatchdogCheck(p) \cup connectorWatchdogCheck(p)
    /\ skip(p, 1)
    /\ UNCHANGED <<unit, loaded, active, daemonConfig>>

\* A service process ends by itself; both managers start it again.
serviceExits(s) ==
    /\ s \in running /\ scene.exits
    /\ active' = [active EXCEPT ![s] = "exited"]
    /\ UNCHANGED <<homeVars, unit, loaded, daemonConfig, blockers>>

managerRestarts(s) ==
    /\ active[s] = "exited" /\ s \in loaded
    /\ active' = [active EXCEPT ![s] = "on"]
    /\ UNCHANGED <<homeVars, unit, loaded, daemonConfig, blockers>>

------------------------------------------------------------------------------
runService(cmd) ==
    <<"loadConfig", "loadRegistry", "resolve", "pick">>
    \o (IF cmd.name \in {"install", "start", "restart"} THEN ensureHome \o <<"writeDaemonConfig">> ELSE <<>>)
    \o <<"serve">>

runRecover == <<"loadConfig", "loadRegistry", "resolve", "pick", "recover">>

runWatchdog == <<"loadConfig", "loadRegistry", "resolve", "watch">>

serviceProgram(cmd) ==
    CASE cmd.name = "recover" -> runRecover [] cmd.name = "watchdog" -> runWatchdog [] OTHER -> runService(cmd)

beginService(p) ==
    \E cmd \in scene.cmds :
        isServiceCommand(cmd) /\ beginWith(p, cmd, serviceProgram(cmd)) /\ UNCHANGED <<scene, repos, serviceVars>>

serviceStep(p) ==
    /\ UNCHANGED <<scene, repos, started>>
    /\ \/ resolveRuntimeContext(p) \/ pickServices(p) \/ writeGeneratedConfigs(p)
       \/ performServiceAction(p) \/ serviceReported(p)
       \/ inspectService(p) \/ recoverServices(p) \/ Recover(p) \/ WatchdogOnce(p)

serviceInit ==
    /\ unit = [s \in ServiceNames |-> Absent]
    /\ loaded = {}
    /\ active = [s \in ServiceNames |-> "off"]
    /\ daemonConfig = Absent
    /\ blockers = {}

------------------------------------------------------------------------------
\* Properties.

\* While a stop or uninstall of all services runs and no other command, a
\* connector that still runs is one whose own stop has not been tried yet or
\* has failed: daemon and relay are not taken away under a connector that
\* could have been stopped.
ConnectorStopsFirst ==
    \A p \in Procs :
        LET cmd == proc[p].cmd
            tried == ServiceNames \ {proc[p].svcs[i] : i \in DOMAIN proc[p].svcs} IN
        (/\ ~free(p) /\ Head(proc[p].todo) = "serve"
         /\ cmd.name \in {"stop", "uninstall"} /\ cmd.service = "all"
         /\ scene.procs = {p} /\ ~scene.exits
         /\ connectorSpec(p)
         /\ "connector" \in running /\ "connector" \notin proc[p].failed)
        => tried \cap {"daemon", "relay"} \cap {s \in ServiceNames : configured(p, s)} = {}
====
