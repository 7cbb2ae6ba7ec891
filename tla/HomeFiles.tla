---- MODULE HomeFiles ----
(***************************************************************************)
(* The files under CODENCER_HOME and the codencer commands that change     *)
(* them: the local config, the project registry, the machine identity and  *)
(* the configs setup writes for the relay, the connector and the gateway.  *)
(* Commands are separate processes without a lock between them, so a       *)
(* command is a program of single file operations; it may be killed        *)
(* between any two of them.  Registry, local config and identity are       *)
(* replaced by rename; the other files are truncated and written in place. *)
(*                                                                         *)
(* Left out: the host's name does not change while the model runs, so      *)
(* normalizeMachine finds nothing to repair, and the options that also     *)
(* install services at the end of a setup are separate service commands.   *)
(***************************************************************************)
EXTENDS Naturals, Sequences, FiniteSets

CONSTANTS
    Procs,          \* command processes that can run at the same time
    Repos,          \* repositories on this machine
    Absent, Torn,   \* a file that is not there, a file cut short
    Blank,          \* an empty field
    Scenes,         \* which commands meet: [cmds, procs, start, hosts]
    MaxMinted,      \* bound: random ids and tokens generated
    MaxCommands     \* bound: commands started

VARIABLES
    scene,          \* the scenario of this behaviour
    home,           \* the files under CODENCER_HOME
    repoCfg,        \* <repo>/.codencer/project.json: its project id
    repos,          \* repositories that still exist
    proc,           \* the running commands
    minted, started

homeVars == <<scene, home, repoCfg, repos, proc, minted, started>>

Files == {"config", "projects", "machine", "relay", "connector", "gateway", "token", "status"}

\* A command's options and what it has read; svcs are the services it acts on.
Idle == [cmd |-> Blank, todo |-> <<>>, open |-> FALSE, config |-> Absent, projects |-> Absent,
         machine |-> Absent, gateway |-> {}, connector |-> Absent, status |-> Absent, token |-> Blank, id |-> Blank, svcs |-> <<>>, failed |-> {}]

DefaultConfig == [profile |-> "self-host", relay |-> FALSE, connector |-> FALSE, gateway |-> FALSE]

\* A planner token passed on the command line; generated ones count from 1.
GivenToken == 0

EmptyRegistry == [current |-> Blank, entries |-> <<>>]

------------------------------------------------------------------------------
\* Steps of a command.

rest(p, n) == SubSeq(proc[p].todo, n + 1, Len(proc[p].todo))

\* The command goes on after n of its operations, with these locals.
goOn(p, locals, n) == proc' = [proc EXCEPT ![p] = [locals EXCEPT !.todo = rest(p, n)]]

skip(p, n) == goOn(p, proc[p], n) /\ UNCHANGED <<home, repoCfg, minted>>

\* An error ends the command; so does its last operation.
fail(p) == proc' = [proc EXCEPT ![p] = Idle] /\ UNCHANGED <<home, repoCfg, minted>>

next(p, op) == proc[p].todo # <<>> /\ Head(proc[p].todo) = op

\* os.WriteFile: the file is cut short first and whole only after the second
\* step.
writeFile(p, f, v) ==
    /\ UNCHANGED <<repoCfg, minted>>
    /\ IF proc[p].open
       THEN home' = [home EXCEPT ![f] = v] /\ goOn(p, [proc[p] EXCEPT !.open = FALSE], 1)
       ELSE home' = [home EXCEPT ![f] = Torn] /\ goOn(p, [proc[p] EXCEPT !.open = TRUE], 0)

\* A temporary file renamed over the old one.
writeJSONAtomic(p, f, v) ==
    /\ home' = [home EXCEPT ![f] = v]
    /\ goOn(p, proc[p], 1)
    /\ UNCHANGED <<repoCfg, minted>>

------------------------------------------------------------------------------
\* EnsureHome: each file that is missing gets its default.

ensureHome == <<"statConfig", "makeConfig", "statProjects", "makeProjects", "loadMachine", "makeMachine">>

statConfig(p) == next(p, "statConfig") /\ skip(p, IF home.config = Absent THEN 1 ELSE 2)
makeConfig(p) == next(p, "makeConfig") /\ writeJSONAtomic(p, "config", DefaultConfig)
statProjects(p) == next(p, "statProjects") /\ skip(p, IF home.projects = Absent THEN 1 ELSE 2)
makeProjects(p) == next(p, "makeProjects") /\ writeJSONAtomic(p, "projects", EmptyRegistry)

\* EnsureMachine: the identity is read, or generated once and saved.
EnsureMachine(p) ==
    /\ next(p, "loadMachine")
    /\ IF home.machine = Torn THEN fail(p)
       ELSE IF home.machine = Absent
       THEN /\ minted < MaxMinted
            /\ minted' = minted + 1
            /\ goOn(p, [proc[p] EXCEPT !.machine = [id |-> minted, label |-> "host"]], 1)
            /\ UNCHANGED <<home, repoCfg>>
       ELSE goOn(p, [proc[p] EXCEPT !.machine = home.machine], 2) /\ UNCHANGED <<home, repoCfg, minted>>

SaveMachine(p) == next(p, "makeMachine") /\ writeJSONAtomic(p, "machine", proc[p].machine)

SetMachineHostLabel(p) ==
    next(p, "saveLabel") /\ writeJSONAtomic(p, "machine", [proc[p].machine EXCEPT !.label = "chosen"])

------------------------------------------------------------------------------
\* The local config.

LoadConfig(p) ==
    /\ next(p, "loadConfig")
    /\ IF home.config = Torn THEN fail(p)
       ELSE /\ goOn(p, [proc[p] EXCEPT !.config = IF home.config = Absent THEN DefaultConfig ELSE home.config], 1)
            /\ UNCHANGED <<home, repoCfg, minted>>

SaveConfig(p, op, cfg) == next(p, op) /\ writeJSONAtomic(p, "config", cfg)

UseProfile(p) == SaveConfig(p, "useProfile", [proc[p].config EXCEPT !.profile = proc[p].cmd.profile])

------------------------------------------------------------------------------
\* The project registry.

LoadRegistry(p) ==
    /\ next(p, "loadRegistry")
    /\ IF home.projects = Torn THEN fail(p)
       ELSE /\ goOn(p, [proc[p] EXCEPT !.projects = IF home.projects = Absent THEN EmptyRegistry ELSE home.projects], 1)
            /\ UNCHANGED <<home, repoCfg, minted>>

\* Every registered repository is looked up on disk before a save.
ValidateRegistry(reg) ==
    /\ \A i \in DOMAIN reg.entries : reg.entries[i].repo \in repos
    /\ reg.current # Blank => reg.current \in DOMAIN reg.entries

SaveRegistry(p, reg) == IF ValidateRegistry(reg) THEN writeJSONAtomic(p, "projects", reg) ELSE fail(p)

UpsertProject(reg, id, entry) ==
    [current |-> IF reg.current = Blank THEN id ELSE reg.current,
     entries |-> [i \in DOMAIN reg.entries \cup {id} |-> IF i = id THEN entry ELSE reg.entries[i]]]

UseProject(reg, id) == [reg EXCEPT !.current = id]

ShareProject(reg, id) == [reg EXCEPT !.entries[id].shared = TRUE]

UnshareProject(reg, id) == [reg EXCEPT !.entries[id].shared = FALSE]

RemoveProject(reg, id) ==
    [current |-> IF reg.current = id THEN Blank ELSE reg.current,
     entries |-> [i \in DOMAIN reg.entries \ {id} |-> reg.entries[i]]]

\* BackfillMachineMetadata fills blanks only.
backfilled(reg, machine) ==
    [reg EXCEPT !.entries = [i \in DOMAIN reg.entries |->
        IF reg.entries[i].machine = Blank THEN [reg.entries[i] EXCEPT !.machine = machine.id] ELSE reg.entries[i]]]

BackfillMachineMetadata(p) ==
    LET reg == backfilled(proc[p].projects, proc[p].machine) IN
    /\ next(p, "backfill")
    /\ IF reg = proc[p].projects THEN skip(p, 1)
       ELSE IF ValidateRegistry(reg)
       THEN /\ home' = [home EXCEPT !.projects = reg]
            /\ goOn(p, [proc[p] EXCEPT !.projects = reg], 1)
            /\ UNCHANGED <<repoCfg, minted>>
       ELSE fail(p)

loadRegistryWithMachine == ensureHome \o <<"loadMachine", "makeMachine", "loadRegistry", "backfill">>

\* An unknown id ends a command that edits an entry.
editRegistry(p, op, edited(_, _)) ==
    /\ next(p, op)
    /\ IF proc[p].cmd.id \in DOMAIN proc[p].projects.entries
       THEN SaveRegistry(p, edited(proc[p].projects, proc[p].cmd.id))
       ELSE fail(p)

runProjectUse(p) == editRegistry(p, "use", UseProject)
runProjectShare(p) == editRegistry(p, "share", ShareProject)
runProjectUnshare(p) == editRegistry(p, "unshare", UnshareProject)
runProjectRemove(p) == editRegistry(p, "remove", RemoveProject)

------------------------------------------------------------------------------
\* A repository's own project.json, and the commands that register it.

\* An existing file must agree with --id, unless it is to be rewritten.
projectFromConfig(cmd, file) == file = Absent \/ cmd.update \/ cmd.name = "executor" \/ cmd.id = file

NewProject(cmd, machine, kept) == [repo |-> cmd.repo, shared |-> cmd.share \/ kept, machine |-> machine.id]

\* project init writes a missing file, adopt refuses it; an existing file is
\* rewritten with --update-project-config, and always by executor default.
readProject(p) ==
    LET cmd == proc[p].cmd
        file == repoCfg[cmd.repo]
        writes == file = Absent \/ cmd.update IN
    /\ next(p, "readProject")
    /\ IF \/ file = Torn
          \/ file = Absent /\ cmd.name # "init"
          \/ ~projectFromConfig(cmd, file)
       THEN fail(p)
       ELSE /\ goOn(p, [proc[p] EXCEPT !.id = IF cmd.name = "executor" THEN file ELSE cmd.id], IF writes THEN 1 ELSE 2)
            /\ UNCHANGED <<home, repoCfg, minted>>

\* projectconfig.Save truncates and writes.
saveProject(p) ==
    LET r == proc[p].cmd.repo IN
    /\ next(p, "saveProject")
    /\ UNCHANGED <<home, minted>>
    /\ IF proc[p].open
       THEN repoCfg' = [repoCfg EXCEPT ![r] = proc[p].id] /\ goOn(p, [proc[p] EXCEPT !.open = FALSE], 1)
       ELSE repoCfg' = [repoCfg EXCEPT ![r] = Torn] /\ goOn(p, [proc[p] EXCEPT !.open = TRUE], 0)

\* The registry entry keeps an earlier entry's sharing unless --share is
\* given; setup local does not look at it.
initOrAdoptProject(p) ==
    LET cmd == proc[p].cmd
        reg == proc[p].projects
        kept == cmd.name # "setupLocal" /\ cmd.id \in DOMAIN reg.entries /\ reg.entries[cmd.id].shared IN
    /\ next(p, "register")
    /\ SaveRegistry(p, UpsertProject(reg, cmd.id, NewProject(cmd, proc[p].machine, kept)))

\* executor default updates the entries of this repository, if there are any.
setDefaultExecutor(p) ==
    LET reg == proc[p].projects IN
    /\ next(p, "noteExecutor")
    /\ IF \E i \in DOMAIN reg.entries : reg.entries[i].repo = proc[p].cmd.repo
       THEN SaveRegistry(p, reg) ELSE skip(p, 1)

------------------------------------------------------------------------------
\* Setup: the files of the relay, the connector and the gateway come before
\* the local config that names them.

\* The planner token is given, or the existing relay config's, or generated.
plannerTokenFromExistingConfig == IF home.relay \in {Absent, Torn} THEN Blank ELSE home.relay

pickToken(p) ==
    LET found == IF proc[p].cmd.given THEN GivenToken ELSE plannerTokenFromExistingConfig IN
    /\ next(p, "pickToken")
    /\ UNCHANGED <<home, repoCfg>>
    /\ IF found # Blank
       THEN goOn(p, [proc[p] EXCEPT !.token = found], 2) /\ UNCHANGED minted
       ELSE IF ~proc[p].cmd.generate THEN proc' = [proc EXCEPT ![p] = Idle] /\ UNCHANGED minted
       ELSE /\ minted < MaxMinted
            /\ minted' = minted + 1
            /\ goOn(p, [proc[p] EXCEPT !.token = minted], 1)

saveToken(p) == next(p, "saveToken") /\ writeFile(p, "token", proc[p].token)

saveRelay(p) == next(p, "saveRelay") /\ writeFile(p, "relay", proc[p].token)

\* setup relay writes a connector config without an enrollment.
saveConnector(p) == next(p, "saveConnector") /\ writeFile(p, "connector", [enrolled |-> FALSE, shares |-> <<>>])

nameRelay(p) == SaveConfig(p, "nameRelay", [proc[p].config EXCEPT !.relay = TRUE, !.connector = TRUE])

\* The gateway config lists relay profiles; setup writes one without any.
saveGateway(p) == next(p, "saveGateway") /\ writeFile(p, "gateway", {})

nameGateway(p) == SaveConfig(p, "nameGateway", [proc[p].config EXCEPT !.gateway = TRUE])

SelfHost(p) == SaveConfig(p, "selfHost", [proc[p].config EXCEPT !.profile = "self-host"])

\* gateway relay add: a missing gateway config is named before it is written.
loadOrDefaultGatewayConfig(p) ==
    /\ next(p, "readGateway")
    /\ IF home.gateway = Torn THEN fail(p)
       ELSE IF home.gateway = Absent THEN skip(p, 1)
       ELSE /\ goOn(p, [proc[p] EXCEPT !.gateway = home.gateway], Len(proc[p].todo) - 1)
            /\ UNCHANGED <<home, repoCfg, minted>>

UpsertRelayProfile(p) == next(p, "addRelay") /\ writeFile(p, "gateway", proc[p].gateway \cup {proc[p].cmd.id})

updateLocalConnectorConfigPath(p) == SaveConfig(p, "nameConnector", [proc[p].config EXCEPT !.connector = TRUE])

------------------------------------------------------------------------------
\* The connector's own config lists the daemon instances it shares.  Its
\* status file repeats them beside the state of the session.

shared(cfg) == {i \in DOMAIN cfg.shares : cfg.shares[i]}

readConnector(p) ==
    /\ next(p, "readConnector")
    /\ IF home.connector \in {Absent, Torn} THEN fail(p)
       ELSE goOn(p, [proc[p] EXCEPT !.connector = home.connector], 1) /\ UNCHANGED <<home, repoCfg, minted>>

UpsertSharedInstance(cfg, inst) ==
    [cfg EXCEPT !.shares = [i \in DOMAIN cfg.shares \cup {inst} |-> i = inst \/ cfg.shares[i]]]

\* The locals follow the file that is written: the status repeats them.
saveConnectorConfig(p, cfg) ==
    IF proc[p].open
    THEN /\ home' = [home EXCEPT !.connector = cfg]
         /\ goOn(p, [proc[p] EXCEPT !.open = FALSE, !.connector = cfg], 1)
         /\ UNCHANGED <<repoCfg, minted>>
    ELSE writeFile(p, "connector", cfg)

\* connector enroll: the relay has answered; a new config replaces the old
\* one.  It is saved, with the status, a second time with the same content.
Enroll(p) ==
    /\ next(p, "enroll")
    /\ saveConnectorConfig(p, [enrolled |-> TRUE,
            shares |-> IF proc[p].cmd.share THEN [i \in {proc[p].cmd.repo} |-> TRUE] ELSE <<>>])

\* Sharing needs the daemon's own answer, which must name the instance.
resolveShareEntry(p) == next(p, "resolveShare") /\ (skip(p, 1) \/ fail(p))

ShareInstance(p) ==
    /\ next(p, "shareInstance")
    /\ saveConnectorConfig(p, UpsertSharedInstance(proc[p].connector, proc[p].cmd.repo))

findSharedInstanceIndex(cfg, inst) == inst \in DOMAIN cfg.shares

UnshareInstance(p) ==
    /\ next(p, "unshareInstance")
    /\ IF findSharedInstanceIndex(proc[p].connector, proc[p].cmd.repo)
       THEN saveConnectorConfig(p, [proc[p].connector EXCEPT !.shares[proc[p].cmd.repo] = FALSE])
       ELSE fail(p)

loadStatusFile(p) ==
    /\ next(p, "readStatus")
    /\ goOn(p, [proc[p] EXCEPT !.status = home.status], 1)
    /\ UNCHANGED <<home, repoCfg, minted>>

\* What a change of the status file keeps of the status it was read from.
seedStatus(status, cfg) == [state |-> IF status = Absent THEN "disconnected" ELSE status.state, shares |-> shared(cfg)]

SyncConfig(p) == next(p, "saveStatus") /\ writeJSONAtomic(p, "status", seedStatus(proc[p].status, proc[p].connector))

------------------------------------------------------------------------------
\* The commands.

runProjectInit == ensureHome \o <<"loadConfig", "loadMachine", "makeMachine", "readProject", "saveProject", "loadRegistry", "register">>
runExecutor == <<"readProject", "saveProject">> \o loadRegistryWithMachine \o <<"noteExecutor">>
setupLocal == ensureHome \o <<"loadConfig", "loadMachine", "makeMachine", "loadRegistry", "register">>
\* Mutant: the relay config is written before the file with its token.
setupRelayMutant == ensureHome \o <<"pickToken", "saveRelay", "saveToken", "saveConnector", "loadConfig", "nameRelay">>

setupRelay == ensureHome \o <<"pickToken", "saveToken", "saveRelay", "saveConnector", "loadConfig", "nameRelay">>
setupGateway == ensureHome \o <<"saveGateway", "loadConfig", "nameGateway">>
setupSelfHost == setupGateway \o <<"loadConfig", "selfHost">>
runGatewayRelay == <<"loadConfig", "readGateway">> \o ensureHome \o <<"loadConfig", "nameGateway", "addRelay">>
runConnector == <<"enroll", "readStatus", "saveStatus">> \o ensureHome \o <<"loadConfig", "nameConnector">>
runConfig == ensureHome \o <<"loadConfig", "useProfile">>
runMachine == ensureHome \o <<"loadMachine", "makeMachine", "saveLabel">>
runProjectList == loadRegistryWithMachine
runShare == <<"readConnector", "resolveShare", "shareInstance", "readStatus", "saveStatus">>
runUnshare == <<"readConnector", "unshareInstance", "readStatus", "saveStatus">>

program(cmd) ==
    CASE cmd.name \in {"init", "adopt"} -> runProjectInit
      [] cmd.name = "executor" -> runExecutor
      [] cmd.name = "setupLocal" -> setupLocal
      [] cmd.name = "setupRelay" -> setupRelay
      [] cmd.name = "setupGateway" -> setupGateway
      [] cmd.name = "setupSelfHost" -> setupSelfHost
      [] cmd.name = "relayAdd" -> runGatewayRelay
      [] cmd.name = "enroll" -> runConnector
      [] cmd.name = "shareInstance" -> runShare
      [] cmd.name = "unshareInstance" -> runUnshare
      [] cmd.name = "profile" -> runConfig
      [] cmd.name = "label" -> runMachine
      [] cmd.name = "list" -> runProjectList
      [] cmd.name \in {"use", "share", "unshare", "remove"} -> loadRegistryWithMachine \o <<cmd.name>>
      [] OTHER -> <<>>

free(p) == proc[p].todo = <<>>

beginWith(p, cmd, ops) ==
    /\ free(p) /\ p \in scene.procs
    /\ started < MaxCommands
    /\ started' = started + 1
    /\ proc' = [proc EXCEPT ![p] = [Idle EXCEPT !.cmd = cmd, !.todo = ops]]
    /\ UNCHANGED <<home, repoCfg, minted>>

begin(p) == \E cmd \in scene.cmds : program(cmd) # <<>> /\ beginWith(p, cmd, program(cmd))

\* A command is killed between two operations.
killed(p) == ~free(p) /\ fail(p) /\ UNCHANGED started

fileStep(p) ==
    \/ statConfig(p) \/ makeConfig(p) \/ statProjects(p) \/ makeProjects(p) \/ EnsureMachine(p) \/ SaveMachine(p)
    \/ SetMachineHostLabel(p) \/ LoadConfig(p) \/ UseProfile(p) \/ LoadRegistry(p) \/ BackfillMachineMetadata(p)
    \/ runProjectUse(p) \/ runProjectShare(p) \/ runProjectUnshare(p) \/ runProjectRemove(p)
    \/ readProject(p) \/ saveProject(p) \/ initOrAdoptProject(p) \/ setDefaultExecutor(p)
    \/ pickToken(p) \/ saveToken(p) \/ saveRelay(p) \/ saveConnector(p) \/ nameRelay(p)
    \/ saveGateway(p) \/ nameGateway(p) \/ SelfHost(p) \/ loadOrDefaultGatewayConfig(p) \/ UpsertRelayProfile(p)
    \/ Enroll(p) \/ updateLocalConnectorConfigPath(p)
    \/ readConnector(p) \/ resolveShareEntry(p) \/ ShareInstance(p) \/ UnshareInstance(p) \/ loadStatusFile(p) \/ SyncConfig(p)

homeStep(p) ==
    /\ UNCHANGED <<scene, repos>>
    /\ begin(p) \/ killed(p) \/ (fileStep(p) /\ UNCHANGED started)

\* The operator deletes a repository.
loseRepo ==
    /\ \E r \in repos \cap scene.lost : repos' = repos \ {r}
    /\ UNCHANGED <<scene, home, repoCfg, proc, minted, started>>

homeInit ==
    /\ scene \in Scenes
    /\ home = scene.start
    /\ repoCfg = [r \in Repos |-> IF r \in scene.files THEN r ELSE Absent]
    /\ repos = Repos
    /\ proc = [p \in Procs |-> Idle]
    /\ minted = 1
    /\ started = 0

------------------------------------------------------------------------------
\* What the files hold.

Commands == UNION {sc.cmds : sc \in Scenes}

ProjectIds ==
    {cmd.id : cmd \in Commands}
    \cup UNION {DOMAIN sc.start.projects.entries : sc \in {x \in Scenes : x.start.projects # Absent}}

Configs == [profile : {"self-host"} \cup {cmd.profile : cmd \in Commands},
            relay : BOOLEAN, connector : BOOLEAN, gateway : BOOLEAN]

Machines == [id : Nat, label : {"host", "chosen"}]

Entries == [repo : Repos, shared : BOOLEAN, machine : Nat \cup {Blank}]

isRegistry(reg) ==
    \E ids \in SUBSET ProjectIds : reg \in [current : ProjectIds \cup {Blank}, entries : [ids -> Entries]]

isConnectorConfig(cfg) ==
    \E instances \in SUBSET Repos : cfg \in [enrolled : BOOLEAN, shares : [instances -> BOOLEAN]]

StatusFiles == [state : {"disconnected", "connecting", "connected", "error"}, shares : SUBSET Repos]

HomeIsTyped(h) ==
    /\ DOMAIN h = Files
    /\ h.config \in Configs \cup {Absent}
    /\ h.projects = Absent \/ isRegistry(h.projects)
    /\ h.machine \in Machines \cup {Absent}
    /\ h.status \in StatusFiles \cup {Absent}
    /\ h.connector \in {Absent, Torn} \/ isConnectorConfig(h.connector)
    /\ \A f \in {"relay", "token"} : h[f] \in {Absent, Torn} \/ h[f] \in Nat

------------------------------------------------------------------------------
\* Properties.

\* The local config never names a relay or connector config that is not there.
NamedFilesExist(h) ==
    h.config # Absent =>
        /\ h.config.relay => h.relay # Absent
        /\ h.config.connector => h.connector # Absent

\* A relay config in use with a generated token has that token in the token
\* file the operator was told of.
TokenIsOnDisk(h) ==
    h.relay \notin {Absent, Torn, GivenToken} => h.token = h.relay

CurrentIsRegistered(h) ==
    h.projects # Absent => (h.projects.current # Blank => h.projects.current \in DOMAIN h.projects.entries)

\* What any mix of commands leaves under CODENCER_HOME, killed at any point,
\* fits together: the files all commands read are whole, a config that is
\* named exists, the current project is registered, and the planner's
\* generated token can still be read by the operator.
HomeIsCoherent ==
    /\ Torn \notin {home.config, home.projects, home.machine, home.status}
    /\ NamedFilesExist(home)
    /\ CurrentIsRegistered(home)
    /\ TokenIsOnDisk(home)

------------------------------------------------------------------------------
\* Values of different kinds differ.
ASSUME KindsDiffer ==
    /\ Absent # Torn
    /\ \A v \in {Absent, Torn, Blank} : v \notin Nat
    /\ Torn \notin Configs /\ ~isRegistry(Torn) /\ Torn \notin Machines /\ Torn \notin StatusFiles
    /\ Absent \notin Machines /\ ~isConnectorConfig(Absent)

\* A scenario's commands name its repositories and are given a planner token,
\* or run one at a time; it starts with files that commands can have left.
ASSUME ScenesArePossible ==
    /\ \A cmd \in Commands : cmd.repo \in Repos /\ {cmd.share, cmd.given} \subseteq BOOLEAN
    /\ \A sc \in Scenes :
         /\ HomeIsTyped(sc.start)
         /\ NamedFilesExist(sc.start) /\ CurrentIsRegistered(sc.start) /\ TokenIsOnDisk(sc.start)
         /\ \/ \A p, q \in sc.procs : p = q
            \/ \A cmd \in sc.cmds :
                 cmd.given \/ \A i \in DOMAIN program(cmd) : program(cmd)[i] # "pickToken"
====
