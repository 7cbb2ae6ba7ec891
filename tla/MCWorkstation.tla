---- MODULE MCWorkstation ----
EXTENDS Workstation, TLC

cmd(name) == [name |-> name, repo |-> "r1", id |-> "r1", share |-> FALSE, update |-> FALSE,
              given |-> FALSE, generate |-> FALSE, profile |-> "official", service |-> "all"]

EmptyHome == [f \in Files |-> Absent]

\* A home from before machines were recorded, with one shared project.
LegacyHome == [EmptyHome EXCEPT !.config = DefaultConfig,
    !.projects = [current |-> "r1", entries |-> [i \in {"r1"} |-> [repo |-> "r1", shared |-> TRUE, machine |-> Blank]]]]

\* A home with everything set up.
ReadyHome == [EmptyHome EXCEPT !.config = [DefaultConfig EXCEPT !.relay = TRUE, !.connector = TRUE],
    !.machine = [id |-> 0, label |-> "host"],
    !.projects = [current |-> "r1", entries |-> [i \in {"r1", "r2"} |-> [repo |-> i, shared |-> FALSE, machine |-> 0]]],
    !.relay = GivenToken, !.connector = [enrolled |-> TRUE, shares |-> [i \in {"r1"} |-> TRUE]]]

Quiet == [cmds |-> {}, procs |-> {}, start |-> EmptyHome, files |-> {}, lost |-> {},
          manager |-> "manual", exits |-> FALSE, connector |-> FALSE, agents |-> "off"]

\* init, adopt, executor default and setup local, with edits of the registry.
Projects == [Quiet EXCEPT !.procs = Procs, !.files = {"r2"}, !.cmds =
    {cmd("init"), [cmd("init") EXCEPT !.id = "new", !.update = TRUE, !.share = TRUE],
     [cmd("adopt") EXCEPT !.repo = "r2", !.id = "r2"], [cmd("executor") EXCEPT !.update = TRUE],
     cmd("share"), cmd("label")}]

Registry == [Quiet EXCEPT !.procs = Procs, !.start = LegacyHome, !.lost = {"r1"}, !.cmds =
    {cmd("list"), cmd("use"), cmd("unshare"), cmd("remove"), cmd("setupLocal")}]

Setup == [Quiet EXCEPT !.procs = Procs, !.cmds =
    {[cmd("setupRelay") EXCEPT !.given = TRUE], cmd("relayAdd"), cmd("enroll"), cmd("profile")}]

\* A generated token: one setup at a time.
TokenSetup == [Quiet EXCEPT !.procs = {"p1"}, !.cmds =
    {[cmd("setupRelay") EXCEPT !.generate = TRUE], [cmd("setupRelay") EXCEPT !.given = TRUE], cmd("setupRelay"),
     cmd("setupGateway"), cmd("setupSelfHost"), cmd("enroll")}]

OneByOne(manager) == [Quiet EXCEPT !.procs = {"p1"}, !.start = ReadyHome, !.manager = manager, !.cmds =
    {cmd(n) : n \in {"install", "uninstall", "start", "stop", "restart"}}
    \cup {[cmd("use") EXCEPT !.id = "r2"], cmd("remove"), [cmd("stop") EXCEPT !.service = "daemon"]}]

Together(manager) == [Quiet EXCEPT !.procs = Procs, !.start = ReadyHome, !.manager = manager, !.exits = TRUE, !.cmds =
    {cmd(n) : n \in {"install", "stop", "recover", "watchdog"}}]

\* The connector runs while its config and the registry are edited.
Sharing == [Quiet EXCEPT !.procs = {"p1"}, !.start = ReadyHome, !.connector = TRUE, !.cmds =
    {[cmd("shareInstance") EXCEPT !.repo = "r2"], cmd("unshareInstance"), [cmd("enroll") EXCEPT !.share = TRUE]}]

Backfill == [Quiet EXCEPT !.procs = {"p1"}, !.connector = TRUE, !.lost = {"r1"}, !.cmds = {cmd("unshare"), cmd("list")},
    !.start = [LegacyHome EXCEPT !.connector = [enrolled |-> TRUE, shares |-> [i \in {"r1"} |-> TRUE]]]]

\* Servers differ in nothing but their name.
MCSymmetry == Permutations(Agents)

MCScenarios ==
    {Projects, Registry, Setup, TokenSetup, Sharing, Backfill}
    \cup {OneByOne(m) : m \in {"launchd", "systemd", "manual"}} \cup {Together(m) : m \in {"launchd", "systemd"}}
    \cup {[Quiet EXCEPT !.agents = m] : m \in {"direct", "broker"}}
====
