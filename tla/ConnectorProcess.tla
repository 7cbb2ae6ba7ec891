---- MODULE ConnectorProcess ----
(***************************************************************************)
(* The running connector over the files of HomeFiles: it reads its config  *)
(* once when it starts and again with every heartbeat, reads the project   *)
(* registry for the shared projects, tells the relay what it shares, and   *)
(* keeps the status file that other commands write too.                    *)
(*                                                                         *)
(* The relay's side is in RelayHub; here it is the last advertisement.     *)
(***************************************************************************)
EXTENDS HomeFiles

VARIABLES
    conn,           \* the connector process
    advertised      \* what the relay was told in this session

connVars == <<conn, advertised>>

Nothing == [instances |-> {}, projects |-> {}]

Off == [todo |-> <<>>, on |-> FALSE, cfg |-> Absent, reg |-> Absent, ads |-> Nothing, last |-> Nothing]

busy(op) == conn.todo # <<>> /\ Head(conn.todo) = op

proceed(c) == conn' = [c EXCEPT !.todo = Tail(conn.todo)]

files(h) == home' = h /\ UNCHANGED <<scene, repoCfg, repos, proc, started>>

\* Registry.SharedProjects and the advertisement that follows from it.
Advertisements == <<"registry", "machine", "backfill", "advertise">>

runOnce == <<"connecting", "connect">> \o Advertisements \o <<"send", "connected">>
heartbeat == <<"reload">> \o Advertisements \o <<"send", "connected">>

\* codencer-connectord run.
NewClient ==
    /\ ~conn.on /\ scene.connector /\ home.connector \notin {Absent, Torn}
    /\ conn' = [Off EXCEPT !.on = TRUE, !.cfg = home.connector, !.todo = runOnce]
    /\ UNCHANGED <<homeVars, advertised>>

\* A status change overwrites every field it has; the file is replaced.
update(op, state) ==
    /\ busy(op)
    /\ files([home EXCEPT !.status = [state |-> state,
            shares |-> IF state = "connected" THEN conn.ads.instances ELSE shared(conn.cfg)]])
    /\ UNCHANGED <<minted, advertised>>

MarkConnecting == update("connecting", "connecting") /\ proceed(conn)
MarkConnectedWithProjects == update("connected", "connected") /\ proceed(conn)
MarkFailure == update("failed", "error") /\ proceed(conn)
MarkDisconnected == update("stopped", "disconnected") /\ conn' = Off

\* Challenge, dial and hello; a failure is retried.
fetchChallenge ==
    /\ busy("connect")
    /\ proceed(conn) \/ conn' = [conn EXCEPT !.todo = <<"failed">> \o runOnce]
    /\ UNCHANGED <<homeVars, advertised>>

\* A config that cannot be read leaves the old one in force.
reloadConfig ==
    /\ busy("reload")
    /\ IF home.connector \in {Absent, Torn}
       THEN conn' = [conn EXCEPT !.todo = <<"failed">> \o Tail(@)]
       ELSE proceed([conn EXCEPT !.cfg = home.connector])
    /\ UNCHANGED <<homeVars, advertised>>

SharedProjects ==
    /\ busy("registry")
    /\ proceed([conn EXCEPT !.reg = IF home.projects = Absent THEN EmptyRegistry ELSE home.projects])
    /\ UNCHANGED <<homeVars, advertised>>

\* EnsureMachine on its way: an identity that is missing is created.
ensureMachine ==
    /\ busy("machine")
    /\ proceed(conn)
    /\ IF home.machine # Absent THEN UNCHANGED homeVars
       ELSE /\ minted < MaxMinted /\ minted' = minted + 1
            /\ files([home EXCEPT !.machine = [id |-> minted, label |-> "host"]])
    /\ UNCHANGED advertised

\* Blank machine ids are filled in and the registry saved as it was read.  A
\* registry that cannot be saved advertises no project.
backfillRegistry ==
    LET reg == backfilled(conn.reg, home.machine) IN
    /\ busy("backfill")
    /\ UNCHANGED advertised
    /\ IF reg = conn.reg \/ ~ValidateRegistry(reg)
       THEN /\ proceed([conn EXCEPT !.reg = IF reg = conn.reg THEN reg ELSE EmptyRegistry])
            /\ UNCHANGED homeVars
       ELSE /\ files([home EXCEPT !.projects = reg])
            /\ proceed([conn EXCEPT !.reg = reg])
            /\ UNCHANGED minted

sharedProjects(reg) == {i \in DOMAIN reg.entries : reg.entries[i].shared}

\* Only daemons that answer, or left a manifest, are advertised.
resolveInstances ==
    /\ busy("advertise")
    /\ \E i \in SUBSET shared(conn.cfg), j \in SUBSET sharedProjects(conn.reg) :
         proceed([conn EXCEPT !.ads = [instances |-> i, projects |-> j], !.reg = Absent])
    /\ UNCHANGED <<homeVars, advertised>>

\* Mutant: only the projects are compared.
advertisedSetSignatureMutant(ads) == ads.projects

\* The whole set is compared with the one last sent.
advertisedSetSignature(ads) == ads

\* The first advertisement of a session is always sent, later ones when they
\* differ.
writeAdvertise ==
    /\ busy("send")
    /\ IF conn.last = Nothing \/ advertisedSetSignature(conn.ads) # advertisedSetSignature(conn.last)
       THEN advertised' = conn.ads /\ proceed([conn EXCEPT !.last = conn.ads])
       ELSE UNCHANGED advertised /\ proceed(conn)
    /\ UNCHANGED homeVars

\* The next heartbeat.
heartbeatLoop ==
    /\ conn.on /\ conn.todo = <<>>
    /\ conn' = [conn EXCEPT !.todo = heartbeat]
    /\ UNCHANGED <<homeVars, advertised>>

connected == conn.on /\ \A i \in DOMAIN conn.todo : conn.todo[i] \notin {"connect", "stopped"}

\* The session is lost and a new one tried.  The heartbeat loop is a goroutine
\* of its own: the status write it has begun can come after the failure's.
sessionLost ==
    /\ connected
    /\ \E late \in {<<>>} \cup (IF busy("connected") THEN {<<"connected">>} ELSE {}) :
         conn' = [conn EXCEPT !.todo = <<"failed">> \o late \o runOnce, !.last = Nothing, !.reg = Absent]
    /\ advertised' = Nothing
    /\ UNCHANGED homeVars

\* SIGTERM, or killed without a word.
connectorStops ==
    /\ conn.on /\ ~busy("stopped")
    /\ conn' = Off \/ conn' = [conn EXCEPT !.todo = <<"stopped">>]
    /\ advertised' = Nothing
    /\ UNCHANGED homeVars

connectorStep ==
    \/ NewClient \/ MarkConnecting \/ MarkConnectedWithProjects \/ MarkFailure \/ MarkDisconnected
    \/ fetchChallenge \/ reloadConfig \/ SharedProjects \/ ensureMachine \/ backfillRegistry
    \/ resolveInstances \/ writeAdvertise \/ heartbeatLoop \/ sessionLost \/ connectorStops

connectorInit == conn = Off /\ advertised = Nothing

------------------------------------------------------------------------------
\* Between two heartbeats the relay has been told of no instance outside the
\* config the connector works with, however commands have rewritten the file
\* and sessions have come and gone since: what planners see is what the
\* connector is willing to serve.
AdvertisedIsShared ==
    conn.on /\ conn.todo = <<>> => advertised.instances \subseteq shared(conn.cfg)
====
