---- MODULE CloudInstallations ----
(***************************************************************************)
(* Connector installations of the cloud: the rows and secrets of connected *)
(* providers, the handlers that change them (create, validate, enable,     *)
(* disable, action, webhook) and the worker that polls Jira.  All of them  *)
(* read a row, call the provider, and write the whole row back.            *)
(* Source: src/internal/cloud/router.go, worker.go, store.go and           *)
(* connectors/jira.go.                                                     *)
(*                                                                         *)
(* Time is a clock of ticks, TicksPerMinute of them to the minute: the     *)
(* Jira query names minutes.  Health and error text follow the status and  *)
(* are left out, as are the action log and the audit rows.                 *)
(***************************************************************************)
EXTENDS CloudAccess, ProviderConnectors

CONSTANTS
    Installations,   \* ids of installations
    ProviderOf,      \* Installations -> Providers
    PlaceOf,         \* Installations -> Targets, where each is asked for
    Issues,          \* issues of the Jira site
    HookKinds,       \* kinds of webhook deliveries
    PollLimit,       \* issues per poll
    TicksPerMinute,
    MaxClock         \* bound on the clock

ASSUME ClockAssumption == TicksPerMinute \in Nat \ {0} /\ MaxClock \in Nat /\ PollLimit \in Nat
ASSUME InstallationsAreTyped == /\ ProviderOf \in [Installations -> Providers]
                                /\ PlaceOf \in [Installations -> Targets]
                                /\ \A s \in Scenarios : s.on \subseteq Installations

VARIABLES
    inst,     \* Installations -> [status, enabled, sync] or None
    secrets,  \* Installations -> the names of the stored secrets
    used,     \* ids given out; an id is never given out twice
    events,   \* stored connector events <<id, subject, tick>>, of each
              \* subject the newest: nothing depends on the others
    issue,    \* Issues -> tick of the last update at Jira, -1 before time 0
    clock,
    poll,     \* the worker
    excused   \* history: the updates a poll could not have seen

instVars == <<inst, secrets, used, events, issue, clock, poll, excused>>

Asleep == [pc |-> "asleep"]

\* CreateConnectorInstallation inserts or overwrites the whole row, and takes
\* a disabled row with the default status "active" for an enabled one.
CreateConnectorInstallation(id, row) ==
    inst' = [inst EXCEPT ![id] =
               [row EXCEPT !.enabled = row.enabled \/ row.status = "active"]]

\* CreateConnectorEvent for each of a set of events.
CreateConnectorEvents(new) ==
    LET all == events \cup new
    IN  events' = {e \in all : ~ \E f \in all : f[1] = e[1] /\ f[2] = e[2] /\ f[3] > e[3]}

reply(c) == answer(c) /\ UNCHANGED <<members, tokens, scene>>
unchangedPolling == UNCHANGED <<issue, clock, poll, excused>>

-----------------------------------------------------------------------------
(* Handlers *)

\* POST /installations, first half: the row is inserted enabled.
handleInstallations(c) ==
    /\ authed(c, "install")
    /\ \E id \in scene.on \ used : \E given \in SUBSET Registry[ProviderOf[id]].secrets :
         IF TokenAllowsTarget(call[c].who, PlaceOf[id]) /\ ValidateConfig(given)
         THEN /\ CreateConnectorInstallation(id, [status |-> "created", enabled |-> TRUE, sync |-> None])
              /\ used' = used \cup {id}
              /\ call' = [call EXCEPT ![c] = [pc |-> "secrets", id |-> id, given |-> given]]
         ELSE answer(c) /\ UNCHANGED <<inst, used>>
    /\ UNCHANGED <<members, tokens, scene, secrets, events>> /\ unchangedPolling

\* Second half: the secrets; when one cannot be stored the row is deleted,
\* and what refers to it with it.
DeleteConnectorInstallation(id) ==
    /\ inst' = [inst EXCEPT ![id] = None]
    /\ secrets' = [secrets EXCEPT ![id] = {}]
    /\ events' = {e \in events : e[1] # id}

PutInstallationSecrets(c) ==
    /\ call[c].pc = "secrets"
    /\ \/ /\ secrets' = [secrets EXCEPT ![call[c].id] = call[c].given]
          /\ UNCHANGED <<inst, events>>
       \/ DeleteConnectorInstallation(call[c].id)
    /\ reply(c) /\ UNCHANGED used /\ unchangedPolling

\* The configuration handed to the provider: the stored secrets.
installationConfig(id) == secrets[id]

\* The row as the store reads it.
GetConnectorInstallation(id) == inst[id]

\* resolveInstallationConnector: the row and its secrets, read once.  The
\* checks each handler makes before it calls the provider are made on them.
resolveInstallationConnector(c, op, id) ==
    call' = [call EXCEPT ![c] =
      [pc |-> "provider", op |-> op, id |-> id, row |-> GetConnectorInstallation(id), cfg |-> installationConfig(id)]]

loadInstallation(c) ==
    /\ call[c].pc = "authed"
    /\ call[c].op \in {"validate", "action", "switchOn", "switchOff"}
    /\ \E id \in Installations :
         /\ GetConnectorInstallation(id) # None
         /\ IF /\ TokenAllowsTarget(call[c].who, PlaceOf[id])
               /\ call[c].op = "validate" => ValidateConfig(installationConfig(id))
               /\ call[c].op = "action" => GetConnectorInstallation(id).enabled
            THEN resolveInstallationConnector(c, call[c].op, id)
            ELSE answer(c)
    /\ UNCHANGED <<members, tokens, scene, inst, secrets, used, events>> /\ unchangedPolling

\* The webhook route has no token.
receiveWebhook(c) ==
    /\ call[c] = Idle /\ c \in scene.from /\ "webhook" \in scene.ops
    /\ \E id \in Installations : /\ inst[id] # None /\ inst[id].enabled
                                 /\ resolveInstallationConnector(c, "webhook", id)
    /\ UNCHANGED <<members, tokens, scene, inst, secrets, used, events>> /\ unchangedPolling

calls(c, op) == call[c].pc = "provider" /\ call[c].op = op

outcome(row, ok) == [row EXCEPT !.status = IF ok THEN "active" ELSE "error"]

handleInstallationValidate(c) ==
    /\ calls(c, "validate")
    /\ \E ok \in BOOLEAN : CreateConnectorInstallation(call[c].id, outcome(call[c].row, ok))
    /\ reply(c) /\ UNCHANGED <<secrets, used, events>> /\ unchangedPolling

handleInstallationAction(c) ==
    /\ calls(c, "action")
    /\ \E answers \in BOOLEAN, name \in UNION {Registry[p].actions : p \in Providers} :
         CreateConnectorInstallation(call[c].id,
           outcome(call[c].row, ExecuteAction(ProviderOf[call[c].id], call[c].cfg, name, answers)))
    /\ reply(c) /\ UNCHANGED <<secrets, used, events>> /\ unchangedPolling

handleInstallationEnableDisable(c) ==
    /\ \/ calls(c, "switchOn")
       \/ calls(c, "switchOff")
    /\ LET row == call[c].row
           on  == call[c].op = "switchOn"
       IN  CreateConnectorInstallation(call[c].id,
             [row EXCEPT !.enabled = on,
                         !.status = IF ~on THEN "disabled"
                                    ELSE IF @ = "disabled" THEN "created" ELSE @])
    /\ reply(c) /\ UNCHANGED <<secrets, used, events>> /\ unchangedPolling

\* One delivery: verified, normalized, stored, and the row written back; each
\* of the ways it can fail leaves what the code leaves.
handleInstallationWebhook(c) ==
    /\ calls(c, "webhook")
    /\ LET id == call[c].id
           p  == ProviderOf[id]
       IN  \E kind \in HookKinds, signed, stores \in BOOLEAN :
             LET v == VerifyWebhook(p, call[c].cfg, signed)
             IN  \/ /\ v = "error"
                    /\ CreateConnectorInstallation(id, outcome(call[c].row, FALSE))
                    /\ UNCHANGED events
                 \/ /\ v = "deferred" \/ (v = "verified" /\ ~NormalizeEvent(p, kind))
                    /\ UNCHANGED <<inst, events>>
                 \/ /\ v = "verified" /\ NormalizeEvent(p, kind)
                    /\ stores => inst[id] # None    \* events refer to their installation
                    /\ CreateConnectorEvents(IF stores THEN {<<id, kind, clock>>} ELSE {})
                    /\ CreateConnectorInstallation(id, outcome(call[c].row, stores))
    /\ reply(c) /\ UNCHANGED <<secrets, used>> /\ unchangedPolling

-----------------------------------------------------------------------------
(* The worker: Jira issues by polling *)

floorToMinute(t) == t - (t % TicksPerMinute)

\* Mutant: the query asks from the exact time of the last poll on.
sinceOfMutant(row) == IF row.sync = None THEN -1 ELSE row.sync

\* The lower bound the next poll puts in its query, -1 for none.
sinceOf(row) == IF row.sync = None THEN -1 ELSE floorToMinute(row.sync)

ListConnectorInstallations == {<<id, inst[id]>> : id \in {i \in Installations : inst[i] # None}}

\* RunOnce lists the enabled rows once and works through that list.
RunOnce ==
    /\ poll = Asleep /\ "poll" \in scene.ops
    /\ poll' = [pc |-> "next", todo |-> {e \in ListConnectorInstallations : e[2].enabled}]
    /\ UNCHANGED <<accessVars, inst, secrets, used, events, issue, clock, excused>>

finished(id) == [poll EXCEPT !.todo = {e \in @ : e[1] # id}]
polled(id) == poll' = [pc |-> "next", todo |-> {e \in poll.todo : e[1] # id}]

\* A provider without polling is done at once.
syncInstallation ==
    /\ poll.pc = "next"
    /\ \/ /\ poll.todo = {} /\ poll' = Asleep
       \/ \E e \in poll.todo : ProviderOf[e[1]] # "jira" /\ poll' = finished(e[1])
    /\ UNCHANGED <<accessVars, inst, secrets, used, events, issue, clock, excused>>

\* The error state is written to the listed copy: its LastSyncAt stays.
failInstallation(e) ==
    /\ CreateConnectorInstallation(e[1], outcome(e[2], FALSE))
    /\ polled(e[1])

\* No token, or the search fails.
syncFails ==
    /\ poll.pc = "next"
    /\ \E e \in poll.todo : ProviderOf[e[1]] = "jira" /\ failInstallation(e)
    /\ UNCHANGED <<accessVars, secrets, used, events, issue, clock, excused>>

\* Oldest first, no more than the limit.
pagesOf(found) ==
    {page \in SUBSET found :
       /\ Cardinality(page) = IF Cardinality(found) < PollLimit THEN Cardinality(found) ELSE PollLimit
       /\ \A k \in page, j \in found \ page : issue[k] <= issue[j]}

\* The search is evaluated at Jira at some moment of the poll.
PollIssueSnapshots ==
    /\ poll.pc = "next"
    /\ \E e \in poll.todo :
         /\ ProviderOf[e[1]] = "jira" /\ "token" \in secrets[e[1]]
         /\ LET found == {k \in Issues : issue[k] >= sinceOf(e[2])}
            IN  \E page \in pagesOf(found) :
                  poll' = [pc |-> "answered", todo |-> poll.todo, e |-> e, asked |-> clock,
                           cut |-> {<<k, issue[k]>> : k \in found \ page},
                           got |-> {<<e[1], k, issue[k]>> : k \in page}]
    /\ UNCHANGED <<accessVars, inst, secrets, used, events, issue, clock, excused>>

\* The events are stored one by one; then the row, with LastSyncAt the time
\* at which the answer was in.  A failure stores some and keeps LastSyncAt.
syncedRow(row) == [row EXCEPT !.status = "active", !.enabled = TRUE, !.sync = clock]

syncJiraInstallation ==
    /\ poll.pc = "answered"
    /\ LET id == poll.e[1]
       IN  \/ /\ poll.got # {} => inst[id] # None
              /\ CreateConnectorEvents(poll.got)
              /\ CreateConnectorInstallation(id, syncedRow(poll.e[2]))
              /\ excused' = excused \cup
                   {u \in poll.cut \cup {<<k, issue[k]>> : k \in {j \in Issues : issue[j] >= poll.asked}} :
                      u[2] < floorToMinute(clock)}
              /\ polled(id)
           \/ /\ \E some \in SUBSET poll.got :
                   /\ some # poll.got /\ (some # {} => inst[id] # None)
                   /\ CreateConnectorEvents(some)
              /\ failInstallation(poll.e)
              /\ UNCHANGED excused
    /\ UNCHANGED <<accessVars, secrets, used, issue, clock>>

\* codencer-cloudworkerd is stopped or dies, perhaps with some of the events
\* stored, and starts again; a row that cannot be written ends a poll the same.
workerRestarts ==
    /\ poll # Asleep /\ poll' = Asleep
    /\ \/ UNCHANGED events
       \/ /\ poll.pc = "answered" /\ inst[poll.e[1]] # None
          /\ \E some \in SUBSET poll.got : CreateConnectorEvents(some)
    /\ UNCHANGED <<accessVars, inst, secrets, used, issue, clock, excused>>

\* Jira (external): an issue is updated; no two updates of an issue in a tick.
updateIssue(k) ==
    /\ "poll" \in scene.ops
    /\ issue[k] < clock /\ issue' = [issue EXCEPT ![k] = clock]
    /\ excused' = {u \in excused : u[1] # k}
    /\ UNCHANGED <<accessVars, inst, secrets, used, events, clock, poll>>

tick ==
    /\ "poll" \in scene.ops
    /\ clock < MaxClock /\ clock' = clock + 1
    /\ UNCHANGED <<accessVars, inst, secrets, used, events, issue, poll, excused>>

-----------------------------------------------------------------------------

instInit ==
    /\ inst = [id \in Installations |-> None]
    /\ secrets = [id \in Installations |-> {}]
    /\ used = {} /\ events = {} /\ clock = 0 /\ poll = Asleep /\ excused = {}
    /\ issue = [k \in Issues |-> -1]

handlerStep(c) ==
    \/ handleInstallations(c) \/ PutInstallationSecrets(c)
    \/ loadInstallation(c) \/ receiveWebhook(c)
    \/ handleInstallationValidate(c) \/ handleInstallationAction(c)
    \/ handleInstallationEnableDisable(c) \/ handleInstallationWebhook(c)

workerStep ==
    \/ RunOnce \/ syncInstallation \/ syncFails \/ PollIssueSnapshots
    \/ syncJiraInstallation \/ workerRestarts
    \/ tick \/ \E k \in Issues : updateIssue(k)

-----------------------------------------------------------------------------

\* No update of an issue is passed over: one that the next poll's query no
\* longer asks for has been stored, however polls fail, the worker restarts
\* and other handlers write their older copies of the row.  Two exceptions,
\* which the code makes: an update between the search and the end of a poll
\* that runs into the next minute, and one past the poll's page.
UpdatesAreSeen ==
    \A id \in Installations, k \in Issues :
      LET row == inst[id]
      IN  (row # None /\ issue[k] < sinceOf(row))
            => <<id, k, issue[k]>> \in events \/ <<k, issue[k]>> \in excused

====
