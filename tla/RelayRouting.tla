---------------------------- MODULE RelayRouting ----------------------------
(***************************************************************************)
(* How the relay finds the instance, or the connector, a planner's request *)
(* is for (internal/relay/router.go, mcp_tools.go, store/store.go).        *)
(*                                                                         *)
(* Steps, gates and artifacts are asked for by id alone. resource_routes   *)
(* remembers where one was seen; it is a hint that the relay checks, drops *)
(* and finds again by probing the instances the planner may use. Projects  *)
(* are looked up among the locations connectors advertise.                 *)
(*                                                                         *)
(* Each action is one store statement or one message to an instance with   *)
(* the computation around it. What the hub knows (RelayHub) is `online'.   *)
(***************************************************************************)
EXTENDS Naturals, FiniteSets, ScopePatterns

CONSTANTS
  Connectors, Instances, Projects, Resources, Principals, Requests,
  None,
  Shareable,   \* Shareable[c]: the instances on the machine of connector c
  Kind,        \* Kind[x]: "step", "gate" or "artifact"
  Grants,      \* Grants[who]: scope patterns, and the instances and projects
               \* the token is restricted to (none: all of them)
  Offered,     \* names of the operations planners use in the instance
  MaxChanges   \* bound on what connectors and operators change

ASSUME RelayRoutingConstants ==
  /\ Shareable \in [Connectors -> SUBSET Instances]
  /\ Kind \in [Resources -> {"step", "gate", "artifact"}]
  /\ \A who \in Principals :
       /\ Grants[who].instances \in SUBSET Instances
       /\ Grants[who].projects \in SUBSET Projects
  /\ None \notin UNION {Connectors, Instances, Projects, Resources, Principals}
  /\ Projects \cap Resources = {}
  /\ MaxChanges \in Nat

VARIABLES
  rows,       \* table instances: the connector of an instance
  projects,   \* table projects: (connector, project) -> instance
  disabled,   \* connectors.disabled
  online,     \* the instances and connectors the hub has a session for
  routes,     \* table resource_routes
  home,       \* the instances that hold a resource
  request,    \* the handlers under way
  sent,       \* the message the last step has sent, if any
  changes

storeVars == <<rows, projects, disabled, routes>>
vars == <<storeVars, online, home, request, sent, changes>>

-----------------------------------------------------------------------------
(* The routes of the planner API: what the path names, the scope the route  *)
(* asks for, the call made of it to the daemon or the connector, whether it *)
(* changes anything, and the kind of the ids in the answer that the relay   *)
(* remembers. "id" stands for any identifier in a path.                     *)

route(name, target, scope, call, captures) ==
  [name |-> name, target |-> target, scope |-> scope, call |-> call,
   captures |-> captures]

writes(o) == o.call[1] # "GET" /\ o.name # "wait_step"

GET(path)   == <<"GET", path>>
POST(path)  == <<"POST", path>>
PATCH(path) == <<"PATCH", path>>

handleInstanceScoped ==
  { route("list_runs",      "instance", <<"runs", "read">>,   GET(<<"runs">>), None),
    route("start_run",      "instance", <<"runs", "write">>,  POST(<<"runs">>), "run"),
    route("get_run",        "instance", <<"runs", "read">>,   GET(<<"runs", "id">>), None),
    route("submit_task",    "instance", <<"steps", "write">>, POST(<<"runs", "id", "steps">>), "step"),
    route("list_run_gates", "instance", <<"gates", "read">>,  GET(<<"runs", "id", "gates">>), "gate"),
    route("abort_run",      "instance", <<"runs", "write">>,  PATCH(<<"runs", "id">>), None) }

handleStepScoped ==
  { route("get_step",             "step", <<"steps", "read">>,     GET(<<"steps", "id">>), None),
    route("get_step_result",      "step", <<"steps", "read">>,     GET(<<"steps", "id", "result">>), None),
    route("list_step_artifacts",  "step", <<"artifacts", "read">>, GET(<<"steps", "id", "artifacts">>), "artifact"),
    route("get_step_logs",        "step", <<"steps", "read">>,     GET(<<"steps", "id", "logs">>), None),
    route("get_step_validations", "step", <<"steps", "read">>,     GET(<<"steps", "id", "validations">>), None),
    route("wait_step",            "step", <<"steps", "read">>,     POST(<<"steps", "id", "wait">>), None),
    route("retry_step",           "step", <<"steps", "write">>,    POST(<<"steps", "id", "retry">>), None) }

handleArtifactScoped ==
  { route("get_artifact_content", "artifact", <<"artifacts", "read">>,
          GET(<<"artifacts", "id", "content">>), None) }

handleGateScoped ==
  {route(name, "gate", <<"gates", "write">>, POST(<<"gates", "id">>), None) :
     name \in {"gate_approve", "gate_reject"}}

Evidence == {"result", "artifacts", "logs", "validations"}

\* scopeForProjectEvidence
scopeForProjectEvidence(resource) ==
  IF resource = "artifacts" THEN <<"artifacts", "read">> ELSE <<"steps", "read">>

\* scopeForProjectRoute, by the part of the path that follows the project.
scopeForProjectRoute(part, post) ==
  CASE part = "runs"     -> IF post THEN <<"runs", "write">> ELSE <<"runs", "read">>
    [] part = "submit"   -> <<"steps", "write">>
    [] part = "run-plan" -> <<"runs", "write">>
    [] part = "reports"  -> <<"reports", "read">>
    [] OTHER             -> scopeForProjectEvidence(part)

projectRoute(name, call) ==
  route(name, "project", scopeForProjectRoute(call[2][1], call[1] = "POST"), call, None)

handleResolvedProjectScoped ==
  { projectRoute("list_project_runs",    GET(<<"runs">>)),
    projectRoute("start_project_run",    POST(<<"runs">>)),
    projectRoute("get_project_run",      GET(<<"runs", "id">>)),
    projectRoute("cancel_project_run",   POST(<<"runs", "id", "cancel">>)),
    projectRoute("resume_project_run",   POST(<<"runs", "id", "resume">>)),
    projectRoute("submit_project_task",  POST(<<"submit">>)),
    projectRoute("run_project_manifest", POST(<<"run-plan">>)),
    projectRoute("get_execution_report", GET(<<"reports", "run-plans", "id">>)) }
  \cup {route("get_project_step_evidence", "project", scopeForProjectEvidence(x),
              GET(<<"steps", "id", x>>), None) : x \in Evidence}

Routes == UNION {handleInstanceScoped, handleStepScoped, handleArtifactScoped,
                 handleGateScoped, handleResolvedProjectScoped}

-----------------------------------------------------------------------------
(* The tools of the MCP endpoint: the scope a tool asks for and the call of  *)
(* the route it goes through.                                               *)

tool(scope, call) == [scope |-> scope, call |-> call]

\* requiresExplicitInstance: the tools that write name the instance, and
\* those for a step or a gate check that it holds it (requireRoutedInstance).
requiresExplicitInstance(scope) ==
  scope \in {<<"runs", "write">>, <<"steps", "write">>, <<"gates", "write">>}

buildMCPTools ==
  { tool(<<"runs", "write">>,     POST(<<"runs">>)),
    tool(<<"runs", "read">>,      GET(<<"runs", "id">>)),
    tool(<<"gates", "read">>,     GET(<<"runs", "id", "gates">>)),
    tool(<<"steps", "write">>,    POST(<<"runs", "id", "steps">>)),
    tool(<<"runs", "write">>,     PATCH(<<"runs", "id">>)),
    tool(<<"steps", "read">>,     GET(<<"steps", "id">>)),
    tool(<<"steps", "read">>,     POST(<<"steps", "id", "wait">>)),
    tool(<<"steps", "read">>,     GET(<<"steps", "id", "result">>)),
    tool(<<"artifacts", "read">>, GET(<<"steps", "id", "artifacts">>)),
    tool(<<"steps", "read">>,     GET(<<"steps", "id", "logs">>)),
    tool(<<"steps", "read">>,     GET(<<"steps", "id", "validations">>)),
    tool(<<"steps", "write">>,    POST(<<"steps", "id", "retry">>)),
    tool(<<"artifacts", "read">>, GET(<<"artifacts", "id", "content">>)),
    tool(<<"gates", "write">>,    POST(<<"gates", "id">>)) }

\* addProjectMCPTools: the tools of projects, aliases counted once.
addProjectMCPTools ==
  { tool(<<"runs", "write">>,   POST(<<"runs">>)),
    tool(<<"runs", "read">>,    GET(<<"runs">>)),
    tool(<<"runs", "read">>,    GET(<<"runs", "id">>)),
    tool(<<"runs", "write">>,   POST(<<"runs", "id", "cancel">>)),
    tool(<<"runs", "write">>,   POST(<<"runs", "id", "resume">>)),
    tool(<<"steps", "write">>,  POST(<<"submit">>)),
    tool(<<"runs", "write">>,   POST(<<"run-plan">>)),
    tool(<<"reports", "read">>, GET(<<"reports", "run-plans", "id">>)) }
  \cup {tool(scopeForProjectEvidence(x), GET(<<"steps", "id", x>>)) : x \in Evidence}

\* The tools that go through a route.
toolsFor(o) ==
  {t \in IF o.target = "project" THEN addProjectMCPTools ELSE buildMCPTools :
     t.call = o.call}

explicit(o) ==
  o.target = "instance" \/ (o.target \in {"step", "gate"} /\ requiresExplicitInstance(o.scope))

-----------------------------------------------------------------------------
(* What a connector lets through *)

isStepPath == {<<"steps", "id">>} \cup {<<"steps", "id", x>> : x \in Evidence}

\* AllowedLocalProxy: the calls to a daemon that a connector makes.
AllowedLocalProxy ==
  {GET(<<"instance">>), GET(<<"runs">>), POST(<<"runs">>),
   GET(<<"runs", "id">>), PATCH(<<"runs", "id">>),
   POST(<<"runs", "id", "steps">>), GET(<<"runs", "id", "gates">>),
   POST(<<"steps", "id", "retry">>), POST(<<"steps", "id", "wait">>),
   GET(<<"artifacts", "id">>), GET(<<"artifacts", "id", "content">>),
   GET(<<"gates", "id">>), POST(<<"gates", "id">>)}
  \cup {GET(path) : path \in isStepPath}

\* proxyProjectEvidence: reads of a step, made as calls to the daemon.
proxyProjectEvidence ==
  {call \in AllowedLocalProxy : \E x \in Evidence : call = GET(<<"steps", "id", x>>)}

\* handleProjectRequest: the calls for a shared project.
handleProjectRequest ==
  {GET(<<"runs">>), POST(<<"runs">>), GET(<<"runs", "id">>),
   POST(<<"runs", "id", "cancel">>), POST(<<"runs", "id", "resume">>),
   POST(<<"submit">>), POST(<<"run-plan">>), GET(<<"reports", "run-plans", "id">>)}
  \cup proxyProjectEvidence

-----------------------------------------------------------------------------
(* Authorisation and status *)

restricted(allowed, x) == allowed # {} /\ x \notin allowed

\* authorizePrincipal
authorizePrincipal(who, scope, i) ==
  /\ scopeAllowed(Grants[who].scopes, scope)
  /\ i # None => ~restricted(Grants[who].instances, i)

\* authorizeProject, for the location of p at connector c.
authorizeProject(who, scope, c, p) ==
  /\ authorizePrincipal(who, scope, projects[c][p])
  /\ ~restricted(Grants[who].projects, p)

connectorStatus(c) ==
  IF c \in disabled THEN "disabled" ELSE IF c \in online THEN "online" ELSE "offline"

instanceStatus(i) ==
  CASE rows[i] = None         -> "not_found"
    [] rows[i] \in disabled   -> "disabled"
    [] OTHER                  -> IF i \in online THEN "online" ELSE "offline"

\* projectStatus: a project is where its connector is.
projectStatus(c) == connectorStatus(c)

\* canRouteToInstance, and the checks of proxyRequest.
canRouteToInstance(i) == instanceStatus(i) = "online"

locations(p) == {c \in Connectors : projects[c][p] # None}

\* Mutant: every location of the project is counted as available.
projectPayloadOfAll(who, p) ==
  [listed |-> locations(p),
   available |-> {c \in locations(p) : projectStatus(c) = "online"}]

\* projectPayloadByID: whether the planner is told the project is available.
projectPayloadByID(who, p) ==
  LET seen == {c \in locations(p) : authorizeProject(who, <<"projects", "read">>, c, p)} IN
  [listed |-> seen, available |-> {c \in seen : projectStatus(c) = "online"}]

-----------------------------------------------------------------------------
(* Requests *)

NoRequest == [pc |-> "idle", who |-> None, op |-> None, resource |-> None,
              expected |-> None, left |-> {}, found |-> {}, target |-> None]

answered(r) == request' = [request EXCEPT ![r] = NoRequest]

goes(r, pc) == request' = [request EXCEPT ![r].pc = pc]

message(r, i, probe) ==
  [who |-> request[r].who, op |-> request[r].op, resource |-> request[r].resource,
   to |-> i, probe |-> probe]

\* The handler of a route, up to the first thing it asks the store. A tool of
\* the MCP endpoint has passed handleToolCall and names an instance where it
\* has to.
begin(r) ==
  \E who \in Principals, o \in {o \in Routes : o.name \in Offered} :
  \E via \in toolsFor(o) \cup {None} :
    LET new == [NoRequest EXCEPT !.who = who, !.op = o]
        mayCall(i) == via # None => authorizePrincipal(who, via.scope, i) IN
    /\ request[r].pc = "idle"
    /\ \/ /\ o.target = "instance"
          /\ \E i \in Instances :
               /\ mayCall(i)
               /\ authorizePrincipal(who, NoScope, i)
               /\ request' = [request EXCEPT ![r] =
                    [new EXCEPT !.pc = "send", !.target = i]]
       \/ /\ o.target = "project"
          /\ mayCall(None)
          /\ \E p \in Projects : request' = [request EXCEPT ![r] =
               [new EXCEPT !.pc = "locate", !.resource = p]]
       \/ /\ o.target \in {"step", "gate", "artifact"}
          /\ \E x \in {x \in Resources : Kind[x] = o.target},
                i \in IF via # None /\ explicit(o) THEN Instances ELSE {None} :
               /\ mayCall(i)
               /\ request' = [request EXCEPT ![r] =
                    [new EXCEPT !.pc = "hint", !.resource = x, !.expected = i]]
    /\ sent' = None
    /\ UNCHANGED <<storeVars, online, home, changes>>

\* The principal requireRoutedInstance resolves as has every scope and is
\* not restricted.
mayUse(r, i) ==
  \/ request[r].expected # None
  \/ authorizePrincipal(request[r].who, request[r].op.scope, i)

\* What follows a resolution: for requireRoutedInstance, the request proper.
resolved(r, i) ==
  request' = [request EXCEPT ![r] =
    IF request[r].expected # None
    THEN [@ EXCEPT !.pc = "hint", !.expected = None, !.left = {}, !.found = {}]
    ELSE [@ EXCEPT !.pc = "send", !.target = i, !.left = {}, !.found = {}]]

\* resolveResourceRoute, the remembered route: used, dropped when its
\* instance is gone, or ignored.
LookupResourceRoute(r) ==
  LET h == routes[request[r].resource]
      usable == /\ h # None
                /\ request[r].expected \in {None, h}
                /\ mayUse(r, h) IN
  /\ request[r].pc = "hint"
  /\ \/ /\ usable /\ canRouteToInstance(h)
        /\ resolved(r, h)
     \/ /\ usable /\ rows[h] = None
        /\ goes(r, "drop")
     \/ /\ ~(usable /\ (canRouteToInstance(h) \/ rows[h] = None))
        /\ goes(r, "candidates")
  /\ sent' = None
  /\ UNCHANGED <<storeVars, online, home, changes>>

DeleteResourceRoute(r) ==
  /\ request[r].pc = "drop"
  /\ routes' = [routes EXCEPT ![request[r].resource] = None]
  /\ goes(r, "candidates")
  /\ sent' = None
  /\ UNCHANGED <<rows, projects, disabled, online, home, changes>>

\* Mutant: every instance that is online is probed.
probeEveryone(r) ==
  LET candidates == {i \in Instances : canRouteToInstance(i)} IN
  /\ request[r].pc = "candidates"
  /\ request' = [request EXCEPT ![r] =
       IF candidates = {} THEN NoRequest
       ELSE [@ EXCEPT !.pc = "probe", !.left = candidates]]
  /\ sent' = None
  /\ UNCHANGED <<storeVars, online, home, changes>>

\* resourceProbeCandidates: the instances that are online and allowed.
resourceProbeCandidates(r) ==
  LET all == IF request[r].expected # None THEN {request[r].expected} ELSE Instances
      candidates == {i \in all : mayUse(r, i) /\ canRouteToInstance(i)} IN
  /\ request[r].pc = "candidates"
  /\ request' = [request EXCEPT ![r] =
       IF candidates = {} THEN NoRequest
       ELSE [@ EXCEPT !.pc = "probe", !.left = candidates]]
  /\ sent' = None
  /\ UNCHANGED <<storeVars, online, home, changes>>

\* Mutant: an instance that does not answer counts as a match.
probeWithoutAnswer(r) ==
  \E i \in request[r].left :
    /\ request[r].pc = "probe"
    /\ sent' = IF canRouteToInstance(i) THEN message(r, i, TRUE) ELSE None
    /\ request' = [request EXCEPT ![r].left = @ \ {i}, ![r].found = @ \cup {i}]
    /\ UNCHANGED <<storeVars, online, home, changes>>

\* probeResourceRoute asks one candidate, if it can still be reached; it may
\* fail to answer.
probeResourceRoute(r) ==
  \E i \in request[r].left, answers \in BOOLEAN :
    LET asked == canRouteToInstance(i)
        holds == asked /\ answers /\ i \in home[request[r].resource] IN
    /\ request[r].pc = "probe"
    /\ sent' = IF asked THEN message(r, i, TRUE) ELSE None
    /\ request' = [request EXCEPT ![r].left = @ \ {i},
                                  ![r].found = IF holds THEN @ \cup {i} ELSE @]
    /\ UNCHANGED <<storeVars, online, home, changes>>

\* One match is remembered and used; none, or several, is an error.
SaveResourceRoute(r) ==
  /\ request[r].pc = "probe"
  /\ request[r].left = {}
  /\ IF Cardinality(request[r].found) = 1
     THEN LET i == CHOOSE i \in request[r].found : TRUE IN
          /\ routes' = [routes EXCEPT ![request[r].resource] = i]
          /\ resolved(r, i)
     ELSE answered(r) /\ UNCHANGED routes
  /\ sent' = None
  /\ UNCHANGED <<rows, projects, disabled, online, home, changes>>

\* The ids an instance can answer with: those it lists, or the one of the
\* step it is given, which the planner chooses or which is the second of the
\* clock, so that another instance may have it already.
answer(o, i) ==
  LET ofKind == {x \in Resources : Kind[x] = o.captures} IN
  IF writes(o) THEN {{x} : x \in {x \in ofKind : i \notin home[x]}}
                   \cup (IF ofKind = {} THEN {{}} ELSE {})
  ELSE SUBSET {x \in ofKind : i \in home[x]}

\* proxyAndWrite: authorise for the instance that was found, send, and take
\* note of the ids in the answer.
proxyAndWrite(r) ==
  LET i == request[r].target
      o == request[r].op IN
  /\ request[r].pc = "send"
  /\ \/ /\ authorizePrincipal(request[r].who, o.scope, i)
        /\ canRouteToInstance(i)
        /\ sent' = message(r, i, FALSE)
        /\ \E ids \in answer(o, i) :
             /\ home' = [x \in Resources |->
                           IF x \in ids THEN home[x] \cup {i} ELSE home[x]]
             /\ request' = [request EXCEPT ![r] =
                  IF ids = {} THEN NoRequest ELSE [@ EXCEPT !.pc = "capture", !.left = ids]]
     \/ /\ answered(r)
        /\ sent' = None
        /\ UNCHANGED home
  /\ UNCHANGED <<storeVars, online, changes>>

captureRoutes(r) ==
  \E x \in request[r].left :
    /\ request[r].pc = "capture"
    /\ routes' = [routes EXCEPT ![x] = request[r].target]
    /\ request' = [request EXCEPT ![r] =
         IF request[r].left = {x} THEN NoRequest
         ELSE [@ EXCEPT !.left = request[r].left \ {x}]]
    /\ sent' = None
    /\ UNCHANGED <<rows, projects, disabled, online, home, changes>>

\* resolveProjectRecord: the authorised locations that the selector leaves,
\* if it is given, and then which of them are online.
filterProjectSelector(records) == {records} \cup {records \cap {c} : c \in Connectors}

resolveProjectRecord(r) ==
  LET p == request[r].resource
      authorized == {c \in locations(p) :
                       authorizeProject(request[r].who, request[r].op.scope, c, p)} IN
  /\ request[r].pc = "locate"
  /\ \E selected \in filterProjectSelector(authorized) :
       request' = [request EXCEPT ![r] =
         IF selected = {} THEN NoRequest ELSE [@ EXCEPT !.pc = "status", !.left = selected]]
  /\ sent' = None
  /\ UNCHANGED <<storeVars, online, home, changes>>

checkProjectStatus(r) ==
  \E c \in request[r].left :
    /\ request[r].pc = "status"
    /\ request' = [request EXCEPT ![r].left = @ \ {c},
         ![r].found = IF projectStatus(c) = "online" THEN @ \cup {c} ELSE @]
    /\ sent' = None
    /\ UNCHANGED <<storeVars, online, home, changes>>

ambiguousProjectLocationError(r) == Cardinality(request[r].found) > 1

\* projectProxyAndWrite: to the one location that is online.
projectProxyAndWrite(r) ==
  LET c == CHOOSE c \in request[r].found : TRUE IN
  /\ request[r].pc = "status"
  /\ request[r].left = {}
  /\ sent' = IF /\ request[r].found # {}
                /\ ~ambiguousProjectLocationError(r)
                /\ projectStatus(c) = "online"
             THEN message(r, c, FALSE) ELSE None
  /\ answered(r)
  /\ UNCHANGED <<storeVars, online, home, changes>>

-----------------------------------------------------------------------------
(* Connectors and operators *)

happens == changes < MaxChanges /\ changes' = changes + 1

\* handleAdvertise: ReplaceConnectorInstances takes over the instances named,
\* prunes the others of the connector with their routes ...
ReplaceConnectorInstances(c, ids) ==
  LET pruned == {i \in Instances : rows[i] = c /\ i \notin ids} IN
  /\ rows' = [i \in Instances |->
                IF i \in ids THEN c ELSE IF i \in pruned THEN None ELSE rows[i]]
  /\ routes' = [x \in Resources |-> IF routes[x] \in pruned THEN None ELSE routes[x]]
  /\ online' = (online \ pruned) \cup ids \cup {c}

\* ... and ReplaceConnectorProjects those of its projects.
ReplaceConnectorProjects(c, ids) ==
  \E shared \in [Projects -> ids \cup {None}] :
    projects' = [projects EXCEPT ![c] = shared]

handleAdvertise(c) ==
  \E ids \in SUBSET Shareable[c] :
    /\ happens
    /\ ReplaceConnectorInstances(c, ids)
    /\ ReplaceConnectorProjects(c, ids)
    /\ sent' = None
    /\ UNCHANGED <<disabled, home, request>>

\* The session of the connector ends.
disconnect(c) ==
  /\ happens
  /\ c \in online
  /\ online' = online \ ({c} \cup {i \in Instances : rows[i] = c})
  /\ sent' = None
  /\ UNCHANGED <<storeVars, home, request>>

\* handleConnectorScoped: disable and enable.
handleConnectorScoped(c) ==
  /\ happens
  /\ disabled' = IF c \in disabled THEN disabled \ {c} ELSE disabled \cup {c}
  /\ sent' = None
  /\ UNCHANGED <<rows, projects, routes, online, home, request>>

\* A daemon creates a resource by itself, or for a planner on its machine.
daemonCreates(x, i) ==
  /\ happens
  /\ home[x] = {}
  /\ home' = [home EXCEPT ![x] = {i}]
  /\ sent' = None
  /\ UNCHANGED <<storeVars, online, request>>

-----------------------------------------------------------------------------
Init ==
  /\ rows = [i \in Instances |-> None]
  /\ projects = [c \in Connectors |-> [p \in Projects |-> None]]
  /\ disabled = {}
  /\ online = {}
  /\ routes = [x \in Resources |-> None]
  /\ home = [x \in Resources |-> {}]
  /\ request = [r \in Requests |-> NoRequest]
  /\ sent = None
  /\ changes = 0

Continue(r) ==
  \/ LookupResourceRoute(r) \/ DeleteResourceRoute(r) \/ resourceProbeCandidates(r)
  \/ probeResourceRoute(r) \/ SaveResourceRoute(r)
  \/ proxyAndWrite(r) \/ captureRoutes(r)
  \/ resolveProjectRecord(r) \/ checkProjectStatus(r) \/ projectProxyAndWrite(r)

Next ==
  \/ \E r \in Requests : begin(r) \/ Continue(r)
  \/ \E c \in Connectors : handleAdvertise(c) \/ disconnect(c) \/ handleConnectorScoped(c)
  \/ \E x \in Resources, i \in Instances : daemonCreates(x, i)

Spec == Init /\ [][Next]_vars

-----------------------------------------------------------------------------
\* The rows and routes of the relay, and the requests at work.
TypeOK ==
  /\ rows \in [Instances -> Connectors \cup {None}]
  /\ projects \in [Connectors -> [Projects -> Instances \cup {None}]]
  /\ disabled \subseteq Connectors
  /\ online \subseteq Connectors \cup Instances
  /\ routes \in [Resources -> Instances \cup {None}]
  /\ home \in [Resources -> SUBSET Instances]
  /\ \A r \in Requests :
       /\ request[r].pc \in {"idle", "hint", "drop", "candidates", "probe", "send",
                             "capture", "locate", "status"}
       /\ request[r].expected \in Instances \cup {None}
       /\ request[r].target \in Instances \cup {None}

\* Whatever the relay sends to an instance, probes included, the planner
\* could have sent there itself and the connector lets through: the planner
\* has the scope of the route and is not restricted to other instances or
\* projects, and the allow list of the connector has the call. Holds also when
\* the route came from another planner's request and when
\* requireRoutedInstance resolved it with every scope.
SentWithinGrant ==
  sent # None =>
    IF sent.op.target = "project"
    THEN /\ scopeAllowed(Grants[sent.who].scopes, sent.op.scope)
         /\ ~restricted(Grants[sent.who].projects, sent.resource)
         /\ sent.op.call \in handleProjectRequest
    ELSE /\ authorizePrincipal(sent.who, sent.op.scope, sent.to)
         /\ sent.op.call \in AllowedLocalProxy

\* A request for a step, gate or artifact reaches an instance that holds it,
\* however stale the remembered route was: routes are dropped with their
\* instance, and a handler that was probing meanwhile may save one again.
ReachesHolder ==
  /\ \A x \in Resources : routes[x] # None => routes[x] \in home[x]
  /\ (sent # None /\ ~sent.probe /\ sent.resource \in Resources)
       => sent.to \in home[sent.resource]

\* A planner is told the truth: when it sees one available location of a
\* project, and may use the locations it sees, a request for the project
\* that starts and ends now is sent there.
AvailableMeansReachable ==
  \A who \in Principals, p \in Projects, o \in handleResolvedProjectScoped :
    LET told == projectPayloadByID(who, p)
        usable == {c \in locations(p) : authorizeProject(who, o.scope, c, p)} IN
    (Cardinality(told.available) = 1 /\ scopeAllowed(Grants[who].scopes, o.scope))
      => {c \in usable : projectStatus(c) = "online"} = told.available

\* As the documentation has it, an id that several instances hold is not
\* resolved by choosing one of them: a request is not sent while another
\* instance that is online and open to the planner has the id too.
AmbiguousFailsClosed ==
  (sent # None /\ ~sent.probe /\ sent.resource \in Resources)
    => \A i \in home[sent.resource] \ {sent.to} :
         ~(authorizePrincipal(sent.who, sent.op.scope, i) /\ canRouteToInstance(i))
=============================================================================
