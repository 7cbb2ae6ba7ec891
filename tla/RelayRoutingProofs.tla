------------------------- MODULE RelayRoutingProofs -------------------------
(***************************************************************************)
(* Theorems about RelayRouting for any number of connectors, instances,    *)
(* projects, resources, planners and requests, and whatever the planners'  *)
(* tokens grant.                                                           *)
(*                                                                         *)
(* A message is right because of what its handler has made sure of some    *)
(* steps before, so the invariant says of each handler what it knows at    *)
(* its place: which instances it may ask (wellFormed) and which hold what  *)
(* it looks for (findsHolder). The latter survives the steps of others     *)
(* because resources do not move.                                          *)
(***************************************************************************)
EXTENDS RelayRouting, FiniteSetTheorems, TLAPS

-----------------------------------------------------------------------------
(* The tables of routes, tools and allowed calls.                          *)

\* Every call that the routes by instance make is on the connector's list.
LEMMA InstanceCalls ==
  \A o \in handleInstanceScoped : o.call \in AllowedLocalProxy /\ o.target = "instance"
BY DEF handleInstanceScoped, route, AllowedLocalProxy, GET, POST, PATCH

\* So is every call that the routes by step make,
LEMMA StepCalls ==
  \A o \in handleStepScoped : o.call \in AllowedLocalProxy /\ o.target = "step"
BY DEF handleStepScoped, route, AllowedLocalProxy, isStepPath, Evidence, GET, POST

\* and those by gate and by artifact.
LEMMA OtherCalls ==
  \A o \in handleArtifactScoped \cup handleGateScoped :
    o.call \in AllowedLocalProxy /\ o.target \in {"artifact", "gate"}
BY DEF handleArtifactScoped, handleGateScoped, route, AllowedLocalProxy, GET, POST

\* Every call for a project is one the connector's project handler serves.
LEMMA ProjectCalls ==
  \A o \in handleResolvedProjectScoped :
    o.call \in handleProjectRequest /\ o.target = "project"
BY DEF handleResolvedProjectScoped, projectRoute, route, handleProjectRequest,
     proxyProjectEvidence, AllowedLocalProxy, isStepPath, Evidence, GET, POST

\* A tool that must name an instance asks for the scope of the route that it
\* goes through.
LEMMA ExplicitScope ==
  ASSUME NEW o \in handleStepScoped \cup handleGateScoped, explicit(o),
         NEW t \in toolsFor(o)
  PROVE  t.scope = o.scope
<1>1. CASE o \in handleGateScoped
  <2>1. o.call = POST(<<"gates", "id">>) /\ o.scope = <<"gates", "write">> /\ o.target = "gate"
    BY <1>1 DEF handleGateScoped, route
  <2>2. t \in buildMCPTools /\ t.call = POST(<<"gates", "id">>)
    BY <2>1 DEF toolsFor
  <2> QED BY <2>1, <2>2 DEF buildMCPTools, tool, GET, POST, PATCH
<1>2. CASE o \in handleStepScoped
  <2>1. o.call = POST(<<"steps", "id", "retry">>) /\ o.scope = <<"steps", "write">> /\ o.target = "step"
    BY <1>2 DEF handleStepScoped, route, explicit, requiresExplicitInstance
  <2>2. t \in buildMCPTools /\ t.call = POST(<<"steps", "id", "retry">>)
    BY <2>1 DEF toolsFor
  <2> QED BY <2>1, <2>2 DEF buildMCPTools, tool, GET, POST, PATCH
<1> QED BY <1>1, <1>2

-----------------------------------------------------------------------------
(* The inductive invariant.                                                *)

ByResource == handleStepScoped \cup handleGateScoped \cup handleArtifactScoped

Handlers ==
  [pc: {"idle", "hint", "drop", "candidates", "probe", "send", "capture",
        "locate", "status"},
   who: Principals \cup {None}, op: Routes \cup {None},
   resource: Resources \cup Projects \cup {None},
   expected: Instances \cup {None},
   left: SUBSET (Instances \cup Resources \cup Connectors),
   found: SUBSET (Instances \cup Connectors), target: Instances \cup {None}]

\* A handler that probes for a resource.
searching(q) == q.pc \in {"hint", "drop", "candidates", "probe"}

\* What a handler has made sure of.  The one instance a tool names, and every
\* instance left to be probed, is one the planner may use with the route's own
\* scope; a project is looked up only for those who may use it.
wellFormed(q) ==
  /\ q.pc # "idle" => q.who \in Principals
  /\ searching(q) => q.op \in ByResource /\ q.resource \in Resources
  /\ searching(q) /\ q.pc # "probe" => q.found = {}
  /\ q.pc \in {"send", "capture"} =>
       /\ q.op \in Routes \ handleResolvedProjectScoped
       /\ q.resource \in Resources \cup {None}
       /\ q.target \in Instances
  /\ q.pc \in {"locate", "status"} =>
       q.op \in handleResolvedProjectScoped /\ q.resource \in Projects
  /\ searching(q) /\ q.expected # None =>
       authorizePrincipal(q.who, q.op.scope, q.expected)
  /\ q.pc = "probe" =>
       /\ q.found \subseteq Instances
       /\ q.left \subseteq Instances
       /\ \A i \in q.left : authorizePrincipal(q.who, q.op.scope, i)
  /\ q.pc = "capture" => q.left \subseteq Resources
  /\ q.pc = "locate" => q.found = {}
  /\ q.pc = "status" => q.left \subseteq Connectors
  /\ q.pc = "status" /\ q.left \cup q.found # {} =>
       /\ scopeAllowed(Grants[q.who].scopes, q.op.scope)
       /\ ~ restricted(Grants[q.who].projects, q.resource)

\* What a handler has found holds the resource, and what it is about to send
\* to, or to remember as a route, does: h says which instances hold what.
findsHolder(q, h) ==
  /\ q.pc = "probe" => \A i \in q.found : i \in h[q.resource]
  /\ q.pc = "send" /\ q.resource \in Resources => q.target \in h[q.resource]
  /\ q.pc = "capture" => \A x \in q.left : q.target \in h[x]

RoutingInv ==
  /\ routes \in [Resources -> Instances \cup {None}]
  /\ home \in [Resources -> SUBSET Instances]
  /\ request \in [Requests -> Handlers]
  /\ \A r \in Requests : /\ wellFormed(request[r])
                         /\ findsHolder(request[r], home)
  /\ SentWithinGrant
  /\ ReachesHolder

\* The routes by resource and by instance are not those of projects.
LEMMA RouteKinds ==
  /\ ByResource \subseteq Routes \ handleResolvedProjectScoped
  /\ handleInstanceScoped \subseteq Routes \ handleResolvedProjectScoped
  /\ \A o \in Routes \ handleResolvedProjectScoped :
       o.call \in AllowedLocalProxy /\ o.target # "project"
  /\ \A o \in Routes : /\ o.target = "instance" => o \in handleInstanceScoped
                       /\ o.target = "project" => o \in handleResolvedProjectScoped
                       /\ o.target \in {"step", "gate", "artifact"} => o \in ByResource
<1>1. Routes = handleInstanceScoped \cup ByResource \cup handleResolvedProjectScoped
  BY DEF Routes, ByResource
<1>2. \A o \in ByResource : /\ o.call \in AllowedLocalProxy
                            /\ o.target \in {"step", "artifact", "gate"}
  BY StepCalls, OtherCalls DEF ByResource
<1> QED BY <1>1, <1>2, InstanceCalls, ProjectCalls

\* An idle handler is well formed.
LEMMA IdleOK ==
  /\ NoRequest \in Handlers /\ wellFormed(NoRequest)
  /\ \A h : findsHolder(NoRequest, h)
BY DEF NoRequest, Handlers, wellFormed, searching, findsHolder

\* A step of one handler preserves the invariant if its new record is well
\* formed and what it remembers and sends is right.
LEMMA HandlerStep ==
  ASSUME RoutingInv, NEW r \in Requests, NEW q \in Handlers,
         request' = [request EXCEPT ![r] = q],
         wellFormed(q), findsHolder(q, home'),
         home' \in [Resources -> SUBSET Instances],
         \A x \in Resources : home[x] \subseteq home'[x],
         routes' \in [Resources -> Instances \cup {None}],
         \A x \in Resources : routes'[x] # None => routes'[x] \in home'[x],
         SentWithinGrant',
         sent' # None /\ ~ sent'.probe /\ sent'.resource \in Resources
           => sent'.to \in home'[sent'.resource]
  PROVE  RoutingInv'
<1>1. request' \in [Requests -> Handlers]
  BY DEF RoutingInv
<1>2. ASSUME NEW k \in Requests
      PROVE  wellFormed(request'[k]) /\ findsHolder(request'[k], home')
  <2>1. CASE k = r
    BY <2>1 DEF RoutingInv
  <2>2. CASE k # r
    <3>1. /\ request'[k] = request[k] /\ request[k] \in Handlers
          /\ wellFormed(request[k]) /\ findsHolder(request[k], home)
      BY <2>2 DEF RoutingInv
    <3>2. findsHolder(request[k], home')
      BY <3>1 DEF findsHolder, wellFormed, searching
    <3> QED BY <3>1, <3>2
  <2> QED BY <2>1, <2>2
<1>3. ReachesHolder'
  BY DEF ReachesHolder
<1> QED BY <1>1, <1>2, <1>3 DEF RoutingInv

\* The same for a step that sends nothing and leaves the tables alone.
LEMMA QuietStep ==
  ASSUME RoutingInv, NEW r \in Requests, NEW q \in Handlers,
         request' = [request EXCEPT ![r] = q],
         wellFormed(q), findsHolder(q, home),
         sent' = None, UNCHANGED <<routes, home>>
  PROVE  RoutingInv'
<1>1. /\ home \in [Resources -> SUBSET Instances]
      /\ routes \in [Resources -> Instances \cup {None}]
      /\ \A x \in Resources : routes[x] # None => routes[x] \in home[x]
  BY DEF RoutingInv, ReachesHolder
<1>2. SentWithinGrant'
  BY DEF SentWithinGrant
<1> QED BY <1>1, <1>2, HandlerStep

\* The handler of a route preserves the invariant: a tool that names an instance
\* was authorised for it with the scope of the route.
LEMMA BeginInv ==
  ASSUME RoutingInv, NEW r \in Requests, begin(r)
  PROVE  RoutingInv'
<1> DEFINE opens(who, o, via) ==
          LET new == [NoRequest EXCEPT !.who = who, !.op = o]
              mayCall(i) == via # None => authorizePrincipal(who, via.scope, i) IN
          /\ request[r].pc = "idle"
          /\ \/ /\ o.target = "instance"
                /\ \E i \in Instances :
                     /\ mayCall(i)
                     /\ authorizePrincipal(who, NoScope, i)
                     /\ request' = [request EXCEPT ![r] =
                          [new EXCEPT !.pc = "send", !.target = i]]
             \/ /\ o.target = "project"
                /\ mayCall(None)
                /\ \E p \in Projects : request' = [request EXCEPT ![r] =
                     [new EXCEPT !.pc = "locate", !.resource = p]]
             \/ /\ o.target \in {"step", "gate", "artifact"}
                /\ \E x \in {x \in Resources : Kind[x] = o.target},
                      i \in IF via # None /\ explicit(o) THEN Instances ELSE {None} :
                     /\ mayCall(i)
                     /\ request' = [request EXCEPT ![r] =
                          [new EXCEPT !.pc = "hint", !.resource = x, !.expected = i]]
          /\ sent' = None
          /\ UNCHANGED <<storeVars, online, home, changes>>
<1>0. PICK who \in Principals, o \in {o \in Routes : o.name \in Offered} :
        \E via \in toolsFor(o) \cup {None} : opens(who, o, via)
  BY DEF begin
<1>1. PICK via \in toolsFor(o) \cup {None} : opens(who, o, via)
  BY <1>0
<1>2. sent' = None /\ UNCHANGED <<routes, home>>
  BY <1>1 DEF storeVars
<1>3. None \notin Resources /\ o \in Routes
  BY RelayRoutingConstants
<1>4. ASSUME NEW i \in Instances, o.target = "instance",
             request' = [request EXCEPT ![r] =
               [NoRequest EXCEPT !.who = who, !.op = o, !.pc = "send", !.target = i]]
      PROVE  RoutingInv'
  <2> DEFINE q == [NoRequest EXCEPT !.who = who, !.op = o, !.pc = "send", !.target = i]
  <2>1. /\ q \in Handlers /\ q.pc = "send" /\ q.resource = None
        /\ q.who = who /\ q.op = o /\ q.target = i
    BY <1>3 DEF NoRequest, Handlers
  <2>2. o \in Routes \ handleResolvedProjectScoped
    BY <1>3, <1>4, RouteKinds
  <2> HIDE DEF q
  <2>3. wellFormed(q) /\ findsHolder(q, home)
    BY <1>3, <2>1, <2>2 DEF wellFormed, searching, findsHolder
  <2>4. request' = [request EXCEPT ![r] = q]
    BY <1>4 DEF q
  <2> QED BY <1>2, <2>1, <2>3, <2>4, QuietStep
<1>5. ASSUME NEW p \in Projects, o.target = "project",
             request' = [request EXCEPT ![r] =
               [NoRequest EXCEPT !.who = who, !.op = o, !.pc = "locate", !.resource = p]]
      PROVE  RoutingInv'
  <2> DEFINE q == [NoRequest EXCEPT !.who = who, !.op = o, !.pc = "locate", !.resource = p]
  <2>1. /\ q \in Handlers /\ q.pc = "locate" /\ q.resource = p
        /\ q.who = who /\ q.op = o /\ q.found = {}
    BY <1>3 DEF NoRequest, Handlers
  <2>2. o \in handleResolvedProjectScoped
    BY <1>3, <1>5, RouteKinds
  <2> HIDE DEF q
  <2>3. wellFormed(q) /\ findsHolder(q, home)
    BY <2>1, <2>2 DEF wellFormed, searching, findsHolder
  <2>4. request' = [request EXCEPT ![r] = q]
    BY <1>5 DEF q
  <2> QED BY <1>2, <2>1, <2>3, <2>4, QuietStep
<1>6. ASSUME NEW x \in Resources, NEW i \in Instances \cup {None},
             i # None => via # None /\ explicit(o),
             via # None => authorizePrincipal(who, via.scope, i),
             o.target \in {"step", "gate", "artifact"},
             request' = [request EXCEPT ![r] =
               [NoRequest EXCEPT !.who = who, !.op = o, !.pc = "hint",
                                 !.resource = x, !.expected = i]]
      PROVE  RoutingInv'
  <2> DEFINE q == [NoRequest EXCEPT !.who = who, !.op = o, !.pc = "hint",
                                    !.resource = x, !.expected = i]
  <2>1. /\ q \in Handlers /\ q.pc = "hint" /\ q.resource = x /\ q.expected = i
        /\ q.who = who /\ q.op = o /\ q.found = {}
    BY <1>3 DEF NoRequest, Handlers
  <2>2. o \in ByResource
    BY <1>3, <1>6, RouteKinds
  <2>3. i # None => authorizePrincipal(who, o.scope, i)
    <3> SUFFICES ASSUME i # None PROVE authorizePrincipal(who, o.scope, i)
      OBVIOUS
    <3>1. via \in toolsFor(o) /\ explicit(o)
      BY <1>6
    <3>2. o \in handleStepScoped \cup handleGateScoped
      <4>1. o.target # "artifact"
        BY <3>1 DEF explicit
      <4>2. \A a \in handleArtifactScoped : a.target = "artifact"
        BY DEF handleArtifactScoped, route
      <4> QED BY <2>2, <4>1, <4>2 DEF ByResource
    <3>3. via.scope = o.scope
      BY <3>1, <3>2, ExplicitScope
    <3> QED BY <1>6, <3>3
  <2> HIDE DEF q
  <2>4. wellFormed(q) /\ findsHolder(q, home)
    BY <2>1, <2>2, <2>3 DEF wellFormed, searching, findsHolder
  <2>5. request' = [request EXCEPT ![r] = q]
    BY <1>6 DEF q
  <2> QED BY <1>2, <2>1, <2>4, <2>5, QuietStep
<1>7. CASE o.target = "instance"
  BY <1>1, <1>4, <1>7
<1>8. CASE o.target = "project"
  BY <1>1, <1>5, <1>8
<1>9. CASE o.target \in {"step", "gate", "artifact"}
  <2>1. PICK x \in Resources,
             i \in IF via # None /\ explicit(o) THEN Instances ELSE {None} :
          /\ via # None => authorizePrincipal(who, via.scope, i)
          /\ request' = [request EXCEPT ![r] =
               [NoRequest EXCEPT !.who = who, !.op = o, !.pc = "hint",
                                 !.resource = x, !.expected = i]]
    BY <1>1, <1>9
  <2> QED BY <1>6, <1>9, <2>1
<1> QED BY <1>1, <1>7, <1>8, <1>9

\* What follows a resolution is right if the instance holds the resource.
LEMMA ResolvedOK ==
  ASSUME RoutingInv, NEW r \in Requests, searching(request[r]),
         NEW i \in Instances, resolved(r, i), NEW h, i \in h[request[r].resource]
  PROVE  \E q \in Handlers : /\ request' = [request EXCEPT ![r] = q]
                             /\ wellFormed(q) /\ findsHolder(q, h)
<1> DEFINE p == request[r]
<1>0. /\ p \in Handlers /\ wellFormed(p) /\ searching(p)
  BY DEF RoutingInv
<1>1. CASE p.expected # None
  <2> DEFINE q == [p EXCEPT !.pc = "hint", !.expected = None, !.left = {}, !.found = {}]
  <2>1. request' = [request EXCEPT ![r] = q]
    BY <1>1 DEF resolved
  <2> HIDE DEF p
  <2>2. /\ q \in Handlers /\ q.pc = "hint" /\ q.found = {} /\ q.expected = None
        /\ q.who = p.who /\ q.op = p.op /\ q.resource = p.resource
    BY <1>0 DEF Handlers
  <2> HIDE DEF q
  <2>3. wellFormed(q) /\ findsHolder(q, h)
    BY <1>0, <2>2 DEF wellFormed, searching, findsHolder
  <2> QED BY <2>1, <2>2, <2>3
<1>2. CASE p.expected = None
  <2> DEFINE q == [p EXCEPT !.pc = "send", !.target = i, !.left = {}, !.found = {}]
  <2>1. request' = [request EXCEPT ![r] = q]
    BY <1>2 DEF resolved
  <2>4. i \in h[p.resource]
    OBVIOUS
  <2> HIDE DEF p
  <2>2. /\ q \in Handlers /\ q.pc = "send" /\ q.target = i
        /\ q.who = p.who /\ q.op = p.op /\ q.resource = p.resource
    BY <1>0 DEF Handlers
  <2> HIDE DEF q
  <2>3. wellFormed(q) /\ findsHolder(q, h)
    BY <1>0, <2>2, <2>4, RouteKinds DEF wellFormed, searching, findsHolder
  <2> QED BY <2>1, <2>2, <2>3
<1> QED BY <1>1, <1>2

\* The remembered route preserves the invariant.
LEMMA LookupInv ==
  ASSUME RoutingInv, NEW r \in Requests, LookupResourceRoute(r)
  PROVE  RoutingInv'
<1> DEFINE p == request[r]
           h == routes[p.resource]
<1>0. /\ p \in Handlers /\ wellFormed(p) /\ p.pc = "hint" /\ p.found = {}
      /\ p.resource \in Resources /\ searching(p)
      /\ sent' = None /\ UNCHANGED <<routes, home>>
  BY DEF RoutingInv, LookupResourceRoute, wellFormed, searching, storeVars
<1>1. CASE h # None /\ resolved(r, h)
  <2>1. h \in Instances /\ h \in home[p.resource]
    BY <1>0, <1>1 DEF RoutingInv, ReachesHolder
  <2> QED BY <1>0, <1>1, <2>1, ResolvedOK, QuietStep
<1>2. ASSUME NEW pc \in {"drop", "candidates"}, goes(r, pc)
      PROVE  RoutingInv'
  <2> DEFINE q == [p EXCEPT !.pc = pc]
  <2>1. request' = [request EXCEPT ![r] = q]
    BY <1>2 DEF goes
  <2> HIDE DEF p
  <2>2. /\ q \in Handlers /\ q.pc = pc /\ q.found = {} /\ q.expected = p.expected
        /\ q.who = p.who /\ q.op = p.op /\ q.resource = p.resource
    BY <1>0 DEF Handlers
  <2> HIDE DEF q
  <2>3. wellFormed(q) /\ findsHolder(q, home)
    BY <1>0, <2>2 DEF wellFormed, searching, findsHolder
  <2> QED BY <1>0, <2>1, <2>2, <2>3, QuietStep
<1> QED BY <1>1, <1>2 DEF LookupResourceRoute

\* Dropping a route preserves the invariant.
LEMMA DropInv ==
  ASSUME RoutingInv, NEW r \in Requests, DeleteResourceRoute(r)
  PROVE  RoutingInv'
<1> DEFINE p == request[r]
           q == [p EXCEPT !.pc = "candidates"]
<1>0. /\ p \in Handlers /\ wellFormed(p) /\ p.pc = "drop" /\ p.found = {}
      /\ p.resource \in Resources /\ searching(p)
      /\ routes' = [routes EXCEPT ![p.resource] = None]
      /\ sent' = None /\ home' = home
      /\ request' = [request EXCEPT ![r] = q]
  BY DEF RoutingInv, DeleteResourceRoute, wellFormed, searching, goes
<1>1. /\ routes' \in [Resources -> Instances \cup {None}]
      /\ \A x \in Resources : routes'[x] # None => routes'[x] \in home[x]
      /\ home \in [Resources -> SUBSET Instances]
  BY <1>0 DEF RoutingInv, ReachesHolder
<1> HIDE DEF p
<1>2. /\ q \in Handlers /\ q.pc = "candidates" /\ q.found = {}
      /\ q.expected = p.expected
      /\ q.who = p.who /\ q.op = p.op /\ q.resource = p.resource
  BY <1>0 DEF Handlers
<1> HIDE DEF q
<1>3. wellFormed(q) /\ findsHolder(q, home)
  BY <1>0, <1>2 DEF wellFormed, searching, findsHolder
<1>4. SentWithinGrant'
  BY <1>0 DEF SentWithinGrant
<1> QED BY <1>0, <1>1, <1>2, <1>3, <1>4, HandlerStep

\* The candidates are instances that the planner may use: without an instance
\* named by a tool each was authorised, and the named one was before.
LEMMA CandidatesInv ==
  ASSUME RoutingInv, NEW r \in Requests, resourceProbeCandidates(r)
  PROVE  RoutingInv'
<1> DEFINE p == request[r]
           all == IF p.expected # None THEN {p.expected} ELSE Instances
           candidates == {i \in all : mayUse(r, i) /\ canRouteToInstance(i)}
           q == [p EXCEPT !.pc = "probe", !.left = candidates]
<1>0. /\ p \in Handlers /\ wellFormed(p) /\ p.pc = "candidates" /\ p.found = {}
      /\ p.resource \in Resources /\ searching(p)
      /\ sent' = None /\ UNCHANGED <<routes, home>>
  BY DEF RoutingInv, resourceProbeCandidates, wellFormed, searching, storeVars
<1>1. request' = [request EXCEPT ![r] = NoRequest]
        \/ request' = [request EXCEPT ![r] = q]
  BY DEF resourceProbeCandidates
<1>2. CASE request' = [request EXCEPT ![r] = NoRequest]
  BY <1>0, <1>2, IdleOK, QuietStep
<1>3. CASE request' = [request EXCEPT ![r] = q]
  <2>1. /\ candidates \subseteq Instances
        /\ \A i \in candidates : authorizePrincipal(p.who, p.op.scope, i)
    <3>1. CASE p.expected # None
      BY <1>0, <3>1 DEF wellFormed, Handlers
    <3>2. CASE p.expected = None
      BY <3>2 DEF mayUse
    <3> QED BY <3>1, <3>2
  <2> HIDE DEF candidates, p
  <2>2. /\ q \in Handlers /\ q.pc = "probe" /\ q.found = {} /\ q.expected = p.expected
        /\ q.who = p.who /\ q.op = p.op /\ q.resource = p.resource
        /\ q.left = candidates
    BY <1>0, <2>1 DEF Handlers
  <2> HIDE DEF q
  <2>3. wellFormed(q) /\ findsHolder(q, home)
    BY <1>0, <2>1, <2>2 DEF wellFormed, searching, findsHolder
  <2> QED BY <1>0, <1>3, <2>2, <2>3, QuietStep
<1> QED BY <1>1, <1>2, <1>3

\* A probe preserves the invariant: it goes to an instance the planner may use,
\* and counts as a match only if that one holds the resource.
LEMMA ProbeInv ==
  ASSUME RoutingInv, NEW r \in Requests, probeResourceRoute(r)
  PROVE  RoutingInv'
<1> DEFINE p == request[r]
<1>0. /\ p \in Handlers /\ wellFormed(p) /\ p.pc = "probe"
      /\ p.resource \in Resources /\ searching(p) /\ p.op \in ByResource
      /\ p.found \subseteq Instances /\ p.left \subseteq Instances
      /\ \A k \in p.left : authorizePrincipal(p.who, p.op.scope, k)
      /\ \A k \in p.found : k \in home[p.resource]
      /\ UNCHANGED <<routes, home>>
  BY DEF RoutingInv, probeResourceRoute, wellFormed, searching, storeVars,
       findsHolder
<1> DEFINE asks(i, found) ==
          /\ sent' \in {message(r, i, TRUE), None}
          /\ request' = [request EXCEPT ![r].left = @ \ {i}, ![r].found = found]
          /\ found # p.found => i \in home[p.resource]
<1>a. PICK i \in p.left : asks(i, p.found) \/ asks(i, p.found \cup {i})
  BY DEF probeResourceRoute
<1>1. PICK found \in {p.found, p.found \cup {i}} : asks(i, found)
  BY <1>a
<1> DEFINE q == [p EXCEPT !.left = p.left \ {i}, !.found = found]
<1>2. request' = [request EXCEPT ![r] = q]
  BY <1>1 DEF RoutingInv
<1>3. SentWithinGrant'
  <2>1. CASE sent' = None
    BY <2>1 DEF SentWithinGrant
  <2>2. CASE sent' = message(r, i, TRUE)
    <3>1. sent'.who = p.who /\ sent'.op = p.op /\ sent'.to = i
      BY <2>2 DEF message
    <3>2. p.op.target # "project" /\ p.op.call \in AllowedLocalProxy
      BY <1>0, RouteKinds
    <3> HIDE DEF p
    <3> QED BY <1>0, <1>1, <3>1, <3>2 DEF SentWithinGrant
  <2> QED BY <1>1, <2>1, <2>2
<1>4. sent' # None => sent'.probe
  BY <1>1 DEF message
<1> HIDE DEF p
<1>5. /\ q \in Handlers /\ q.pc = "probe" /\ q.expected = p.expected
      /\ q.who = p.who /\ q.op = p.op /\ q.resource = p.resource
      /\ q.left = p.left \ {i} /\ q.found = found
  BY <1>0, <1>1 DEF Handlers
<1> HIDE DEF q
<1>6. wellFormed(q) /\ findsHolder(q, home)
  BY <1>0, <1>1, <1>5 DEF wellFormed, searching, findsHolder
<1>7. /\ home \in [Resources -> SUBSET Instances]
      /\ routes \in [Resources -> Instances \cup {None}]
      /\ \A x \in Resources : routes[x] # None => routes[x] \in home[x]
  BY DEF RoutingInv, ReachesHolder
<1> QED BY <1>0, <1>2, <1>3, <1>4, <1>5, <1>6, <1>7, HandlerStep

\* A single match is remembered, and holds the resource.
LEMMA SaveInv ==
  ASSUME RoutingInv, NEW r \in Requests, SaveResourceRoute(r)
  PROVE  RoutingInv'
<1> DEFINE p == request[r]
           i == CHOOSE i \in p.found : TRUE
<1>0. /\ p \in Handlers /\ wellFormed(p) /\ p.pc = "probe"
      /\ p.resource \in Resources /\ searching(p)
      /\ p.found \subseteq Instances
      /\ \A k \in p.found : k \in home[p.resource]
      /\ sent' = None /\ home' = home
  BY DEF RoutingInv, SaveResourceRoute, wellFormed, searching, findsHolder
<1>1. CASE answered(r) /\ UNCHANGED routes
  BY <1>0, <1>1, IdleOK, QuietStep DEF answered
<1>2. CASE /\ Cardinality(p.found) = 1
           /\ routes' = [routes EXCEPT ![p.resource] = i]
           /\ resolved(r, i)
  <2>1. p.found # {}
    BY <1>2, FS_EmptySet
  <2>2. i \in p.found
    BY <2>1
  <2>3. i \in Instances /\ i \in home[p.resource]
    BY <1>0, <2>2
  <2> HIDE DEF i
  <2>4. PICK q \in Handlers : /\ request' = [request EXCEPT ![r] = q]
                              /\ wellFormed(q) /\ findsHolder(q, home)
    BY <1>0, <1>2, <2>3, ResolvedOK
  <2>5. /\ home \in [Resources -> SUBSET Instances]
        /\ routes' \in [Resources -> Instances \cup {None}]
        /\ \A x \in Resources : routes'[x] # None => routes'[x] \in home[x]
    BY <1>0, <1>2, <2>3 DEF RoutingInv, ReachesHolder
  <2>6. SentWithinGrant'
    BY <1>0 DEF SentWithinGrant
  <2> QED BY <1>0, <2>4, <2>5, <2>6, HandlerStep
<1> QED BY <1>1, <1>2 DEF SaveResourceRoute

\* What is sent to an instance was authorised for it, and the ids that its
\* answer names are held there.
LEMMA ProxyInv ==
  ASSUME RoutingInv, NEW r \in Requests, proxyAndWrite(r)
  PROVE  RoutingInv'
<1> DEFINE p == request[r]
           i == p.target
           o == p.op
<1>0. /\ p \in Handlers /\ wellFormed(p) /\ p.pc = "send"
      /\ i \in Instances /\ o \in Routes \ handleResolvedProjectScoped
      /\ p.resource \in Resources \cup {None}
      /\ p.resource \in Resources => i \in home[p.resource]
      /\ routes' = routes
  BY DEF RoutingInv, proxyAndWrite, wellFormed, findsHolder, storeVars
<1>1. CASE answered(r) /\ sent' = None /\ UNCHANGED home
  BY <1>0, <1>1, IdleOK, QuietStep DEF answered
<1>2. ASSUME NEW ids \in answer(o, i),
             authorizePrincipal(p.who, o.scope, i),
             sent' = message(r, i, FALSE),
             home' = [x \in Resources |-> IF x \in ids THEN home[x] \cup {i} ELSE home[x]],
             request' = [request EXCEPT ![r] =
               IF ids = {} THEN NoRequest ELSE [@ EXCEPT !.pc = "capture", !.left = ids]]
      PROVE  RoutingInv'
  <2>1. ids \subseteq Resources
    BY <1>2 DEF answer
  <2>2. home \in [Resources -> SUBSET Instances]
    BY DEF RoutingInv
  <2>3. /\ home' \in [Resources -> SUBSET Instances]
        /\ \A x \in Resources : home[x] \subseteq home'[x]
        /\ \A x \in ids : i \in home'[x]
    BY <1>0, <1>2, <2>1, <2>2
  <2>4. /\ routes' \in [Resources -> Instances \cup {None}]
        /\ \A x \in Resources : routes'[x] # None => routes'[x] \in home'[x]
    BY <1>0, <2>3 DEF RoutingInv, ReachesHolder
  <2>5. /\ sent'.who = p.who /\ sent'.op = o /\ sent'.to = i
        /\ sent'.resource = p.resource
    BY <1>2 DEF message
  <2>6. SentWithinGrant'
    <3>1. o.target # "project" /\ o.call \in AllowedLocalProxy
      BY <1>0, RouteKinds
    <3> QED BY <1>2, <2>5, <3>1 DEF SentWithinGrant
  <2>7. sent'.resource \in Resources => sent'.to \in home'[sent'.resource]
    BY <1>0, <2>3, <2>5
  <2>8. CASE ids = {}
    <3>1. request' = [request EXCEPT ![r] = NoRequest]
      BY <1>2, <2>8
    <3> QED BY <2>3, <2>4, <2>6, <2>7, <3>1, IdleOK, HandlerStep
  <2>9. CASE ids # {}
    <3> DEFINE q == [p EXCEPT !.pc = "capture", !.left = ids]
    <3>1. request' = [request EXCEPT ![r] = q]
      BY <1>2, <2>9
    <3>2. /\ q \in Handlers /\ q.pc = "capture" /\ q.left = ids /\ q.who = p.who
          /\ q.op = o /\ q.resource = p.resource /\ q.target = i
      BY <1>0, <2>1 DEF Handlers
    <3> HIDE DEF q
    <3>3. wellFormed(q) /\ findsHolder(q, home')
      BY <1>0, <2>1, <2>3, <3>2 DEF wellFormed, searching, findsHolder
    <3> QED BY <2>3, <2>4, <2>6, <2>7, <3>1, <3>2, <3>3, HandlerStep
  <2> QED BY <2>8, <2>9
<1> QED BY <1>1, <1>2 DEF proxyAndWrite

\* The routes that are remembered from an answer are right.
LEMMA CaptureInv ==
  ASSUME RoutingInv, NEW r \in Requests, captureRoutes(r)
  PROVE  RoutingInv'
<1> DEFINE p == request[r]
<1>0. /\ p \in Handlers /\ wellFormed(p) /\ p.pc = "capture"
      /\ p.target \in Instances /\ p.left \subseteq Resources
      /\ \A x \in p.left : p.target \in home[x]
      /\ sent' = None /\ home' = home
  BY DEF RoutingInv, captureRoutes, wellFormed, findsHolder
<1>1. PICK x \in p.left :
        /\ routes' = [routes EXCEPT ![x] = p.target]
        /\ request' = [request EXCEPT ![r] =
             IF p.left = {x} THEN NoRequest ELSE [p EXCEPT !.left = p.left \ {x}]]
  BY DEF captureRoutes
<1>2. /\ home \in [Resources -> SUBSET Instances]
      /\ routes' \in [Resources -> Instances \cup {None}]
      /\ \A y \in Resources : routes'[y] # None => routes'[y] \in home[y]
  BY <1>0, <1>1 DEF RoutingInv, ReachesHolder
<1>3. SentWithinGrant'
  BY <1>0 DEF SentWithinGrant
<1>4. CASE p.left = {x}
  <2>1. request' = [request EXCEPT ![r] = NoRequest]
    BY <1>1, <1>4
  <2> QED BY <1>0, <1>2, <1>3, <2>1, IdleOK, HandlerStep
<1>5. CASE p.left # {x}
  <2> DEFINE q == [p EXCEPT !.left = p.left \ {x}]
  <2>1. request' = [request EXCEPT ![r] = q]
    BY <1>1, <1>5
  <2> HIDE DEF p
  <2>2. /\ q \in Handlers /\ q.pc = "capture" /\ q.left = p.left \ {x}
        /\ q.who = p.who /\ q.op = p.op /\ q.resource = p.resource
        /\ q.target = p.target
    BY <1>0 DEF Handlers
  <2> HIDE DEF q
  <2>3. wellFormed(q) /\ findsHolder(q, home)
    BY <1>0, <2>2 DEF wellFormed, searching, findsHolder
  <2> QED BY <1>0, <1>2, <1>3, <2>1, <2>2, <2>3, HandlerStep
<1> QED BY <1>4, <1>5

\* A project is looked up among the locations that its planner may use.
LEMMA LocateInv ==
  ASSUME RoutingInv, NEW r \in Requests, resolveProjectRecord(r)
  PROVE  RoutingInv'
<1> DEFINE p == request[r]
           authorized == {c \in locations(p.resource) :
                            authorizeProject(p.who, p.op.scope, c, p.resource)}
<1>0. /\ p \in Handlers /\ wellFormed(p) /\ p.pc = "locate" /\ p.found = {}
      /\ p.op \in handleResolvedProjectScoped /\ p.resource \in Projects
      /\ p.who \in Principals
      /\ sent' = None /\ UNCHANGED <<routes, home>>
  BY DEF RoutingInv, resolveProjectRecord, wellFormed, storeVars
<1>1. PICK selected \in filterProjectSelector(authorized) :
        request' = [request EXCEPT ![r] =
          IF selected = {} THEN NoRequest ELSE [@ EXCEPT !.pc = "status", !.left = selected]]
  BY DEF resolveProjectRecord
<1>2. selected \subseteq authorized /\ selected \subseteq Connectors
  BY DEF filterProjectSelector, locations
<1>3. CASE selected = {}
  <2>1. request' = [request EXCEPT ![r] = NoRequest]
    BY <1>1, <1>3
  <2> QED BY <1>0, <2>1, IdleOK, QuietStep
<1>4. CASE selected # {}
  <2> DEFINE q == [p EXCEPT !.pc = "status", !.left = selected]
  <2>1. request' = [request EXCEPT ![r] = q]
    BY <1>1, <1>4
  <2>2. /\ scopeAllowed(Grants[p.who].scopes, p.op.scope)
        /\ ~ restricted(Grants[p.who].projects, p.resource)
    BY <1>2, <1>4 DEF authorizeProject, authorizePrincipal
  <2> HIDE DEF p, authorized
  <2>3. /\ q \in Handlers /\ q.pc = "status" /\ q.left = selected
        /\ q.who = p.who /\ q.op = p.op /\ q.resource = p.resource
    BY <1>0, <1>2 DEF Handlers
  <2> HIDE DEF q
  <2>4. wellFormed(q) /\ findsHolder(q, home)
    BY <1>0, <1>2, <2>2, <2>3 DEF wellFormed, searching, findsHolder
  <2> QED BY <1>0, <2>1, <2>3, <2>4, QuietStep
<1> QED BY <1>3, <1>4

\* So is the status of each.
LEMMA StatusInv ==
  ASSUME RoutingInv, NEW r \in Requests, checkProjectStatus(r)
  PROVE  RoutingInv'
<1> DEFINE p == request[r]
           looks(c, found) ==
             request' = [request EXCEPT ![r].left = @ \ {c}, ![r].found = found]
<1>0. /\ p \in Handlers /\ wellFormed(p) /\ p.pc = "status"
      /\ p.op \in handleResolvedProjectScoped /\ p.resource \in Projects
      /\ p.who \in Principals /\ p.left \subseteq Connectors
      /\ sent' = None /\ UNCHANGED <<routes, home>>
  BY DEF RoutingInv, checkProjectStatus, wellFormed, storeVars
<1>1. PICK c \in p.left : looks(c, p.found) \/ looks(c, p.found \cup {c})
  BY DEF checkProjectStatus
<1>2. PICK found \in {p.found, p.found \cup {c}} : looks(c, found)
  BY <1>1
<1> DEFINE q == [p EXCEPT !.left = p.left \ {c}, !.found = found]
<1>3. request' = [request EXCEPT ![r] = q]
  BY <1>2 DEF RoutingInv
<1>4. /\ scopeAllowed(Grants[p.who].scopes, p.op.scope)
      /\ ~ restricted(Grants[p.who].projects, p.resource)
  BY <1>0 DEF wellFormed
<1> HIDE DEF p
<1>5. /\ q \in Handlers /\ q.pc = "status" /\ q.left = p.left \ {c}
      /\ q.who = p.who /\ q.op = p.op /\ q.resource = p.resource
  <2>1. found \in SUBSET (Instances \cup Connectors)
    BY <1>0, <1>1 DEF Handlers
  <2> QED BY <1>0, <2>1 DEF Handlers
<1> HIDE DEF q
<1>6. wellFormed(q) /\ findsHolder(q, home)
  BY <1>0, <1>4, <1>5 DEF wellFormed, searching, findsHolder
<1> QED BY <1>0, <1>3, <1>5, <1>6, QuietStep

\* A request for a project is sent within the grant of its planner.
LEMMA ProjectSendInv ==
  ASSUME RoutingInv, NEW r \in Requests, projectProxyAndWrite(r)
  PROVE  RoutingInv'
<1> DEFINE p == request[r]
           c == CHOOSE c \in p.found : TRUE
<1>0. /\ wellFormed(p) /\ p.pc = "status"
      /\ p.op \in handleResolvedProjectScoped /\ p.resource \in Projects
      /\ request' = [request EXCEPT ![r] = NoRequest]
      /\ sent' = None \/ (p.found # {} /\ sent' = message(r, c, FALSE))
      /\ UNCHANGED <<routes, home>>
  BY DEF RoutingInv, projectProxyAndWrite, wellFormed, storeVars, answered
<1>1. CASE sent' = None
  BY <1>0, <1>1, IdleOK, QuietStep
<1>2. CASE p.found # {} /\ sent' = message(r, c, FALSE)
  <2>1. sent'.who = p.who /\ sent'.op = p.op /\ sent'.resource = p.resource
    BY <1>2 DEF message
  <2>2. /\ scopeAllowed(Grants[p.who].scopes, p.op.scope)
        /\ ~ restricted(Grants[p.who].projects, p.resource)
    BY <1>0, <1>2 DEF wellFormed
  <2>3. p.op.target = "project" /\ p.op.call \in handleProjectRequest
    BY <1>0, ProjectCalls
  <2>4. sent'.resource \notin Resources
    BY <1>0, <2>1, RelayRoutingConstants
  <2> HIDE DEF p, c
  <2>5. SentWithinGrant'
    BY <2>1, <2>2, <2>3 DEF SentWithinGrant
  <2>6. /\ home \in [Resources -> SUBSET Instances]
        /\ routes \in [Resources -> Instances \cup {None}]
        /\ \A x \in Resources : routes[x] # None => routes[x] \in home[x]
    BY DEF RoutingInv, ReachesHolder
  <2> QED BY <1>0, <2>4, <2>5, <2>6, IdleOK, HandlerStep
<1> QED BY <1>0, <1>1, <1>2

-----------------------------------------------------------------------------
(* Connectors, operators and daemons.                                      *)

\* A step that no handler takes and that sends nothing preserves the invariant
\* if it adds no route and takes no resource from its instance.
LEMMA OutsideStep ==
  ASSUME RoutingInv, request' = request, sent' = None,
         home' \in [Resources -> SUBSET Instances],
         \A x \in Resources : home[x] \subseteq home'[x],
         routes' \in [Resources -> Instances \cup {None}],
         \A x \in Resources : routes'[x] \in {routes[x], None}
  PROVE  RoutingInv'
<1>1. ASSUME NEW k \in Requests
      PROVE  wellFormed(request'[k]) /\ findsHolder(request'[k], home')
  <2>1. /\ request'[k] = request[k] /\ request[k] \in Handlers
        /\ wellFormed(request[k]) /\ findsHolder(request[k], home)
    BY DEF RoutingInv
  <2>2. findsHolder(request[k], home')
    BY <2>1 DEF findsHolder, wellFormed, searching
  <2> QED BY <2>1, <2>2
<1>2. ReachesHolder'
  BY DEF ReachesHolder, RoutingInv
<1>3. SentWithinGrant'
  BY DEF SentWithinGrant
<1> QED BY <1>1, <1>2, <1>3 DEF RoutingInv

\* Advertisements, ends of sessions, operators and daemons preserve the invariant.
LEMMA OutsideInv ==
  ASSUME RoutingInv,
         \/ \E c \in Connectors : \/ handleAdvertise(c) \/ disconnect(c)
                                  \/ handleConnectorScoped(c)
         \/ \E x \in Resources, i \in Instances : daemonCreates(x, i)
  PROVE  RoutingInv'
<1>0. /\ routes \in [Resources -> Instances \cup {None}]
      /\ home \in [Resources -> SUBSET Instances]
  BY DEF RoutingInv
<1>1. ASSUME NEW c \in Connectors, handleAdvertise(c)
      PROVE  RoutingInv'
  <2>1. /\ request' = request /\ sent' = None /\ home' = home
        /\ \E pruned \in SUBSET Instances :
             routes' = [x \in Resources |-> IF routes[x] \in pruned THEN None ELSE routes[x]]
    BY <1>1 DEF handleAdvertise, ReplaceConnectorInstances
  <2> QED BY <1>0, <2>1, OutsideStep
<1>2. ASSUME NEW c \in Connectors, disconnect(c) \/ handleConnectorScoped(c)
      PROVE  RoutingInv'
  <2>1. request' = request /\ sent' = None /\ UNCHANGED <<routes, home>>
    BY <1>2 DEF disconnect, handleConnectorScoped, storeVars
  <2> QED BY <1>0, <2>1, OutsideStep
<1>3. ASSUME NEW x \in Resources, NEW i \in Instances, daemonCreates(x, i)
      PROVE  RoutingInv'
  <2>1. /\ request' = request /\ sent' = None /\ routes' = routes
        /\ home[x] = {} /\ home' = [home EXCEPT ![x] = {i}]
    BY <1>3 DEF daemonCreates, storeVars
  <2> QED BY <1>0, <2>1, OutsideStep
<1> QED BY <1>1, <1>2, <1>3

-----------------------------------------------------------------------------
(* The theorems.                                                           *)

\* The invariant holds initially.
LEMMA RoutingInit == Init => RoutingInv
BY IdleOK DEF Init, RoutingInv, SentWithinGrant, ReachesHolder

\* Every step preserves the invariant.
LEMMA RoutingNext == RoutingInv /\ [Next]_vars => RoutingInv'
<1> SUFFICES ASSUME RoutingInv, [Next]_vars
             PROVE  RoutingInv'
  OBVIOUS
<1>1. CASE \E r \in Requests : begin(r) \/ Continue(r)
  BY <1>1, BeginInv, LookupInv, DropInv, CandidatesInv, ProbeInv, SaveInv, ProxyInv,
     CaptureInv, LocateInv, StatusInv, ProjectSendInv DEF Continue
<1>2. CASE \/ \E c \in Connectors : \/ handleAdvertise(c) \/ disconnect(c)
                                    \/ handleConnectorScoped(c)
           \/ \E x \in Resources, i \in Instances : daemonCreates(x, i)
  BY <1>2, OutsideInv
<1>3. CASE UNCHANGED vars
  BY <1>3 DEF vars, storeVars, RoutingInv, SentWithinGrant, ReachesHolder
<1> QED BY <1>1, <1>2, <1>3 DEF Next

\* The invariant holds in every reachable state.
LEMMA RoutingAlways == Spec => []RoutingInv
BY RoutingInit, RoutingNext, PTL DEF Spec

\* Whatever the relay sends to an instance or a connector, probes and requests
\* by remembered routes included, its planner was granted: the scope of the
\* route, the instance or project, and a call that the connector lets through.
THEOREM StaysWithinGrant == Spec => []SentWithinGrant
<1>1. RoutingInv => SentWithinGrant
  BY DEF RoutingInv
<1> QED BY <1>1, RoutingAlways, PTL

\* A remembered route names an instance that holds the resource, and a request
\* for a step, a gate or an artifact is sent to one that does, whatever becomes
\* of routes, connectors and other requests while it is resolved.
THEOREM RequestsReachHolders == Spec => []ReachesHolder
<1>1. RoutingInv => ReachesHolder
  BY DEF RoutingInv
<1> QED BY <1>1, RoutingAlways, PTL

\* A planner who is told that a project is available at one location reaches
\* that one with every scope of the projects' routes that it has.
THEOREM AvailabilityIsTrue == Spec => []AvailableMeansReachable
<1>1. AvailableMeansReachable
  <2> SUFFICES ASSUME NEW who \in Principals, NEW p \in Projects,
                      NEW o \in handleResolvedProjectScoped,
                      Cardinality(projectPayloadByID(who, p).available) = 1,
                      scopeAllowed(Grants[who].scopes, o.scope)
               PROVE  {c \in {c \in locations(p) : authorizeProject(who, o.scope, c, p)} :
                         projectStatus(c) = "online"}
                        = projectPayloadByID(who, p).available
    BY DEF AvailableMeansReachable
  <2>1. projectPayloadByID(who, p).available
          = {c \in {c \in locations(p) : authorizeProject(who, <<"projects", "read">>, c, p)} :
               projectStatus(c) = "online"}
    BY DEF projectPayloadByID
  <2>2. projectPayloadByID(who, p).available # {}
    BY FS_EmptySet
  <2>3. scopeAllowed(Grants[who].scopes, <<"projects", "read">>)
    BY <2>1, <2>2 DEF authorizeProject, authorizePrincipal
  <2>4. \A c : authorizeProject(who, o.scope, c, p)
                 <=> authorizeProject(who, <<"projects", "read">>, c, p)
    BY <2>3 DEF authorizeProject, authorizePrincipal
  <2> QED BY <2>1, <2>4
<1> QED BY <1>1, PTL

=============================================================================
