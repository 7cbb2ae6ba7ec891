------------------------------ MODULE RelayHub ------------------------------
(***************************************************************************)
(* The relay's hub, the sessions connectors keep with it, and the requests *)
(* of planners that are sent through a session (internal/relay/hub.go,     *)
(* server.go, router.go; internal/connector/session.go).                   *)
(*                                                                         *)
(* A link is one websocket connection. The relay runs one goroutine per    *)
(* link, which reads `uplink'; the connector runs a read loop on           *)
(* `downlink' and a heartbeat loop. A request is one planner's HTTP        *)
(* request. Each action is one critical section or store call together     *)
(* with the computation up to the next one.                                *)
(***************************************************************************)
EXTENDS Naturals, Sequences, FiniteSets

CONSTANTS
  Connectors, Instances, Links, Requests,
  None,
  Shareable,   \* Shareable[c]: the instances on the machine of connector c
  Target,      \* Target[r]: the instance, or the connector of the project, r is for
  MaxQueue,    \* bound on the messages under way on a link
  MaxEvents    \* bound on what operators and time do to the system

ASSUME RelayHubConstants ==
  /\ Shareable \in [Connectors -> SUBSET Instances]
  /\ Target \in [Requests -> Instances \cup Connectors]
  /\ Instances \cap Connectors = {}
  /\ None \notin Connectors \cup Instances \cup Links \cup Requests
  /\ MaxQueue \in Nat \ {0}
  /\ MaxEvents \in Nat

VARIABLES
  sessions,    \* Hub.sessions: the link an instance is reached through
  connectors,  \* Hub.connectors: the link of a connector
  session,     \* the session of a link and its goroutine on the relay
  rows,        \* table instances: the connector an instance belongs to
  disabled,    \* the connectors whose row says disabled
  link,        \* state of the connection itself
  uplink, downlink,  \* messages to the relay, and to the connector
  client,      \* the connector process
  sharing,     \* what its configuration and its daemons let it share
  pending,     \* session.pending: the requests with a response channel
  channel,     \* the response in a request's channel
  request,     \* the handler of a planner's request
  handled,     \* what the connector did with a request
  events       \* the changes operators and time have made so far

hubVars     == <<sessions, connectors>>
storeVars   == <<rows, disabled>>
wireVars    == <<link, uplink, downlink>>
clientVars  == <<client, sharing, handled>>
requestVars == <<pending, channel, request>>
vars == <<hubVars, session, storeVars, wireVars, clientVars, requestVars, events>>

happens == /\ events < MaxEvents
           /\ events' = events + 1

-----------------------------------------------------------------------------
(* The hub *)

\* Touch: the session has been heard of.
Touch(s) == [session EXCEPT ![s].fresh = TRUE]

RegisterConnector(s, c) == connectors' = [connectors EXCEPT ![c] = s]

\* Register, for each of the advertised instances.
Register(s, ids) ==
  sessions' = [i \in Instances |-> IF i \in ids THEN s ELSE sessions[i]]

\* Remove does not look at whose entry it deletes.
Remove(ids) ==
  sessions' = [i \in Instances |-> IF i \in ids THEN None ELSE sessions[i]]

\* Mutant: only the connector's own entry is deleted.
RemoveSessionOfConnector(s) ==
  /\ connectors' = [c \in Connectors |->
                      IF connectors[c] = s THEN None ELSE connectors[c]]
  /\ UNCHANGED sessions

RemoveSession(s) ==
  /\ sessions' = [i \in Instances |->
                    IF sessions[i] = s THEN None ELSE sessions[i]]
  /\ connectors' = [c \in Connectors |->
                      IF connectors[c] = s THEN None ELSE connectors[c]]

\* The entries RemoveConnectorInstances deletes: those of the connector, or
\* all of them when the connector has no session.
dropsEntry(c, i) ==
  \/ sessions[i] = None
  \/ session[sessions[i]].connector = c
  \/ connectors[c] = None
  \/ sessions[i] = connectors[c]

\* RemoveConnectorInstances: the hub's entries, and the sets the sessions of
\* the connector keep of their own instances.
RemoveConnectorInstances(c, ids) ==
  sessions' = [i \in Instances |->
     IF i \in ids /\ dropsEntry(c, i) THEN None ELSE sessions[i]]

forgetInstances(c, ids) ==
  [s \in Links |->
     IF s = connectors[c] THEN [session[s] EXCEPT !.ids = @ \ ids]
     ELSE IF session[s].connector = c
     THEN [session[s] EXCEPT !.ids = @ \ {i \in ids : sessions[i] = s}]
     ELSE session[s]]

-----------------------------------------------------------------------------
(* The connector: connect, heartbeat, serve requests one at a time *)

NoClient == [link |-> None, advertised |-> {}, busy |-> None]

roomOn(s, n) == Len(uplink[s]) + n <= MaxQueue

advertise(c) == [type |-> "advertise", ids |-> sharing[c]]

\* runOnce up to its read loop: dial, hello, advertise. The relay has not
\* answered yet when the advertisement is written.
runOnce(c, s) ==
  /\ client[c].link = None
  /\ link[s] = "unused"
  /\ link' = [link EXCEPT ![s] = "up"]
  /\ uplink' = [uplink EXCEPT ![s] =
                  <<[type |-> "hello", connector |-> c], advertise(c)>>]
  /\ client' = [client EXCEPT ![c] =
                  [link |-> s, advertised |-> sharing[c], busy |-> None]]
  /\ UNCHANGED <<hubVars, session, storeVars, downlink, sharing, handled, requestVars, events>>

\* One tick of heartbeatLoop: a fresh advertisement if the set has changed,
\* and a heartbeat.
heartbeatLoop(c) ==
  LET s == client[c].link
      beat == [type |-> "heartbeat"]
      changed == sharing[c] # client[c].advertised
      msgs == IF changed THEN <<advertise(c), beat>> ELSE <<beat>> IN
  /\ s # None
  /\ link[s] = "up"
  /\ uplink[s] = <<>> \* the interval is longer than a message is under way
  /\ roomOn(s, Len(msgs))
  /\ uplink' = [uplink EXCEPT ![s] = @ \o msgs]
  /\ client' = [client EXCEPT ![c].advertised = sharing[c]]
  /\ UNCHANGED <<hubVars, session, storeVars, link, downlink, sharing, handled, requestVars, events>>

\* The operator shares or unshares, or a shared daemon starts or stops.
shareInstances(c) ==
  \E ids \in SUBSET Shareable[c] :
    /\ ids # sharing[c]
    /\ sharing' = [sharing EXCEPT ![c] = ids]
    /\ happens
    /\ UNCHANGED <<hubVars, session, storeVars, wireVars, client, handled, requestVars>>

\* The read loop takes a request; handleRequest resolves the instance and
\* calls the daemon, or refuses.
handleRequest(c) ==
  LET s == client[c].link IN
  /\ s # None
  /\ client[c].busy = None
  /\ downlink[s] # <<>>
  /\ LET r == Head(downlink[s])
         shared == Target[r] \in Connectors \/ Target[r] \in sharing[c] IN
     /\ handled' = [handled EXCEPT ![r] = IF shared THEN "ran" ELSE "refused"]
     /\ client' = [client EXCEPT ![c].busy = r]
     /\ downlink' = [downlink EXCEPT ![s] = Tail(@)]
  /\ UNCHANGED <<hubVars, session, storeVars, link, uplink, sharing, requestVars, events>>

\* Mutant: the request is answered twice.
writeResponseTwice(c) ==
  LET s == client[c].link
      r == client[c].busy
      response == [type |-> "response", id |-> r, how |-> handled[r]] IN
  /\ s # None
  /\ r # None
  /\ roomOn(s, 2)
  /\ uplink' = [uplink EXCEPT ![s] = @ \o <<response, response>>]
  /\ client' = [client EXCEPT ![c].busy = None]
  /\ UNCHANGED <<hubVars, session, storeVars, link, downlink, sharing, handled, requestVars, events>>

writeResponse(c) ==
  LET s == client[c].link
      r == client[c].busy IN
  /\ s # None
  /\ r # None
  /\ roomOn(s, 1)
  /\ uplink' = [uplink EXCEPT ![s] =
                  Append(@, [type |-> "response", id |-> r, how |-> handled[r]])]
  /\ client' = [client EXCEPT ![c].busy = None]
  /\ UNCHANGED <<hubVars, session, storeVars, link, downlink, sharing, handled, requestVars, events>>

\* The connection breaks; runOnce returns and Run dials again. What had been
\* sent to the connector is lost, what it sent may still be read.
connectionLost(s) ==
  /\ link[s] = "up"
  /\ link' = [link EXCEPT ![s] = "down"]
  /\ downlink' = [downlink EXCEPT ![s] = <<>>]
  /\ client' = [c \in Connectors |->
                  IF client[c].link = s THEN NoClient ELSE client[c]]
  /\ UNCHANGED <<hubVars, session, storeVars, uplink, sharing, handled, requestVars, events>>

-----------------------------------------------------------------------------
(* The relay's goroutine of a link *)

NoSession == [pc |-> "unused", connector |-> None, ids |-> {}, next |-> {},
              pruned |-> {}, fresh |-> FALSE, answer |-> None]

ended(s) ==
  [session EXCEPT ![s] = [NoSession EXCEPT !.pc = "closed",
                                           !.connector = session[s].connector]]

received(s, pc, type) ==
  /\ session[s].pc = pc
  /\ uplink[s] # <<>>
  /\ Head(uplink[s]).type = type
  /\ uplink' = [uplink EXCEPT ![s] = Tail(@)]

\* Hello: VerifyHello refuses a disabled connector; a session of the same
\* connector that is still open stays open.
handleConnectorWebSocket(s) ==
  LET c == Head(uplink[s]).connector IN
  /\ received(s, "unused", "hello")
  /\ \/ /\ c \notin disabled
        /\ session' = [session EXCEPT ![s] =
             [NoSession EXCEPT !.pc = "reading", !.connector = c, !.fresh = TRUE]]
        /\ RegisterConnector(s, c)
        /\ UNCHANGED <<link, downlink, client>>
     \/ /\ c \in disabled
        /\ session' = ended(s)
        /\ link' = [link EXCEPT ![s] = "down"]
        /\ downlink' = [downlink EXCEPT ![s] = <<>>]
        /\ client' = [k \in Connectors |->
                        IF client[k].link = s THEN NoClient ELSE client[k]]
        /\ UNCHANGED connectors
  /\ UNCHANGED <<sessions, storeVars, sharing, handled, requestVars, events>>

\* handleAdvertise registers the instances while it reads the message ...
handleAdvertise(s) ==
  LET ids == Head(uplink[s]).ids IN
  /\ received(s, "reading", "advertise")
  /\ Register(s, ids)
  /\ session' = [Touch(s) EXCEPT ![s].pc = "registered", ![s].next = ids]
  /\ UNCHANGED <<connectors, storeVars, link, downlink, clientVars, requestVars, events>>

\* ... then replaces the rows of the connector, which gives the pruned ones ...
ReplaceConnectorInstances(s) ==
  LET c == session[s].connector
      old == {i \in Instances : rows[i] = c} \ session[s].next IN
  /\ session[s].pc = "registered"
  /\ rows' = [i \in Instances |-> IF i \in session[s].next THEN c
                                  ELSE IF i \in old THEN None ELSE rows[i]]
  /\ session' = [session EXCEPT ![s].pc = "stored", ![s].pruned = old]
  /\ UNCHANGED <<hubVars, disabled, wireVars, clientVars, requestVars, events>>

\* ... whose hub entries it removes ...
removePruned(s) ==
  LET c == session[s].connector IN
  /\ session[s].pc = "stored"
  /\ RemoveConnectorInstances(c, session[s].pruned)
  /\ session' = [forgetInstances(c, session[s].pruned) EXCEPT ![s].pc = "pruned"]
  /\ UNCHANGED <<connectors, storeVars, wireVars, clientVars, requestVars, events>>

\* ... and then those of the instances the session no longer advertises.
finishAdvertise(s) ==
  /\ session[s].pc = "pruned"
  /\ Remove(session[s].ids \ session[s].next)
  /\ session' = [session EXCEPT ![s].pc = "reading", ![s].ids = session[s].next,
                                ![s].next = {}, ![s].pruned = {}]
  /\ UNCHANGED <<connectors, storeVars, wireVars, clientVars, requestVars, events>>

\* An advertised instance or project is malformed, or the store fails: the
\* handler returns with some instances registered.
advertiseFails(s) ==
  /\ session[s].pc = "registered"
  /\ RemoveSession(s)
  /\ session' = ended(s)
  /\ link' = [link EXCEPT ![s] = "down"]
  /\ downlink' = [downlink EXCEPT ![s] = <<>>]
  /\ client' = [c \in Connectors |->
                  IF client[c].link = s THEN NoClient ELSE client[c]]
  /\ UNCHANGED <<storeVars, uplink, sharing, handled, requestVars, events>>

handleHeartbeat(s) ==
  /\ received(s, "reading", "heartbeat")
  /\ session' = Touch(s)
  /\ UNCHANGED <<hubVars, storeVars, link, downlink, clientVars, requestVars, events>>

\* Mutant: responses are not matched by id.
channelOfAny(s, r) == IF pending[s] = {} THEN None ELSE CHOOSE q \in pending[s] : TRUE

\* handleMessage finds the channel of the request under the lock ...
channelOf(s, r) == IF r \in pending[s] THEN r ELSE None

handleMessage(s) ==
  LET response == Head(uplink[s])
      ch == channelOf(s, response.id) IN
  /\ received(s, "reading", "response")
  /\ session' = IF ch = None THEN session
                ELSE [session EXCEPT ![s].pc = "delivering",
                                     ![s].answer = [to |-> ch, how |-> response.how]]
  /\ UNCHANGED <<hubVars, storeVars, link, downlink, clientVars, requestVars, events>>

\* ... and sends to it after the unlock; a full channel blocks the goroutine.
deliver(s) ==
  LET answer == session[s].answer IN
  /\ session[s].pc = "delivering"
  /\ channel[answer.to] = "empty"
  /\ channel' = [channel EXCEPT ![answer.to] = answer.how]
  /\ session' = [session EXCEPT ![s].pc = "reading", ![s].answer = None]
  /\ UNCHANGED <<hubVars, storeVars, wireVars, clientVars, pending, request, events>>

\* ReadMessage fails on a broken connection; the deferred calls run.
readFails(s) ==
  /\ session[s].pc \in {"unused", "reading"}
  /\ link[s] = "down"
  /\ RemoveSession(s)
  /\ session' = ended(s)
  /\ uplink' = [uplink EXCEPT ![s] = <<>>]
  /\ UNCHANGED <<storeVars, link, downlink, clientVars, requestVars, events>>

\* Nothing has been heard of the session for longer than sessionTTL.
sessionTTL(s) ==
  /\ session[s].fresh
  /\ session' = [session EXCEPT ![s].fresh = FALSE]
  /\ happens
  /\ UNCHANGED <<hubVars, storeVars, wireVars, clientVars, requestVars>>

-----------------------------------------------------------------------------
(* A planner's request *)

toProject(r) == Target[r] \in Connectors

\* The connector whose row decides whether the request may be sent.
owner(r) == IF toProject(r) THEN Target[r] ELSE rows[Target[r]]

finish(r, why) ==
  request' = [request EXCEPT ![r] = [pc |-> "done", sess |-> None, got |-> why]]

\* proxyRequest and proxyProjectRequest up to the look-up of the session.
proxyRequest(r) ==
  /\ request[r].pc = "idle"
  /\ \/ /\ owner(r) = None
        /\ finish(r, "failed")
     \/ /\ owner(r) \in disabled
        /\ finish(r, "failed")
     \/ /\ owner(r) \in Connectors \ disabled
        /\ request' = [request EXCEPT ![r].pc = "lookup"]
  /\ UNCHANGED <<hubVars, session, storeVars, wireVars, clientVars, pending, channel, events>>

\* Hub.Get and Hub.Connector: the entry is read under the read lock, its age
\* is judged after the unlock.
Get(r) ==
  LET s == IF toProject(r) THEN connectors[Target[r]] ELSE sessions[Target[r]] IN
  /\ request[r].pc = "lookup"
  /\ \/ /\ s = None
        /\ finish(r, "failed")
     \/ /\ s # None
        /\ ~session[s].fresh
        /\ request' = [request EXCEPT ![r].pc = "expiring", ![r].sess = s]
     \/ /\ s # None
        /\ session[s].fresh
        /\ request' = [request EXCEPT ![r].pc = "sending", ![r].sess = s]
  /\ UNCHANGED <<hubVars, session, storeVars, wireVars, clientVars, pending, channel, events>>

\* Get removes by instance, Connector by session.
removeExpired(r) ==
  /\ request[r].pc = "expiring"
  /\ \/ /\ ~toProject(r)
        /\ Remove({Target[r]})
        /\ UNCHANGED connectors
     \/ /\ toProject(r)
        /\ RemoveSession(request[r].sess)
  /\ finish(r, "failed")
  /\ UNCHANGED <<session, storeVars, wireVars, clientVars, pending, channel, events>>

\* proxy: the channel is registered before the request is sent. On a broken
\* connection the write fails, or succeeds into nowhere.
proxy(r) ==
  LET s == request[r].sess IN
  /\ request[r].pc = "sending"
  /\ \/ /\ link[s] = "up"
        /\ downlink' = [downlink EXCEPT ![s] = Append(@, r)]
        /\ pending' = [pending EXCEPT ![s] = @ \cup {r}]
        /\ request' = [request EXCEPT ![r].pc = "waiting"]
     \/ /\ link[s] = "down"
        /\ pending' = [pending EXCEPT ![s] = @ \cup {r}]
        /\ request' = [request EXCEPT ![r].pc = "waiting"]
        /\ UNCHANGED downlink
     \/ /\ link[s] = "down"
        /\ finish(r, "failed")
        /\ UNCHANGED <<pending, downlink>>
  /\ UNCHANGED <<hubVars, session, storeVars, link, uplink, clientVars, channel, events>>

\* The select of proxy, and its deferred delete.
receiveResponse(r) ==
  /\ request[r].pc = "waiting"
  /\ channel[r] # "empty"
  /\ finish(r, channel[r])
  /\ channel' = [channel EXCEPT ![r] = "empty"]
  /\ pending' = [pending EXCEPT ![request[r].sess] = @ \ {r}]
  /\ UNCHANGED <<hubVars, session, storeVars, wireVars, clientVars, events>>

proxyTimeout(r) ==
  /\ request[r].pc = "waiting"
  /\ finish(r, "failed")
  /\ pending' = [pending EXCEPT ![request[r].sess] = @ \ {r}]
  /\ UNCHANGED <<hubVars, session, storeVars, wireVars, clientVars, channel, events>>

\* handleConnectorScoped: an administrator disables or enables a connector.
SetConnectorDisabled(c) ==
  /\ \/ disabled' = disabled \cup {c}
     \/ disabled' = disabled \ {c}
  /\ disabled' # disabled
  /\ happens
  /\ UNCHANGED <<hubVars, session, rows, wireVars, clientVars, requestVars>>

-----------------------------------------------------------------------------

Init ==
  /\ sessions = [i \in Instances |-> None]
  /\ connectors = [c \in Connectors |-> None]
  /\ session = [s \in Links |-> NoSession]
  /\ rows = [i \in Instances |-> None]
  /\ disabled = {}
  /\ link = [s \in Links |-> "unused"]
  /\ uplink = [s \in Links |-> <<>>]
  /\ downlink = [s \in Links |-> <<>>]
  /\ client = [c \in Connectors |-> NoClient]
  /\ sharing = Shareable
  /\ pending = [s \in Links |-> {}]
  /\ channel = [r \in Requests |-> "empty"]
  /\ request = [r \in Requests |->
                  [pc |-> "idle", sess |-> None, got |-> "nothing"]]
  /\ handled = [r \in Requests |-> "no"]
  /\ events = 0

relayStep(s) ==
  \/ handleConnectorWebSocket(s) \/ handleAdvertise(s)
  \/ ReplaceConnectorInstances(s) \/ removePruned(s) \/ finishAdvertise(s)
  \/ handleHeartbeat(s) \/ handleMessage(s) \/ deliver(s) \/ readFails(s)

requestStep(r) ==
  \/ Get(r) \/ removeExpired(r) \/ proxy(r) \/ receiveResponse(r) \/ proxyTimeout(r)

Next ==
  \/ \E s \in Links : relayStep(s) \/ advertiseFails(s) \/ connectionLost(s) \/ sessionTTL(s)
  \/ \E r \in Requests : proxyRequest(r) \/ requestStep(r)
  \/ \E c \in Connectors :
       \/ heartbeatLoop(c) \/ shareInstances(c)
       \/ handleRequest(c) \/ writeResponse(c) \/ SetConnectorDisabled(c)
       \/ \E s \in Links : runOnce(c, s)

Spec == Init /\ [][Next]_vars

-----------------------------------------------------------------------------
(* Properties *)

Outcomes == {"nothing", "failed", "ran", "refused"}

\* The tables, queues and program counters of the hub and of its callers.
TypeOK ==
  /\ sessions \in [Instances -> Links \cup {None}]
  /\ connectors \in [Connectors -> Links \cup {None}]
  /\ rows \in [Instances -> Connectors \cup {None}]
  /\ disabled \subseteq Connectors
  /\ link \in [Links -> {"unused", "up", "down"}]
  /\ sharing \in [Connectors -> SUBSET Instances]
  /\ pending \in [Links -> SUBSET Requests]
  /\ channel \in [Requests -> {"empty", "ran", "refused"}]
  /\ handled \in [Requests -> {"no", "ran", "refused"}]
  /\ \A s \in Links :
       /\ session[s].pc \in {"unused", "reading", "registered", "stored", "pruned",
                             "delivering", "closed"}
       /\ session[s].connector \in Connectors \cup {None}
       /\ Len(uplink[s]) <= MaxQueue
  /\ \A r \in Requests :
       /\ request[r].pc \in {"idle", "lookup", "expiring", "sending", "waiting", "done"}
       /\ request[r].got \in Outcomes

\* The hub never routes to a session that has ended: whatever the order of
\* reconnection, advertisement, failure and expiry, a session's deferred
\* RemoveSession leaves no entry of it behind.
RoutedSessionIsOpen ==
  /\ \A i \in Instances : sessions[i] # None => session[sessions[i]].pc # "closed"
  /\ \A c \in Connectors : connectors[c] # None => session[connectors[c]].pc # "closed"

\* The goroutine that reads a link is never stuck in the delivery of a
\* response, however late the response is: the channel it has looked up has
\* room, although the request may have timed out since.
DeliveryNeverBlocks ==
  \A s \in Links :
    session[s].pc = "delivering" => channel[session[s].answer.to] = "empty"

\* As docs/design/v2_relay_contracts.md has it, heartbeats update presence: an
\* instance which a live session has advertised, and of which the relay has
\* heard within the TTL, is routed.
HeartbeatKeepsPresence ==
  \A s \in Links :
    /\ session[s].pc = "reading"
    /\ session[s].fresh
    /\ link[s] = "up"
    => \A i \in session[s].ids : sessions[i] # None

\* What the caller of a request has been told.
told(r) ==
  CASE request[r].pc = "idle" -> "idle"
    [] request[r].pc = "done" -> request[r].got
    [] OTHER -> "open"

Call == INSTANCE RemoteCall WITH Calls <- Requests, handled <- handled,
                                 result <- [r \in Requests |-> told(r)]

\* A request through the hub is a RemoteCall: proxy returns once, with what the
\* connector did for this request or with an error, whichever session carried
\* it and whatever responses arrive late (hub.go proxy, handleMessage).
ImplementsRemoteCall == Call!Spec
=============================================================================
