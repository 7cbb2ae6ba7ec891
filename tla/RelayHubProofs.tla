--------------------------- MODULE RelayHubProofs ---------------------------
(***************************************************************************)
(* Theorems about RelayHub for any number of connectors, instances, links  *)
(* and requests, and for queues of any length.                             *)
(*                                                                         *)
(* RoutedSessionIsOpen rests on an entry of the hub naming a session that  *)
(* has said hello and has not ended. DeliveryNeverBlocks and the           *)
(* refinement rest on one fact: a request is in at most one place, the     *)
(* queue to the connector, the connector, the queue back, the goroutine    *)
(* that delivers, or its channel, and its answer is what was done with it. *)
(***************************************************************************)
EXTENDS RelayHub, TLAPS

Answers == {"ran", "refused"}

Messages == UNION {[type : {"hello"}, connector : Connectors],
                   [type : {"advertise"}, ids : SUBSET Instances],
                   [type : {"heartbeat"}],
                   [type : {"response"}, id : Requests, how : Answers]}

SessionRecords ==
  [pc : {"unused", "reading", "registered", "stored", "pruned", "delivering", "closed"},
   connector : Connectors \cup {None}, ids : SUBSET Instances, next : SUBSET Instances,
   pruned : SUBSET Instances, fresh : BOOLEAN,
   answer : {None} \cup [to : Requests, how : Answers]]

ClientRecords == [link : Links \cup {None}, advertised : SUBSET Instances,
                  busy : Requests \cup {None}]

RequestRecords == [pc : {"idle", "lookup", "expiring", "sending", "waiting", "done"},
                   sess : Links \cup {None}, got : Outcomes]

\* TypeOK with the records and the messages spelled out.
HubTypeOK ==
  /\ sessions \in [Instances -> Links \cup {None}]
  /\ connectors \in [Connectors -> Links \cup {None}]
  /\ session \in [Links -> SessionRecords]
  /\ uplink \in [Links -> Seq(Messages)]
  /\ downlink \in [Links -> Seq(Requests)]
  /\ client \in [Connectors -> ClientRecords]
  /\ sharing \in [Connectors -> SUBSET Instances]
  /\ channel \in [Requests -> Answers \cup {"empty"}]
  /\ handled \in [Requests -> Answers \cup {"no"}]
  /\ request \in [Requests -> RequestRecords]
  /\ \A r \in Requests : request[r].pc \in {"expiring", "sending", "waiting"} =>
                           request[r].sess \in Links

\* A session the hub has an entry for.
Routed(s) == \/ \E i \in Instances : sessions[i] = s
             \/ \E c \in Connectors : connectors[c] = s

RoutedIsGreeted ==
  \A s \in Links : Routed(s) => session[s].pc \notin {"unused", "closed"}

-----------------------------------------------------------------------------
(* Where a request can be *)

Early == {"idle", "lookup", "expiring", "sending"}

InDown(s, k, r) == k \in 1 .. Len(downlink[s]) /\ downlink[s][k] = r
Busy(c, r) == client[c].busy = r
InUp(s, k, r) == /\ k \in 1 .. Len(uplink[s])
                 /\ uplink[s][k].type = "response"
                 /\ uplink[s][k].id = r
Delivering(s, r) == session[s].pc = "delivering" /\ session[s].answer.to = r
InChannel(r) == channel[r] # "empty"

\* On its way to the connector a request has not been handled, and is sent once.
DownOnce(r) ==
  \A s \in Links, k \in Nat : InDown(s, k, r) =>
    /\ handled[r] = "no" /\ request[r].pc \notin Early
    /\ \A t \in Links, l \in Nat : InDown(t, l, r) => t = s /\ l = k

\* An early request has been handled by nobody.
EarlyUnhandled(r) == request[r].pc \in Early => handled[r] = "no"

\* From the connector on, what travels is what was done.
TellsTruth(r) ==
  /\ \A c \in Connectors : Busy(c, r) => handled[r] \in Answers
  /\ \A s \in Links, k \in Nat : InUp(s, k, r) =>
       handled[r] \in Answers /\ uplink[s][k].how = handled[r]
  /\ \A s \in Links : Delivering(s, r) =>
       handled[r] \in Answers /\ session[s].answer.how = handled[r]
  /\ InChannel(r) => channel[r] = handled[r]

\* And it is in one place.
OnePlace(r) ==
  /\ \A c \in Connectors : Busy(c, r) =>
       /\ \A d \in Connectors : Busy(d, r) => d = c
       /\ \A s \in Links, k \in Nat : ~InUp(s, k, r)
       /\ \A s \in Links : ~Delivering(s, r)
       /\ ~InChannel(r)
  /\ \A s \in Links, k \in Nat : InUp(s, k, r) =>
       /\ \A t \in Links, l \in Nat : InUp(t, l, r) => t = s /\ l = k
       /\ \A t \in Links : ~Delivering(t, r)
       /\ ~InChannel(r)
  /\ \A s \in Links : Delivering(s, r) =>
       /\ \A t \in Links : Delivering(t, r) => t = s
       /\ ~InChannel(r)

OneCopyOf(r) == DownOnce(r) /\ EarlyUnhandled(r) /\ TellsTruth(r) /\ OnePlace(r)

DeliveringTyped ==
  \A s \in Links : session[s].pc = "delivering" =>
                     session[s].answer \in [to : Requests, how : Answers]

OneCopy == \A r \in Requests : OneCopyOf(r)

HubInv == HubTypeOK /\ RoutedIsGreeted /\ DeliveringTyped /\ OneCopy

-----------------------------------------------------------------------------
(* Queues and records *)

\* What is taken off a queue, and what stays on it.
LEMMA HeadAndTail ==
  ASSUME NEW S, NEW q \in Seq(S), q # <<>>
  PROVE  /\ Head(q) \in S /\ Head(q) = q[1] /\ Len(q) \in Nat \ {0}
         /\ Tail(q) \in Seq(S) /\ Len(Tail(q)) = Len(q) - 1
         /\ \A k \in 1 .. Len(q) - 1 : Tail(q)[k] = q[k + 1]
OBVIOUS

\* What a queue is after something was put on it.
LEMMA Appended ==
  ASSUME NEW S, NEW q \in Seq(S), NEW x \in S
  PROVE  /\ Append(q, x) \in Seq(S) /\ Len(Append(q, x)) = Len(q) + 1 /\ Len(q) \in Nat
         /\ Append(q, x)[Len(q) + 1] = x
         /\ \A k \in 1 .. Len(q) : Append(q, x)[k] = q[k]
OBVIOUS

\* The fields of a message by its type.
LEMMA MessageFields ==
  ASSUME NEW m \in Messages
  PROVE  /\ m.type = "hello" => m.connector \in Connectors
         /\ m.type = "advertise" => m.ids \in SUBSET Instances
         /\ m.type = "response" => m.id \in Requests /\ m.how \in Answers
BY DEF Messages

\* The messages a connector sends are messages.
LEMMA MessagesTyped ==
  /\ \A c \in Connectors : [type |-> "hello", connector |-> c] \in Messages
  /\ \A ids \in SUBSET Instances : [type |-> "advertise", ids |-> ids] \in Messages
  /\ [type |-> "heartbeat"] \in Messages
  /\ \A r \in Requests, how \in Answers :
       [type |-> "response", id |-> r, how |-> how] \in Messages
BY DEF Messages

\* None is no value of the model.
LEMMA NoneIsNone ==
  None \notin Connectors /\ None \notin Instances /\ None \notin Links /\ None \notin Requests
BY RelayHubConstants

\* The records of a session that has not begun, has greeted or has ended.
LEMMA NoSessionTyped ==
  /\ NoSession \in SessionRecords
  /\ \A c \in Connectors :
       [NoSession EXCEPT !.pc = "reading", !.connector = c, !.fresh = TRUE] \in SessionRecords
  /\ \A c \in Connectors \cup {None} :
       [NoSession EXCEPT !.pc = "closed", !.connector = c] \in SessionRecords
BY DEF NoSession, SessionRecords

\* The record of a connector that is not connected.
LEMMA NoClientTyped == NoClient \in ClientRecords /\ NoClient.busy = None
BY DEF NoClient, ClientRecords

-----------------------------------------------------------------------------
(* Types *)

\* The end of a link on either side.
lostClients(s) == [c \in Connectors |-> IF client[c].link = s THEN NoClient ELSE client[c]]

\* The end of a session keeps the records typed.
LEMMA EndedTyped ==
  ASSUME HubTypeOK, NEW s \in Links
  PROVE  /\ ended(s) \in [Links -> SessionRecords]
         /\ lostClients(s) \in [Connectors -> ClientRecords]
         /\ [downlink EXCEPT ![s] = <<>>] \in [Links -> Seq(Requests)]
         /\ [uplink EXCEPT ![s] = <<>>] \in [Links -> Seq(Messages)]
<1>1. session[s].connector \in Connectors \cup {None}
  BY DEF HubTypeOK, SessionRecords
<1>2. ended(s) \in [Links -> SessionRecords]
  BY <1>1, NoSessionTyped DEF ended, HubTypeOK
<1>3. lostClients(s) \in [Connectors -> ClientRecords]
  BY NoClientTyped DEF lostClients, HubTypeOK
<1> QED BY <1>2, <1>3 DEF HubTypeOK

\* RemoveSession and its kin only take entries out.
LEMMA RemovedTyped ==
  ASSUME HubTypeOK, NEW s \in Links, RemoveSession(s)
  PROVE  /\ sessions' \in [Instances -> Links \cup {None}]
         /\ connectors' \in [Connectors -> Links \cup {None}]
BY DEF HubTypeOK, RemoveSession

\* A message has been taken off the uplink.
LEMMA ReceivedTyped ==
  ASSUME HubTypeOK, NEW s \in Links, NEW pc, NEW type, received(s, pc, type)
  PROVE  /\ Head(uplink[s]) \in Messages
         /\ uplink' \in [Links -> Seq(Messages)]
BY HeadAndTail DEF HubTypeOK, received

\* A connector's steps keep the state typed.
LEMMA ConnectorTypes ==
  ASSUME HubInv, NEW c \in Connectors,
         \/ heartbeatLoop(c) \/ shareInstances(c) \/ handleRequest(c) \/ writeResponse(c)
         \/ SetConnectorDisabled(c) \/ \E s \in Links : runOnce(c, s)
  PROVE  HubTypeOK'
<1> USE DEF HubInv, hubVars, storeVars, wireVars, clientVars, requestVars
<1>0. /\ client[c] \in ClientRecords /\ sharing[c] \in SUBSET Instances
      /\ advertise(c) \in Messages
  BY MessagesTyped DEF HubTypeOK, advertise
<1>1. CASE heartbeatLoop(c)
  <2> DEFINE s == client[c].link
  <2>1. s \in Links /\ uplink[s] \in Seq(Messages)
    BY <1>0, <1>1 DEF heartbeatLoop, ClientRecords, HubTypeOK
  <2> DEFINE beat == [type |-> "heartbeat"]
             msgs == IF sharing[c] # client[c].advertised THEN <<advertise(c), beat>> ELSE <<beat>>
  <2>2. msgs \in Seq(Messages) /\ uplink' = [uplink EXCEPT ![s] = uplink[s] \o msgs]
    <3>1. uplink' = [uplink EXCEPT ![s] = uplink[s] \o msgs]
      BY <1>1 DEF heartbeatLoop
    <3>2. beat \in Messages
      BY MessagesTyped
    <3> HIDE DEF beat
    <3>3. <<advertise(c), beat>> \in Seq(Messages) /\ <<beat>> \in Seq(Messages)
      BY <1>0, <3>2
    <3> QED BY <3>1, <3>3
  <2> HIDE DEF msgs
  <2>3. uplink[s] \o msgs \in Seq(Messages)
    BY <2>1, <2>2
  <2>4. uplink' \in [Links -> Seq(Messages)]
    BY <2>2, <2>3 DEF HubTypeOK
  <2>5. client' = [client EXCEPT ![c] = [client[c] EXCEPT !.advertised = sharing[c]]]
    BY <1>1 DEF heartbeatLoop
  <2>6. [client[c] EXCEPT !.advertised = sharing[c]] \in ClientRecords
    BY <1>0 DEF ClientRecords
  <2>7. client' \in [Connectors -> ClientRecords]
    BY <2>5, <2>6 DEF HubTypeOK
  <2> QED BY <1>1, <2>4, <2>7 DEF heartbeatLoop, HubTypeOK
<1>2. CASE shareInstances(c)
  <2>1. sharing' \in [Connectors -> SUBSET Instances]
    <3>1. PICK ids \in SUBSET Shareable[c] : sharing' = [sharing EXCEPT ![c] = ids]
      BY <1>2 DEF shareInstances
    <3>2. ids \in SUBSET Instances
      BY RelayHubConstants
    <3> QED BY <3>1, <3>2 DEF HubTypeOK
  <2> QED BY <1>2, <2>1 DEF shareInstances, HubTypeOK
<1>3. CASE handleRequest(c)
  <2> DEFINE s == client[c].link
             r == Head(downlink[s])
  <2>1. s \in Links /\ downlink[s] \in Seq(Requests) /\ downlink[s] # <<>>
    BY <1>0, <1>3 DEF handleRequest, ClientRecords, HubTypeOK
  <2>2. r \in Requests /\ Tail(downlink[s]) \in Seq(Requests)
    BY <2>1, HeadAndTail
  <2>3. downlink' \in [Links -> Seq(Requests)]
    BY <1>3, <2>2 DEF handleRequest, HubTypeOK
  <2>4. handled' \in [Requests -> Answers \cup {"no"}]
    BY <1>3 DEF handleRequest, HubTypeOK, Answers
  <2>5. client' = [client EXCEPT ![c] = [client[c] EXCEPT !.busy = r]]
    BY <1>3 DEF handleRequest
  <2>6. [client[c] EXCEPT !.busy = r] \in ClientRecords
    BY <1>0, <2>2 DEF ClientRecords
  <2>7. client' \in [Connectors -> ClientRecords]
    BY <2>5, <2>6 DEF HubTypeOK
  <2> QED BY <1>3, <2>3, <2>4, <2>7 DEF handleRequest, HubTypeOK
<1>4. CASE writeResponse(c)
  <2> DEFINE s == client[c].link
             r == client[c].busy
  <2>1. s \in Links /\ r \in Requests /\ uplink[s] \in Seq(Messages)
    BY <1>0, <1>4 DEF writeResponse, ClientRecords, HubTypeOK
  <2>2. handled[r] \in Answers
    BY <2>1 DEF OneCopy, OneCopyOf, TellsTruth, Busy
  <2>3. Append(uplink[s], [type |-> "response", id |-> r, how |-> handled[r]]) \in Seq(Messages)
    BY <2>1, <2>2, MessagesTyped, Appended
  <2>4. uplink' \in [Links -> Seq(Messages)]
    BY <1>4, <2>3 DEF writeResponse, HubTypeOK
  <2>5. client' = [client EXCEPT ![c] = [client[c] EXCEPT !.busy = None]]
    BY <1>4 DEF writeResponse
  <2>6. [client[c] EXCEPT !.busy = None] \in ClientRecords
    BY <1>0 DEF ClientRecords
  <2>7. client' \in [Connectors -> ClientRecords]
    BY <2>5, <2>6 DEF HubTypeOK
  <2> QED BY <1>4, <2>4, <2>7 DEF writeResponse, HubTypeOK
<1>5. CASE SetConnectorDisabled(c)
  BY <1>5 DEF SetConnectorDisabled, HubTypeOK
<1>6. CASE \E s \in Links : runOnce(c, s)
  <2>1. PICK s \in Links : runOnce(c, s)
    BY <1>6
  <2>2. <<[type |-> "hello", connector |-> c], advertise(c)>> \in Seq(Messages)
    BY <1>0, MessagesTyped
  <2>3. [link |-> s, advertised |-> sharing[c], busy |-> None] \in ClientRecords
    BY <1>0 DEF ClientRecords
  <2>4. uplink' \in [Links -> Seq(Messages)]
    BY <2>1, <2>2 DEF runOnce, HubTypeOK
  <2>5. client' \in [Connectors -> ClientRecords]
    BY <2>1, <2>3 DEF runOnce, HubTypeOK
  <2> QED BY <2>1, <2>4, <2>5 DEF runOnce, HubTypeOK
<1> QED BY <1>1, <1>2, <1>3, <1>4, <1>5, <1>6

\* The steps of a link's reader keep the state typed.
LEMMA LinkTypes ==
  ASSUME HubInv, NEW s \in Links,
         relayStep(s) \/ advertiseFails(s) \/ connectionLost(s) \/ sessionTTL(s)
  PROVE  HubTypeOK'
<1> USE DEF HubInv, hubVars, storeVars, wireVars, clientVars, requestVars
<1>0. session[s] \in SessionRecords
  BY DEF HubTypeOK
<1>1. CASE handleConnectorWebSocket(s)
  <2> DEFINE c == Head(uplink[s]).connector
             q == [NoSession EXCEPT !.pc = "reading", !.connector = c, !.fresh = TRUE]
  <2>1. c \in Connectors /\ uplink' \in [Links -> Seq(Messages)]
    BY <1>1, ReceivedTyped, MessageFields DEF handleConnectorWebSocket, received
  <2>2. CASE c \notin disabled
    <3>1. session' = [session EXCEPT ![s] = q] /\ connectors' = [connectors EXCEPT ![c] = s]
      BY <1>1, <2>2 DEF handleConnectorWebSocket, RegisterConnector
    <3>2. q \in SessionRecords
      BY <2>1, NoSessionTyped
    <3> HIDE DEF q, c
    <3>3. /\ session' \in [Links -> SessionRecords]
          /\ connectors' \in [Connectors -> Links \cup {None}]
      BY <3>1, <3>2 DEF HubTypeOK
    <3>4. UNCHANGED <<downlink, client, sessions, sharing, handled, channel, request>>
      BY <1>1, <2>2 DEF handleConnectorWebSocket, c
    <3> QED BY <2>1, <3>3, <3>4 DEF HubTypeOK
  <2>3. CASE c \in disabled
    <3>1. /\ session' = ended(s) /\ client' = lostClients(s)
          /\ downlink' = [downlink EXCEPT ![s] = <<>>]
          /\ UNCHANGED <<connectors, sessions, sharing, handled, channel, request>>
      BY <1>1, <2>3 DEF handleConnectorWebSocket, lostClients
    <3> QED BY <2>1, <3>1, EndedTyped DEF HubTypeOK
  <2> QED BY <2>2, <2>3
<1>2. CASE handleAdvertise(s)
  <2> DEFINE ids == Head(uplink[s]).ids
             q == [session[s] EXCEPT !.fresh = TRUE, !.pc = "registered", !.next = ids]
  <2>1. ids \in SUBSET Instances /\ uplink' \in [Links -> Seq(Messages)]
    BY <1>2, ReceivedTyped, MessageFields DEF handleAdvertise, received
  <2>2. session' = [session EXCEPT ![s] = q]
    BY <1>2 DEF handleAdvertise, Touch, HubTypeOK
  <2>3. q \in SessionRecords
    BY <1>0, <2>1 DEF SessionRecords
  <2>4. sessions' \in [Instances -> Links \cup {None}]
    BY <1>2 DEF handleAdvertise, Register, HubTypeOK
  <2> HIDE DEF q
  <2>5. session' \in [Links -> SessionRecords]
    BY <2>2, <2>3 DEF HubTypeOK
  <2> QED BY <1>2, <2>1, <2>4, <2>5 DEF handleAdvertise, HubTypeOK
<1>3. CASE ReplaceConnectorInstances(s)
  <2> DEFINE old == {i \in Instances : rows[i] = session[s].connector} \ session[s].next
             q == [session[s] EXCEPT !.pc = "stored", !.pruned = old]
  <2>1. session' = [session EXCEPT ![s] = q]
    BY <1>3 DEF ReplaceConnectorInstances, HubTypeOK
  <2>2. q \in SessionRecords
    BY <1>0 DEF SessionRecords
  <2> HIDE DEF q
  <2>3. session' \in [Links -> SessionRecords]
    BY <2>1, <2>2 DEF HubTypeOK
  <2> QED BY <1>3, <2>3 DEF ReplaceConnectorInstances, HubTypeOK
<1>4. CASE removePruned(s)
  <2> DEFINE c == session[s].connector
             ids == session[s].pruned
             f == forgetInstances(c, ids)
  <2>1. \A t \in Links : f[t] \in SessionRecords
    <3> SUFFICES ASSUME NEW t \in Links PROVE f[t] \in SessionRecords
      OBVIOUS
    <3>1. session[t] \in SessionRecords
      BY DEF HubTypeOK
    <3>2. \A gone : [session[t] EXCEPT !.ids = session[t].ids \ gone] \in SessionRecords
      BY <3>1 DEF SessionRecords
    <3> QED BY <3>1, <3>2 DEF forgetInstances
  <2>2. f \in [Links -> SessionRecords] /\ [f[s] EXCEPT !.pc = "pruned"] \in SessionRecords
    <3>1. f = [t \in Links |-> f[t]]
      BY DEF forgetInstances
    <3>2. f \in [Links -> SessionRecords]
      BY <2>1, <3>1
    <3>3. f[s] \in SessionRecords
      BY <2>1
    <3> HIDE DEF f
    <3> QED BY <3>2, <3>3 DEF SessionRecords
  <2>3. session' = [f EXCEPT ![s] = [f[s] EXCEPT !.pc = "pruned"]]
    BY <1>4 DEF removePruned
  <2>4. sessions' \in [Instances -> Links \cup {None}]
    BY <1>4 DEF removePruned, RemoveConnectorInstances, HubTypeOK
  <2> HIDE DEF f
  <2>5. session' \in [Links -> SessionRecords]
    BY <2>2, <2>3
  <2> QED BY <1>4, <2>4, <2>5 DEF removePruned, HubTypeOK
<1>5. CASE finishAdvertise(s)
  <2> DEFINE q == [session[s] EXCEPT !.pc = "reading", !.ids = session[s].next,
                                     !.next = {}, !.pruned = {}]
  <2>1. session' = [session EXCEPT ![s] = q]
    BY <1>5 DEF finishAdvertise, HubTypeOK
  <2>2. q \in SessionRecords
    BY <1>0 DEF SessionRecords
  <2> HIDE DEF q
  <2>3. session' \in [Links -> SessionRecords]
    BY <2>1, <2>2 DEF HubTypeOK
  <2>4. sessions' \in [Instances -> Links \cup {None}]
    BY <1>5 DEF finishAdvertise, Remove, HubTypeOK
  <2> QED BY <1>5, <2>3, <2>4 DEF finishAdvertise, HubTypeOK
<1>6. CASE handleHeartbeat(s)
  <2>1. uplink' \in [Links -> Seq(Messages)]
    BY <1>6, ReceivedTyped DEF handleHeartbeat
  <2>2. session' \in [Links -> SessionRecords]
    BY <1>6, <1>0 DEF handleHeartbeat, Touch, HubTypeOK, SessionRecords
  <2> QED BY <1>6, <2>1, <2>2 DEF handleHeartbeat, HubTypeOK
<1>7. CASE handleMessage(s)
  <2> DEFINE m == Head(uplink[s])
             ch == channelOf(s, m.id)
             q == [session[s] EXCEPT !.pc = "delivering", !.answer = [to |-> ch, how |-> m.how]]
  <2>1. m.id \in Requests /\ m.how \in Answers /\ uplink' \in [Links -> Seq(Messages)]
    BY <1>7, ReceivedTyped, MessageFields DEF handleMessage, received
  <2>2. ch \in Requests \cup {None}
    BY <2>1 DEF channelOf
  <2>3. session' = IF ch = None THEN session ELSE [session EXCEPT ![s] = q]
    BY <1>7 DEF handleMessage, HubTypeOK
  <2>4. ch # None => q \in SessionRecords
    BY <1>0, <2>1, <2>2 DEF SessionRecords
  <2> HIDE DEF q, ch
  <2>5. session' \in [Links -> SessionRecords]
    BY <2>3, <2>4 DEF HubTypeOK
  <2> QED BY <1>7, <2>1, <2>5 DEF handleMessage, HubTypeOK
<1>8. CASE deliver(s)
  <2> DEFINE q == [session[s] EXCEPT !.pc = "reading", !.answer = None]
  <2>1. session' = [session EXCEPT ![s] = q]
    BY <1>8 DEF deliver, HubTypeOK
  <2>2. q \in SessionRecords
    BY <1>0 DEF SessionRecords
  <2> HIDE DEF q
  <2>3. session' \in [Links -> SessionRecords]
    BY <2>1, <2>2 DEF HubTypeOK
  <2>4. session[s].answer.how \in Answers
    BY <1>8 DEF deliver, DeliveringTyped
  <2>5. channel' \in [Requests -> Answers \cup {"empty"}]
    BY <1>8, <2>4 DEF deliver, HubTypeOK
  <2> QED BY <1>8, <2>3, <2>5 DEF deliver, HubTypeOK
<1>9. CASE readFails(s)
  BY <1>9, EndedTyped, RemovedTyped DEF readFails, HubTypeOK
<1>10. CASE advertiseFails(s)
  <2>1. client' = lostClients(s)
    BY <1>10 DEF advertiseFails, lostClients
  <2> QED BY <1>10, <2>1, EndedTyped, RemovedTyped DEF advertiseFails, HubTypeOK
<1>11. CASE connectionLost(s)
  <2>1. client' = lostClients(s)
    BY <1>11 DEF connectionLost, lostClients
  <2> QED BY <1>11, <2>1, EndedTyped DEF connectionLost, HubTypeOK
<1>12. CASE sessionTTL(s)
  <2>1. session' \in [Links -> SessionRecords]
    BY <1>12, <1>0 DEF sessionTTL, HubTypeOK, SessionRecords
  <2> QED BY <1>12, <2>1 DEF sessionTTL, HubTypeOK
<1> QED BY <1>1, <1>2, <1>3, <1>4, <1>5, <1>6, <1>7, <1>8, <1>9, <1>10, <1>11, <1>12
        DEF relayStep

\* A request that ends keeps its outcome, and the others are left alone.
LEMMA FinishTyped ==
  ASSUME HubTypeOK, NEW r \in Requests, NEW why \in Outcomes, finish(r, why)
  PROVE  /\ request' \in [Requests -> RequestRecords]
         /\ request'[r].pc = "done" /\ request'[r].got = why
         /\ \A q \in Requests \ {r} : request'[q] = request[q]
         /\ \A q \in Requests : request'[q].pc \in {"expiring", "sending", "waiting"} =>
                                  request'[q].sess \in Links
<1>1. [pc |-> "done", sess |-> None, got |-> why] \in RequestRecords
  BY DEF RequestRecords
<1> QED BY <1>1 DEF finish, HubTypeOK

\* A handler goes on to pc with session x.
LEMMA GoesOn ==
  ASSUME HubTypeOK, NEW r \in Requests,
         NEW pc \in {"lookup", "expiring", "sending", "waiting"}, NEW x \in Links \cup {None},
         pc # "lookup" => x \in Links,
         request' = [request EXCEPT ![r] = [request[r] EXCEPT !.pc = pc, !.sess = x]]
  PROVE  /\ request' \in [Requests -> RequestRecords]
         /\ request'[r].pc = pc
         /\ \A q \in Requests \ {r} : request'[q] = request[q]
         /\ \A q \in Requests : request'[q].pc \in {"expiring", "sending", "waiting"} =>
                                  request'[q].sess \in Links
<1> DEFINE new == [request[r] EXCEPT !.pc = pc, !.sess = x]
<1>1. new \in RequestRecords /\ new.pc = pc /\ new.sess = x
  BY DEF HubTypeOK, RequestRecords
<1> HIDE DEF new
<1>2. request' = [request EXCEPT ![r] = new]
  BY DEF new
<1> QED BY <1>1, <1>2 DEF HubTypeOK

\* A request's steps keep the state typed.
LEMMA RequestTypes ==
  ASSUME HubInv, NEW r \in Requests, proxyRequest(r) \/ requestStep(r)
  PROVE  HubTypeOK'
<1> USE DEF HubInv, hubVars, storeVars, wireVars, clientVars, requestVars
<1>0. request[r] \in RequestRecords /\ "failed" \in Outcomes /\ Answers \subseteq Outcomes
  BY DEF HubTypeOK, Outcomes, Answers
<1>1. CASE proxyRequest(r)
  <2>1. CASE finish(r, "failed")
    BY <1>0, <1>1, <2>1, FinishTyped DEF proxyRequest, HubTypeOK
  <2>2. CASE request' = [request EXCEPT ![r].pc = "lookup"]
    <3>1. request' = [request EXCEPT ![r] = [request[r] EXCEPT !.pc = "lookup",
                                                              !.sess = request[r].sess]]
      BY <1>0, <2>2 DEF HubTypeOK, RequestRecords
    <3>2. request[r].sess \in Links \cup {None}
      BY <1>0 DEF RequestRecords
    <3> QED BY <1>1, <3>1, <3>2, GoesOn DEF proxyRequest, HubTypeOK
  <2> QED BY <1>1, <2>1, <2>2 DEF proxyRequest
<1>2. CASE Get(r)
  <2> DEFINE s == IF toProject(r) THEN connectors[Target[r]] ELSE sessions[Target[r]]
  <2>1. s \in Links \cup {None}
    BY RelayHubConstants DEF toProject, HubTypeOK
  <2>2. CASE finish(r, "failed")
    BY <1>0, <1>2, <2>2, FinishTyped DEF Get, HubTypeOK
  <2>3. ASSUME NEW pc \in {"expiring", "sending"}, s # None,
               request' = [request EXCEPT ![r].pc = pc, ![r].sess = s]
        PROVE  HubTypeOK'
    <3>1. request' = [request EXCEPT ![r] = [request[r] EXCEPT !.pc = pc, !.sess = s]]
      BY <2>3 DEF HubTypeOK
    <3>2. s \in Links
      BY <2>1, <2>3
    <3> HIDE DEF s
    <3> QED BY <1>2, <3>1, <3>2, GoesOn DEF Get, HubTypeOK
  <2> QED BY <1>2, <2>2, <2>3 DEF Get
<1>3. CASE removeExpired(r)
  <2>1. request[r].sess \in Links
    BY <1>3 DEF removeExpired, HubTypeOK
  <2>2. /\ sessions' \in [Instances -> Links \cup {None}]
        /\ connectors' \in [Connectors -> Links \cup {None}]
    BY <1>3, <2>1 DEF removeExpired, Remove, RemoveSession, HubTypeOK
  <2> QED BY <1>0, <1>3, <2>2, FinishTyped DEF removeExpired, HubTypeOK
<1>4. CASE proxy(r)
  <2> DEFINE s == request[r].sess
  <2>1. s \in Links
    BY <1>4 DEF proxy, HubTypeOK
  <2>2. downlink' \in [Links -> Seq(Requests)]
    <3>1. Append(downlink[s], r) \in Seq(Requests)
      BY <2>1, Appended DEF HubTypeOK
    <3> QED BY <1>4, <2>1, <3>1 DEF proxy, HubTypeOK
  <2>3. CASE finish(r, "failed")
    BY <1>0, <1>4, <2>2, <2>3, FinishTyped DEF proxy, HubTypeOK
  <2>4. CASE request' = [request EXCEPT ![r].pc = "waiting"]
    <3>1. request' = [request EXCEPT ![r] = [request[r] EXCEPT !.pc = "waiting", !.sess = s]]
      BY <1>0, <2>4 DEF HubTypeOK, RequestRecords
    <3> QED BY <1>4, <2>1, <2>2, <3>1, GoesOn DEF proxy, HubTypeOK
  <2> QED BY <1>4, <2>3, <2>4 DEF proxy
<1>5. CASE receiveResponse(r)
  <2>1. channel[r] \in Outcomes /\ channel' \in [Requests -> Answers \cup {"empty"}]
    BY <1>0, <1>5 DEF receiveResponse, HubTypeOK
  <2> QED BY <1>5, <2>1, FinishTyped DEF receiveResponse, HubTypeOK
<1>6. CASE proxyTimeout(r)
  BY <1>0, <1>6, FinishTyped DEF proxyTimeout, HubTypeOK
<1> QED BY <1>1, <1>2, <1>3, <1>4, <1>5, <1>6 DEF requestStep

-----------------------------------------------------------------------------
(* Sessions and the entries of the hub *)

\* The steps of a link other than handleMessage.
QuietStep(s) ==
  \/ handleConnectorWebSocket(s) \/ handleAdvertise(s) \/ ReplaceConnectorInstances(s)
  \/ removePruned(s) \/ finishAdvertise(s) \/ handleHeartbeat(s) \/ deliver(s) \/ readFails(s)
  \/ advertiseFails(s) \/ connectionLost(s) \/ sessionTTL(s)

\* What a step of link s makes of the sessions: another session keeps its pc
\* and its answer, an answer to deliver is an old one, and a session that ends
\* was not greeted yet or takes its entries along.
LEMMA QuietFrame ==
  ASSUME HubInv, NEW s \in Links, QuietStep(s)
  PROVE  /\ \A t \in Links \ {s} : /\ session'[t].pc = session[t].pc
                                   /\ session'[t].answer = session[t].answer
         /\ session'[s].pc = "delivering" =>
              session[s].pc = "delivering" /\ session'[s].answer = session[s].answer
         /\ session'[s].pc \in {"unused", "closed"} =>
              session[s].pc \in {"unused", "closed"} \/ RemoveSession(s)
<1> USE DEF HubInv, hubVars, storeVars, wireVars, clientVars, requestVars
<1>0. /\ session \in [Links -> SessionRecords] /\ session[s] \in SessionRecords
  BY DEF HubTypeOK
<1>1. CASE handleConnectorWebSocket(s)
  <2> DEFINE c == Head(uplink[s]).connector
  <2>1. session[s].pc = "unused"
    BY <1>1 DEF handleConnectorWebSocket, received
  <2>2. \A t \in Links \ {s} : session'[t] = session[t]
    BY <1>0, <1>1 DEF handleConnectorWebSocket, ended
  <2>3. session'[s].pc \in {"reading", "closed"}
    BY <1>0, <1>1 DEF handleConnectorWebSocket, ended, NoSession
  <2> QED BY <2>1, <2>2, <2>3
<1>2. CASE handleAdvertise(s)
  <2>1. /\ \A t \in Links \ {s} : session'[t] = session[t]
        /\ session'[s].pc = "registered"
    BY <1>0, <1>2 DEF handleAdvertise, Touch, SessionRecords
  <2> QED BY <2>1
<1>3. CASE ReplaceConnectorInstances(s)
  <2>1. /\ \A t \in Links \ {s} : session'[t] = session[t]
        /\ session'[s].pc = "stored"
    BY <1>0, <1>3 DEF ReplaceConnectorInstances, SessionRecords
  <2> QED BY <2>1
<1>4. CASE removePruned(s)
  <2> DEFINE f == forgetInstances(session[s].connector, session[s].pruned)
  <2>1. \A t \in Links : f[t].pc = session[t].pc /\ f[t].answer = session[t].answer
    <3> SUFFICES ASSUME NEW t \in Links
                 PROVE  f[t].pc = session[t].pc /\ f[t].answer = session[t].answer
      OBVIOUS
    <3>1. session[t] \in SessionRecords
      BY <1>0
    <3>2. \A gone : LET x == [session[t] EXCEPT !.ids = session[t].ids \ gone]
                    IN  x.pc = session[t].pc /\ x.answer = session[t].answer
      BY <3>1 DEF SessionRecords
    <3> QED BY <3>2 DEF forgetInstances
  <2>2. session' = [f EXCEPT ![s] = [f[s] EXCEPT !.pc = "pruned"]] /\ DOMAIN f = Links
    BY <1>4 DEF removePruned, forgetInstances
  <2>3. "pc" \in DOMAIN f[s]
    BY <1>0 DEF forgetInstances, SessionRecords
  <2> HIDE DEF f
  <2>4. /\ \A t \in Links \ {s} : session'[t] = f[t]
        /\ session'[s] = [f[s] EXCEPT !.pc = "pruned"]
    BY <2>2
  <2>5. session'[s].pc = "pruned"
    BY <2>3, <2>4
  <2> QED BY <2>1, <2>4, <2>5
<1>5. CASE finishAdvertise(s)
  <2>1. /\ \A t \in Links \ {s} : session'[t] = session[t]
        /\ session'[s].pc = "reading"
    BY <1>0, <1>5 DEF finishAdvertise, SessionRecords
  <2> QED BY <2>1
<1>6. CASE handleHeartbeat(s)
  <2>1. session[s].pc = "reading" /\ session' = [session EXCEPT ![s].fresh = TRUE]
    BY <1>6 DEF handleHeartbeat, received, Touch
  <2>2. /\ \A t \in Links \ {s} : session'[t] = session[t]
        /\ session'[s].pc = "reading"
    BY <1>0, <2>1 DEF SessionRecords
  <2> QED BY <2>2
<1>8. CASE deliver(s)
  <2>1. /\ \A t \in Links \ {s} : session'[t] = session[t]
        /\ session'[s].pc = "reading"
    BY <1>0, <1>8 DEF deliver, SessionRecords
  <2> QED BY <2>1
<1>9. CASE readFails(s) \/ advertiseFails(s)
  <2>1. session' = ended(s) /\ RemoveSession(s)
    BY <1>9 DEF readFails, advertiseFails
  <2>2. /\ \A t \in Links \ {s} : session'[t] = session[t]
        /\ session'[s].pc = "closed"
    BY <1>0, <2>1 DEF ended, NoSession
  <2> QED BY <2>1, <2>2
<1>10. CASE connectionLost(s)
  BY <1>10 DEF connectionLost
<1>11. CASE sessionTTL(s)
  <2>1. /\ \A t \in Links \ {s} : session'[t] = session[t]
        /\ session'[s].pc = session[s].pc /\ session'[s].answer = session[s].answer
    BY <1>0, <1>11 DEF sessionTTL, SessionRecords
  <2> QED BY <2>1
<1> QED BY <1>1, <1>2, <1>3, <1>4, <1>5, <1>6, <1>8, <1>9, <1>10, <1>11
        DEF QuietStep

\* handleMessage: the answer is that of the response, if its request waits.
LEMMA MessageFrame ==
  ASSUME HubInv, NEW s \in Links, handleMessage(s)
  PROVE  /\ \A t \in Links \ {s} : session'[t] = session[t]
         /\ session[s].pc = "reading"
         /\ \/ session'[s] = session[s]
            \/ /\ session'[s].pc = "delivering"
               /\ session'[s].answer = [to |-> Head(uplink[s]).id, how |-> Head(uplink[s]).how]
<1>0. /\ session \in [Links -> SessionRecords] /\ session[s] \in SessionRecords
  BY DEF HubInv, HubTypeOK
<1> DEFINE m == Head(uplink[s])
           ch == channelOf(s, m.id)
<1>1. session[s].pc = "reading"
  BY DEF handleMessage, received
<1>2. session' = IF ch = None THEN session
                 ELSE [session EXCEPT ![s].pc = "delivering",
                                      ![s].answer = [to |-> ch, how |-> m.how]]
  BY DEF handleMessage
<1>3. ch # None => ch = m.id
  BY DEF channelOf
<1>4. CASE ch = None
  BY <1>1, <1>2, <1>4
<1>5. CASE ch # None
  <2>1. session' = [session EXCEPT ![s].pc = "delivering",
                                   ![s].answer = [to |-> m.id, how |-> m.how]]
    BY <1>2, <1>3, <1>5
  <2>2. /\ \A t \in Links \ {s} : session'[t] = session[t]
        /\ session'[s].pc = "delivering"
        /\ session'[s].answer = [to |-> m.id, how |-> m.how]
    BY <1>0, <2>1 DEF SessionRecords
  <2> QED BY <1>1, <2>2
<1> QED BY <1>4, <1>5

\* All steps of a link.
LEMMA LinkFrame ==
  ASSUME HubInv, NEW s \in Links,
         relayStep(s) \/ advertiseFails(s) \/ connectionLost(s) \/ sessionTTL(s)
  PROVE  /\ \A t \in Links \ {s} : /\ session'[t].pc = session[t].pc
                                   /\ session'[t].answer = session[t].answer
         /\ session'[s].pc = "delivering" =>
              \/ session[s].pc = "delivering" /\ session'[s].answer = session[s].answer
              \/ /\ handleMessage(s)
                 /\ session'[s].answer = [to |-> Head(uplink[s]).id, how |-> Head(uplink[s]).how]
         /\ session'[s].pc \in {"unused", "closed"} =>
              session[s].pc \in {"unused", "closed"} \/ RemoveSession(s)
<1>1. CASE QuietStep(s)
  BY <1>1, QuietFrame
<1>2. CASE handleMessage(s)
  BY <1>2, MessageFrame
<1> QED BY <1>1, <1>2 DEF relayStep, QuietStep

\* An entry is only ever added for the session that is being served.
LEMMA EntriesOfLink ==
  ASSUME HubInv, NEW s \in Links,
         relayStep(s) \/ advertiseFails(s) \/ connectionLost(s) \/ sessionTTL(s)
  PROVE  /\ \A i \in Instances : sessions'[i] \in {sessions[i], None, s}
         /\ \A c \in Connectors : connectors'[c] \in {connectors[c], None, s}
         /\ (\E i \in Instances : sessions'[i] = s /\ sessions[i] # s) => handleAdvertise(s)
         /\ (\E c \in Connectors : connectors'[c] = s /\ connectors[c] # s) =>
              handleConnectorWebSocket(s) /\ session'[s].pc = "reading"
<1> USE DEF HubInv, hubVars, storeVars, wireVars, clientVars, requestVars
<1>0. /\ sessions \in [Instances -> Links \cup {None}]
      /\ connectors \in [Connectors -> Links \cup {None}]
      /\ session \in [Links -> SessionRecords]
      /\ s # None
  BY NoneIsNone DEF HubTypeOK
<1>1. CASE handleConnectorWebSocket(s)
  <2> DEFINE c == Head(uplink[s]).connector
  <2>1. sessions' = sessions
    BY <1>1 DEF handleConnectorWebSocket
  <2>2. CASE c \in disabled
    <3>1. connectors' = connectors
      BY <1>1, <2>2 DEF handleConnectorWebSocket
    <3> QED BY <2>1, <3>1
  <2>3. CASE c \notin disabled
    <3>1. /\ connectors' = [connectors EXCEPT ![c] = s]
          /\ session' = [session EXCEPT ![s] =
               [NoSession EXCEPT !.pc = "reading", !.connector = c, !.fresh = TRUE]]
      BY <1>1, <2>3 DEF handleConnectorWebSocket, RegisterConnector
    <3>2. session'[s].pc = "reading"
      BY <1>0, <3>1 DEF NoSession
    <3>3. \A d \in Connectors : connectors'[d] \in {connectors[d], s}
      BY <1>0, <3>1
    <3> QED BY <1>1, <2>1, <3>2, <3>3
  <2> QED BY <2>2, <2>3
<1>2. CASE handleAdvertise(s)
  BY <1>0, <1>2 DEF handleAdvertise, Register
<1>3. CASE removePruned(s) \/ finishAdvertise(s)
  BY <1>0, <1>3 DEF removePruned, finishAdvertise, RemoveConnectorInstances, Remove
<1>4. CASE readFails(s) \/ advertiseFails(s)
  BY <1>0, <1>4 DEF readFails, advertiseFails, RemoveSession
<1>5. CASE \/ ReplaceConnectorInstances(s) \/ handleHeartbeat(s) \/ handleMessage(s)
           \/ deliver(s) \/ connectionLost(s) \/ sessionTTL(s)
  <2>1. UNCHANGED hubVars
    BY <1>5 DEF ReplaceConnectorInstances, handleHeartbeat, handleMessage, deliver,
                connectionLost, sessionTTL
  <2> QED BY <2>1
<1> QED BY <1>1, <1>2, <1>3, <1>4, <1>5 DEF relayStep

\* The steps of a link's reader leave no route to a session that has ended.
LEMMA GreetedOfLink ==
  ASSUME HubInv, NEW s \in Links,
         relayStep(s) \/ advertiseFails(s) \/ connectionLost(s) \/ sessionTTL(s)
  PROVE  RoutedIsGreeted' /\ DeliveringTyped'
<1>0. /\ HubTypeOK /\ RoutedIsGreeted /\ DeliveringTyped /\ HubTypeOK'
  BY LinkTypes DEF HubInv
<1>1. ASSUME NEW t \in Links, Routed(t)'
      PROVE  session'[t].pc \notin {"unused", "closed"}
  <2>1. CASE t # s
    <3>1. Routed(t)
      BY <1>1, <2>1, EntriesOfLink, NoneIsNone DEF Routed
    <3> QED BY <1>0, <2>1, <3>1, LinkFrame DEF RoutedIsGreeted
  <2>2. CASE t = s /\ Routed(s)
    <3>1. session[s].pc \notin {"unused", "closed"}
      BY <1>0, <2>2 DEF RoutedIsGreeted
    <3>2. ~RemoveSession(s)
      <4> SUFFICES ASSUME RemoveSession(s) PROVE FALSE
        OBVIOUS
      <4>1. \A i \in Instances : sessions'[i] # s
        BY NoneIsNone DEF RemoveSession
      <4>2. \A c \in Connectors : connectors'[c] # s
        BY NoneIsNone DEF RemoveSession
      <4> QED BY <1>1, <2>2, <4>1, <4>2 DEF Routed
    <3> QED BY <2>2, <3>1, <3>2, LinkFrame
  <2>3. CASE t = s /\ ~Routed(s)
    <3>1. handleAdvertise(s) \/ session'[s].pc = "reading"
      BY <1>1, <2>3, EntriesOfLink DEF Routed
    <3>2. handleAdvertise(s) => session[s].pc = "reading" /\ ~RemoveSession(s)
      <4> SUFFICES ASSUME handleAdvertise(s) PROVE session[s].pc = "reading" /\ ~RemoveSession(s)
        OBVIOUS
      <4>1. session[s].pc = "reading" /\ connectors' = connectors
        BY DEF handleAdvertise, received
      <4>2. ~\E c \in Connectors : connectors'[c] = s
        BY <2>3, <4>1 DEF Routed
      <4>3. \E i \in Instances : sessions'[i] = s
        BY <1>1, <2>3, <4>2 DEF Routed
      <4> QED BY <4>1, <4>3, NoneIsNone DEF RemoveSession
    <3> QED BY <2>3, <3>1, <3>2, LinkFrame
  <2> QED BY <2>1, <2>2, <2>3
<1>2. DeliveringTyped'
  <2> SUFFICES ASSUME NEW t \in Links, session'[t].pc = "delivering"
               PROVE  session'[t].answer \in [to : Requests, how : Answers]
    BY DEF DeliveringTyped
  <2>1. CASE t # s
    BY <1>0, <2>1, LinkFrame DEF DeliveringTyped
  <2>2. CASE t = s /\ session[s].pc = "delivering" /\ session'[s].answer = session[s].answer
    BY <1>0, <2>2 DEF DeliveringTyped
  <2>3. CASE /\ t = s /\ handleMessage(s)
             /\ session'[s].answer = [to |-> Head(uplink[s]).id, how |-> Head(uplink[s]).how]
    <3>1. Head(uplink[s]).id \in Requests /\ Head(uplink[s]).how \in Answers
      BY <1>0, <2>3, ReceivedTyped, MessageFields DEF handleMessage, received
    <3> QED BY <2>3, <3>1
  <2> QED BY <2>1, <2>2, <2>3, LinkFrame
<1> QED BY <1>1, <1>2 DEF RoutedIsGreeted

\* Requests and connectors leave the sessions alone; removeExpired only takes
\* entries out.
LEMMA GreetedOfOthers ==
  ASSUME HubInv,
         \/ \E r \in Requests : proxyRequest(r) \/ requestStep(r)
         \/ \E c \in Connectors :
              \/ heartbeatLoop(c) \/ shareInstances(c)
              \/ handleRequest(c) \/ writeResponse(c) \/ SetConnectorDisabled(c)
              \/ \E s \in Links : runOnce(c, s)
         \/ UNCHANGED vars
  PROVE  RoutedIsGreeted' /\ DeliveringTyped' /\ session' = session
<1> USE DEF hubVars, storeVars, wireVars, clientVars, requestVars
<1>1. session' = session
  BY DEF proxyRequest, requestStep, Get, removeExpired, proxy, receiveResponse, proxyTimeout,
         heartbeatLoop, shareInstances, handleRequest, writeResponse, SetConnectorDisabled,
         runOnce, vars
<1>2. /\ \A i \in Instances : sessions'[i] \in {sessions[i], None}
      /\ \A c \in Connectors : connectors'[c] \in {connectors[c], None}
  <2>1. CASE \E r \in Requests : removeExpired(r)
    BY <2>1 DEF removeExpired, Remove, RemoveSession
  <2>2. CASE UNCHANGED hubVars
    BY <2>2
  <2> QED BY <2>1, <2>2
      DEF proxyRequest, requestStep, Get, proxy, receiveResponse, proxyTimeout,
          heartbeatLoop, shareInstances, handleRequest, writeResponse, SetConnectorDisabled,
          runOnce, vars
<1>3. \A s \in Links : Routed(s)' => Routed(s)
  BY <1>2, NoneIsNone DEF Routed
<1> QED BY <1>1, <1>3 DEF HubInv, RoutedIsGreeted, DeliveringTyped

-----------------------------------------------------------------------------
(* One request, one copy *)

\* Places that agree after the same number of elements has left agreed before.
LEMMA Cancels == \A k, l, n \in Nat : l + n = k + n => l = k
OBVIOUS

\* A step that does not move r on: queues may lose their first elements (d and
\* e say how many), places may be emptied.
LEMMA CopyKept ==
  ASSUME NEW r \in Requests, OneCopyOf(r), NEW d \in [Links -> Nat], NEW e \in [Links -> Nat],
         handled'[r] = handled[r],
         request'[r].pc \in Early => request[r].pc \in Early,
         \A s \in Links, k \in Nat : InDown(s, k, r)' => InDown(s, k + d[s], r),
         \A c \in Connectors : Busy(c, r)' => Busy(c, r),
         \A s \in Links, k \in Nat :
           InUp(s, k, r)' => InUp(s, k + e[s], r) /\ uplink'[s][k].how = uplink[s][k + e[s]].how,
         \A s \in Links :
           Delivering(s, r)' => Delivering(s, r) /\ session'[s].answer = session[s].answer,
         InChannel(r)' => channel'[r] = channel[r]
  PROVE  OneCopyOf(r)'
<1>0. \A s \in Links, k \in Nat : k + d[s] \in Nat /\ k + e[s] \in Nat
  OBVIOUS
<1>1. DownOnce(r)'
  <2> SUFFICES ASSUME NEW s \in Links, NEW k \in Nat, InDown(s, k, r)'
               PROVE  /\ handled'[r] = "no" /\ request'[r].pc \notin Early
                      /\ \A t \in Links, l \in Nat : InDown(t, l, r)' => t = s /\ l = k
    BY DEF DownOnce
  <2>1. InDown(s, k + d[s], r) /\ k + d[s] \in Nat
    BY <1>0
  <2>2. handled'[r] = "no" /\ request'[r].pc \notin Early
    BY <2>1 DEF OneCopyOf, DownOnce
  <2>3. ASSUME NEW t \in Links, NEW l \in Nat, InDown(t, l, r)'
        PROVE  t = s /\ l = k
    <3>1. InDown(t, l + d[t], r) /\ l + d[t] \in Nat
      BY <1>0, <2>3
    <3>2. t = s /\ l + d[t] = k + d[s]
      BY <2>1, <3>1 DEF OneCopyOf, DownOnce
    <3>3. d[s] \in Nat
      OBVIOUS
    <3>4. t = s /\ l + d[s] = k + d[s]
      BY <3>2
    <3>5. l = k
      BY <3>3, <3>4, Cancels, Zenon
    <3> QED BY <3>4, <3>5
  <2> QED BY <2>2, <2>3
<1>2. EarlyUnhandled(r)'
  BY DEF OneCopyOf, EarlyUnhandled
<1>3. TellsTruth(r)'
  <2>1. \A c \in Connectors : Busy(c, r)' => handled'[r] \in Answers
    BY DEF OneCopyOf, TellsTruth
  <2>2. \A s \in Links, k \in Nat : InUp(s, k, r)' =>
          handled'[r] \in Answers /\ uplink'[s][k].how = handled'[r]
    BY <1>0 DEF OneCopyOf, TellsTruth
  <2>3. \A s \in Links : Delivering(s, r)' =>
          handled'[r] \in Answers /\ session'[s].answer.how = handled'[r]
    BY DEF OneCopyOf, TellsTruth
  <2>4. InChannel(r)' => channel'[r] = handled'[r]
    BY DEF OneCopyOf, TellsTruth, InChannel
  <2> QED BY <2>1, <2>2, <2>3, <2>4 DEF TellsTruth, Answers
<1>4. OnePlace(r)'
  <2>0. InChannel(r)' => InChannel(r)
    BY DEF InChannel
  <2>1. \A c \in Connectors : Busy(c, r)' =>
           /\ \A f \in Connectors : Busy(f, r)' => f = c
           /\ \A s \in Links, k \in Nat : ~InUp(s, k, r)'
           /\ \A s \in Links : ~Delivering(s, r)'
           /\ ~InChannel(r)'
    BY <1>0, <2>0 DEF OneCopyOf, OnePlace
  <2>2. ASSUME NEW s \in Links, NEW k \in Nat, InUp(s, k, r)'
        PROVE  /\ \A t \in Links, l \in Nat : InUp(t, l, r)' => t = s /\ l = k
               /\ \A t \in Links : ~Delivering(t, r)'
               /\ ~InChannel(r)'
    <3>1. InUp(s, k + e[s], r) /\ k + e[s] \in Nat
      BY <1>0, <2>2
    <3>2. ASSUME NEW t \in Links, NEW l \in Nat, InUp(t, l, r)'
          PROVE  t = s /\ l = k
      <4>1. InUp(t, l + e[t], r) /\ l + e[t] \in Nat
        BY <1>0, <3>2
      <4>2. t = s /\ l + e[t] = k + e[s]
        BY <3>1, <4>1 DEF OneCopyOf, OnePlace
      <4>3. e[s] \in Nat
        OBVIOUS
      <4>4. t = s /\ l + e[s] = k + e[s]
        BY <4>2
      <4>5. l = k
        BY <4>3, <4>4, Cancels, Zenon
      <4> QED BY <4>4, <4>5
    <3> QED BY <2>0, <3>1, <3>2 DEF OneCopyOf, OnePlace
  <2>3. \A s \in Links : Delivering(s, r)' =>
           /\ \A t \in Links : Delivering(t, r)' => t = s
           /\ ~InChannel(r)'
    BY <2>0 DEF OneCopyOf, OnePlace
  <2> QED BY <2>1, <2>2, <2>3 DEF OnePlace
<1> QED BY <1>1, <1>2, <1>3, <1>4 DEF OneCopyOf

\* Places that a step leaves alone.
LEMMA SamePlaces ==
  ASSUME NEW r \in Requests
  PROVE  /\ downlink' = downlink => \A s \in Links, k \in Nat : InDown(s, k, r)' => InDown(s, k + 0, r)
         /\ client' = client => \A c \in Connectors : Busy(c, r)' => Busy(c, r)
         /\ uplink' = uplink =>
              \A s \in Links, k \in Nat :
                InUp(s, k, r)' => InUp(s, k + 0, r) /\ uplink'[s][k].how = uplink[s][k + 0].how
         /\ session' = session =>
              \A s \in Links :
                Delivering(s, r)' => Delivering(s, r) /\ session'[s].answer = session[s].answer
BY DEF InDown, Busy, InUp, Delivering

\* A message is taken off a queue.
TakesUp(s) == uplink[s] # <<>> /\ uplink' = [uplink EXCEPT ![s] = Tail(@)]
TakesDown(s) == downlink[s] # <<>> /\ downlink' = [downlink EXCEPT ![s] = Tail(@)]

\* What is on a link after the relay has read from it was there one place later.
LEMMA TailOfUp ==
  ASSUME HubTypeOK, NEW s \in Links, TakesUp(s),
         NEW r \in Requests, NEW t \in Links, NEW k \in Nat, InUp(t, k, r)'
  PROVE  /\ t = s => k \in Nat \ {0} /\ InUp(s, k + 1, r) /\ uplink'[s][k] = uplink[s][k + 1]
         /\ t # s => InUp(t, k, r) /\ uplink'[t] = uplink[t]
<1>1. CASE t # s
  BY <1>1 DEF InUp, HubTypeOK, TakesUp
<1>2. CASE t = s
  <2>1. uplink'[s] = Tail(uplink[s]) /\ uplink[s] \in Seq(Messages) /\ uplink[s] # <<>>
    BY DEF HubTypeOK, TakesUp
  <2>2. k \in 1 .. Len(uplink[s]) - 1 /\ uplink'[s][k] = uplink[s][k + 1] /\ Len(uplink[s]) \in Nat
    <3>1. k \in 1 .. Len(Tail(uplink[s])) /\ uplink'[s][k] = Tail(uplink[s])[k]
      BY <1>2, <2>1 DEF InUp
    <3>2. Len(Tail(uplink[s])) = Len(uplink[s]) - 1 /\ Len(uplink[s]) \in Nat
      BY <2>1, HeadAndTail
    <3>3. k \in 1 .. Len(uplink[s]) - 1
      BY <3>1, <3>2
    <3>4. Tail(uplink[s])[k] = uplink[s][k + 1]
      BY <2>1, <3>3, HeadAndTail
    <3> QED BY <3>1, <3>2, <3>3, <3>4
  <2> QED BY <1>2, <2>2 DEF InUp
<1> QED BY <1>1, <1>2

\* What is on a link after the connector has read from it was there one place
\* later.
LEMMA TailOfDown ==
  ASSUME HubTypeOK, NEW s \in Links, TakesDown(s),
         NEW r \in Requests, NEW t \in Links, NEW k \in Nat, InDown(t, k, r)'
  PROVE  /\ t = s => k \in Nat \ {0} /\ InDown(s, k + 1, r)
         /\ t # s => InDown(t, k, r)
<1>1. CASE t # s
  BY <1>1 DEF InDown, HubTypeOK, TakesDown
<1>2. CASE t = s
  <2>1. downlink'[s] = Tail(downlink[s]) /\ downlink[s] \in Seq(Requests) /\ downlink[s] # <<>>
    BY DEF HubTypeOK, TakesDown
  <2>2. k \in 1 .. Len(downlink[s]) - 1 /\ downlink'[s][k] = downlink[s][k + 1]
        /\ Len(downlink[s]) \in Nat
    <3>1. k \in 1 .. Len(Tail(downlink[s])) /\ downlink'[s][k] = Tail(downlink[s])[k]
      BY <1>2, <2>1 DEF InDown
    <3>2. Len(Tail(downlink[s])) = Len(downlink[s]) - 1 /\ Len(downlink[s]) \in Nat
      BY <2>1, HeadAndTail
    <3>3. k \in 1 .. Len(downlink[s]) - 1
      BY <3>1, <3>2
    <3>4. Tail(downlink[s])[k] = downlink[s][k + 1]
      BY <2>1, <3>3, HeadAndTail
    <3> QED BY <3>1, <3>2, <3>3, <3>4
  <2> QED BY <1>2, <2>2 DEF InDown
<1> QED BY <1>1, <1>2

\* What has left the queues of link s, and the connector, changes nothing for r.
LEMMA LinkKeeps ==
  ASSUME HubTypeOK, NEW s \in Links, NEW r \in Requests, OneCopyOf(r),
         UNCHANGED <<handled, request, channel>>,
         downlink' \in {downlink, [downlink EXCEPT ![s] = <<>>]},
         client' \in {client, lostClients(s)},
         \/ uplink' \in {uplink, [uplink EXCEPT ![s] = <<>>]}
         \/ TakesUp(s),
         \A t \in Links :
           Delivering(t, r)' => Delivering(t, r) /\ session'[t].answer = session[t].answer
  PROVE  OneCopyOf(r)'
<1> DEFINE zero == [t \in Links |-> 0]
           one == [t \in Links |-> IF t = s THEN 1 ELSE 0]
<1>0. zero \in [Links -> Nat] /\ one \in [Links -> Nat]
  OBVIOUS
<1>1. \A t \in Links, k \in Nat : InDown(t, k, r)' => InDown(t, k + zero[t], r)
  <2>1. CASE downlink' = downlink
    BY <2>1 DEF InDown
  <2>2. CASE downlink' = [downlink EXCEPT ![s] = <<>>]
    BY <2>2 DEF InDown, HubTypeOK
  <2> QED BY <2>1, <2>2
<1>2. \A c \in Connectors : Busy(c, r)' => Busy(c, r)
  BY NoClientTyped, NoneIsNone DEF Busy, lostClients
<1>3. CASE uplink' \in {uplink, [uplink EXCEPT ![s] = <<>>]}
  <2>1. ASSUME NEW t \in Links, NEW k \in Nat, InUp(t, k, r)'
        PROVE  InUp(t, k + zero[t], r) /\ uplink'[t][k].how = uplink[t][k + zero[t]].how
    <3>1. CASE uplink' = uplink
      BY <2>1, <3>1 DEF InUp
    <3>2. CASE uplink' = [uplink EXCEPT ![s] = <<>>]
      <4>1. t # s
        BY <2>1, <3>2 DEF InUp, HubTypeOK
      <4>2. uplink'[t] = uplink[t]
        BY <3>2, <4>1 DEF HubTypeOK
      <4> QED BY <2>1, <4>2 DEF InUp
    <3> QED BY <1>3, <3>1, <3>2
  <2> HIDE DEF zero
  <2> QED BY <1>0, <1>1, <1>2, <2>1, CopyKept
<1>4. CASE TakesUp(s)
  <2>1. ASSUME NEW t \in Links, NEW k \in Nat, InUp(t, k, r)'
        PROVE  InUp(t, k + one[t], r) /\ uplink'[t][k].how = uplink[t][k + one[t]].how
    <3>0. one[t] = IF t = s THEN 1 ELSE 0
      OBVIOUS
    <3> HIDE DEF one
    <3>1. CASE t = s
      <4>1. InUp(s, k + 1, r) /\ uplink'[s][k] = uplink[s][k + 1]
        BY <1>4, <2>1, <3>1, TailOfUp
      <4> QED BY <3>0, <3>1, <4>1
    <3>2. CASE t # s
      <4>1. k + one[t] = k
        BY <3>0, <3>2
      <4>2. InUp(t, k, r) /\ uplink'[t] = uplink[t]
        BY <1>4, <2>1, <3>2, TailOfUp
      <4> QED BY <4>1, <4>2
    <3> QED BY <3>1, <3>2
  <2> HIDE DEF zero, one
  <2> QED BY <1>0, <1>1, <1>2, <2>1, CopyKept
<1> QED BY <1>3, <1>4

\* The steps of a link's reader that deliver nothing make no copy of a request
\* or of a response.
LEMMA LinkCopies ==
  ASSUME HubInv, NEW s \in Links,
         \/ handleConnectorWebSocket(s) \/ handleAdvertise(s) \/ ReplaceConnectorInstances(s)
         \/ removePruned(s) \/ finishAdvertise(s) \/ handleHeartbeat(s) \/ readFails(s)
         \/ advertiseFails(s) \/ connectionLost(s) \/ sessionTTL(s)
  PROVE  OneCopy'
<1> USE DEF hubVars, storeVars, wireVars, clientVars, requestVars
<1>1. QuietStep(s)
  BY DEF QuietStep
<1>2. UNCHANGED <<handled, request, channel>>
  BY DEF handleConnectorWebSocket, handleAdvertise, ReplaceConnectorInstances, removePruned,
         finishAdvertise, handleHeartbeat, readFails, advertiseFails, connectionLost, sessionTTL
<1>3. downlink' \in {downlink, [downlink EXCEPT ![s] = <<>>]}
  BY DEF handleConnectorWebSocket, handleAdvertise, ReplaceConnectorInstances, removePruned,
         finishAdvertise, handleHeartbeat, readFails, advertiseFails, connectionLost, sessionTTL
<1>4. client' \in {client, lostClients(s)}
  BY DEF handleConnectorWebSocket, handleAdvertise, ReplaceConnectorInstances, removePruned,
         finishAdvertise, handleHeartbeat, readFails, advertiseFails, connectionLost, sessionTTL,
         lostClients
<1>5. \/ uplink' \in {uplink, [uplink EXCEPT ![s] = <<>>]}
      \/ TakesUp(s)
  BY DEF handleConnectorWebSocket, handleAdvertise, ReplaceConnectorInstances, removePruned,
         finishAdvertise, handleHeartbeat, readFails, advertiseFails, connectionLost, sessionTTL,
         received, TakesUp
<1>7. \A r \in Requests, t \in Links :
        Delivering(t, r)' => Delivering(t, r) /\ session'[t].answer = session[t].answer
  BY <1>1, QuietFrame DEF Delivering
<1> QED BY <1>2, <1>3, <1>4, <1>5, <1>7, LinkKeeps DEF HubInv, OneCopy

\* A response moves from the uplink to the goroutine that delivers it.
LEMMA MessageCopies ==
  ASSUME HubInv, NEW s \in Links, handleMessage(s)
  PROVE  OneCopy'
<1> DEFINE m == Head(uplink[s])
<1>0. HubTypeOK /\ OneCopy
  BY DEF HubInv
<1>1. /\ UNCHANGED <<handled, request, channel, downlink, client>>
      /\ uplink[s] # <<>> /\ uplink' = [uplink EXCEPT ![s] = Tail(@)]
      /\ m.type = "response"
  BY DEF handleMessage, received, requestVars, clientVars
<1>2. TakesUp(s)
  BY <1>1 DEF TakesUp
<1>3. m \in Messages /\ m = uplink[s][1] /\ 1 \in 1 .. Len(uplink[s])
  BY <1>0, <1>1, HeadAndTail DEF HubTypeOK
<1>4. InUp(s, 1, m.id) /\ m.id \in Requests
  BY <1>1, <1>3, MessageFields DEF InUp
<1>8. /\ \A t \in Links \ {s} : session'[t] = session[t]
      /\ session[s].pc = "reading"
      /\ \/ session'[s] = session[s]
         \/ session'[s].pc = "delivering" /\ session'[s].answer = [to |-> m.id, how |-> m.how]
  BY MessageFrame
<1> HIDE DEF m
<1>9. session'[s] # session[s] => session'[s].answer.to = m.id /\ session'[s].answer.how = m.how
  BY <1>8
<1> SUFFICES ASSUME NEW r \in Requests PROVE OneCopyOf(r)'
  BY DEF OneCopy
<1>5. OneCopyOf(r)
  BY <1>0 DEF OneCopy
<1>6. CASE session'[s] = session[s] \/ r # m.id
  <2>1. \A t \in Links :
          Delivering(t, r)' => Delivering(t, r) /\ session'[t].answer = session[t].answer
    BY <1>6, <1>8, <1>9 DEF Delivering
  <2> QED BY <1>0, <1>1, <1>2, <1>5, <2>1, LinkKeeps
<1>7. CASE session'[s] # session[s] /\ r = m.id
  <2>1. /\ \A c \in Connectors : ~Busy(c, r)
        /\ \A t \in Links, l \in Nat : InUp(t, l, r) => t = s /\ l = 1
        /\ \A t \in Links : ~Delivering(t, r)
        /\ ~InChannel(r)
        /\ handled[r] \in Answers /\ m.how = handled[r]
    BY <1>3, <1>4, <1>5, <1>7 DEF OneCopyOf, OnePlace, TellsTruth
  <2>2. \A c \in Connectors : ~Busy(c, r)'
    BY <1>1, <2>1 DEF Busy
  <2>3. ASSUME NEW t \in Links, NEW k \in Nat, InUp(t, k, r)'
        PROVE  FALSE
    <3>1. CASE t = s
      <4>1. k \in Nat \ {0} /\ InUp(s, k + 1, r)
        BY <1>0, <1>2, <2>3, <3>1, TailOfUp
      <4>2. k + 1 = 1
        BY <2>1, <4>1
      <4> QED BY <4>1, <4>2
    <3>2. CASE t # s
      BY <1>0, <1>2, <2>1, <2>3, <3>2, TailOfUp
    <3> QED BY <3>1, <3>2
  <2>4. \A t \in Links : Delivering(t, r)' => t = s /\ session'[t].answer.how = handled[r]
    <3>1. \A t \in Links \ {s} : Delivering(t, r)' => Delivering(t, r)
      BY <1>8 DEF Delivering
    <3>2. session'[s].answer.how = m.how
      BY <1>7, <1>9
    <3> QED BY <2>1, <3>1, <3>2
  <2>5. ~InChannel(r)'
    BY <1>1, <2>1 DEF InChannel
  <2>6. DownOnce(r)' /\ EarlyUnhandled(r)'
    BY <1>1, <1>5 DEF OneCopyOf, DownOnce, EarlyUnhandled, InDown
  <2>7. TellsTruth(r)'
    BY <1>1, <2>1, <2>2, <2>3, <2>4, <2>5 DEF TellsTruth
  <2>8. OnePlace(r)'
    BY <2>2, <2>3, <2>4, <2>5 DEF OnePlace
  <2> QED BY <2>6, <2>7, <2>8 DEF OneCopyOf
<1> QED BY <1>6, <1>7

\* The answer moves from the goroutine into the channel.
LEMMA DeliverCopies ==
  ASSUME HubInv, NEW s \in Links, deliver(s)
  PROVE  OneCopy'
<1> DEFINE q == session[s].answer.to
<1>0. HubTypeOK /\ OneCopy
  BY DEF HubInv
<1>1. /\ UNCHANGED <<handled, request, downlink, client, uplink>>
      /\ channel' = [channel EXCEPT ![q] = session[s].answer.how]
      /\ session[s].pc = "delivering"
  BY DEF deliver, wireVars, clientVars
<1>2. q \in Requests /\ Delivering(s, q)
  BY <1>1 DEF HubInv, DeliveringTyped, Delivering
<1>3. /\ \A t \in Links \ {s} : /\ session'[t].pc = session[t].pc
                                /\ session'[t].answer = session[t].answer
      /\ session'[s].pc # "delivering"
  <2>1. session'[s].pc = "reading"
    BY <1>0 DEF deliver, HubTypeOK, SessionRecords
  <2>2. QuietStep(s)
    BY DEF QuietStep
  <2> QED BY <2>1, <2>2, QuietFrame
<1> SUFFICES ASSUME NEW r \in Requests PROVE OneCopyOf(r)'
  BY DEF OneCopy
<1>4. OneCopyOf(r)
  BY <1>0 DEF OneCopy
<1>5. \A t \in Links :
        Delivering(t, r)' => t # s /\ Delivering(t, r) /\ session'[t].answer = session[t].answer
  BY <1>3 DEF Delivering
<1>6. CASE r # q
  <2> DEFINE zero == [t \in Links |-> 0]
  <2>1. channel'[r] = channel[r]
    BY <1>0, <1>1, <1>6 DEF HubTypeOK
  <2>2. /\ \A t \in Links, k \in Nat : InDown(t, k, r)' => InDown(t, k + zero[t], r)
        /\ \A t \in Links, k \in Nat :
             InUp(t, k, r)' => InUp(t, k + zero[t], r) /\ uplink'[t][k].how = uplink[t][k + zero[t]].how
        /\ \A c \in Connectors : Busy(c, r)' => Busy(c, r)
    BY <1>1, SamePlaces
  <2>3. zero \in [Links -> Nat]
    OBVIOUS
  <2> HIDE DEF zero, q
  <2> QED BY <1>1, <1>4, <1>5, <2>1, <2>2, <2>3, CopyKept
<1>7. CASE r = q
  <2>1. /\ handled[r] \in Answers /\ session[s].answer.how = handled[r]
        /\ \A c \in Connectors : ~Busy(c, r)
        /\ \A t \in Links, k \in Nat : ~InUp(t, k, r)
        /\ \A t \in Links : Delivering(t, r) => t = s
    BY <1>2, <1>4, <1>7 DEF OneCopyOf, OnePlace, TellsTruth
  <2>2. /\ \A c \in Connectors : ~Busy(c, r)'
        /\ \A t \in Links, k \in Nat : ~InUp(t, k, r)'
        /\ \A t \in Links : ~Delivering(t, r)'
    BY <1>1, <1>5, <2>1 DEF Busy, InUp
  <2>3. channel'[r] = handled[r]
    BY <1>0, <1>1, <1>7, <2>1 DEF HubTypeOK
  <2>4. DownOnce(r)' /\ EarlyUnhandled(r)'
    BY <1>1, <1>4 DEF OneCopyOf, DownOnce, EarlyUnhandled, InDown
  <2>5. TellsTruth(r)' /\ OnePlace(r)'
    BY <1>1, <2>2, <2>3 DEF TellsTruth, OnePlace
  <2> QED BY <2>4, <2>5 DEF OneCopyOf
<1> QED BY <1>6, <1>7

\* CopyKept where no queue has moved.
LEMMA CopyStays ==
  ASSUME NEW r \in Requests, OneCopyOf(r),
         handled'[r] = handled[r],
         request'[r].pc \in Early => request[r].pc \in Early,
         \A s \in Links, k \in Nat : InDown(s, k, r)' => InDown(s, k, r),
         \A c \in Connectors : Busy(c, r)' => Busy(c, r),
         \A s \in Links, k \in Nat :
           InUp(s, k, r)' => InUp(s, k, r) /\ uplink'[s][k].how = uplink[s][k].how,
         \A s \in Links :
           Delivering(s, r)' => Delivering(s, r) /\ session'[s].answer = session[s].answer,
         InChannel(r)' => channel'[r] = channel[r]
  PROVE  OneCopyOf(r)'
<1> DEFINE zero == [t \in Links |-> 0]
<1>1. zero \in [Links -> Nat] /\ \A s \in Links, k \in Nat : k + zero[s] = k
  OBVIOUS
<1> HIDE DEF zero
<1>2. \A s \in Links, k \in Nat : InDown(s, k, r)' => InDown(s, k + zero[s], r)
  BY <1>1
<1>3. \A s \in Links, k \in Nat :
        InUp(s, k, r)' => InUp(s, k + zero[s], r) /\ uplink'[s][k].how = uplink[s][k + zero[s]].how
  BY <1>1
<1> QED BY <1>1, <1>2, <1>3, CopyKept

\* A request moves from the downlink to the connector, which handles it now.
LEMMA RequestCopies ==
  ASSUME HubInv, NEW c \in Connectors, handleRequest(c)
  PROVE  OneCopy'
<1> DEFINE s == client[c].link
           q == Head(downlink[s])
<1>0. HubTypeOK /\ OneCopy /\ client[c] \in ClientRecords
  BY DEF HubInv, HubTypeOK
<1>1. /\ UNCHANGED <<session, uplink, request, channel>>
      /\ downlink[s] # <<>> /\ downlink' = [downlink EXCEPT ![s] = Tail(@)]
      /\ client' = [client EXCEPT ![c].busy = q]
      /\ handled' \in {[handled EXCEPT ![q] = "ran"], [handled EXCEPT ![q] = "refused"]}
      /\ s \in Links
  BY <1>0 DEF handleRequest, requestVars, ClientRecords
<1>2. TakesDown(s)
  BY <1>1 DEF TakesDown
<1>3. q \in Requests /\ q = downlink[s][1] /\ 1 \in 1 .. Len(downlink[s])
  BY <1>0, <1>1, HeadAndTail DEF HubTypeOK
<1>4. InDown(s, 1, q)
  BY <1>3 DEF InDown
<1>5. /\ client'[c].busy = q
      /\ \A f \in Connectors \ {c} : client'[f] = client[f]
  BY <1>0, <1>1 DEF HubTypeOK, ClientRecords
<1>6. /\ handled'[q] \in Answers
      /\ \A r \in Requests \ {q} : handled'[r] = handled[r]
  BY <1>0, <1>1, <1>3 DEF HubTypeOK, Answers
<1> HIDE DEF q, s
<1> SUFFICES ASSUME NEW r \in Requests PROVE OneCopyOf(r)'
  BY DEF OneCopy
<1>7. OneCopyOf(r)
  BY <1>0 DEF OneCopy
<1>8. CASE r # q
  <2> DEFINE zero == [t \in Links |-> 0]
             one == [t \in Links |-> IF t = s THEN 1 ELSE 0]
  <2>0. /\ zero \in [Links -> Nat] /\ one \in [Links -> Nat]
        /\ one[s] = 1 /\ \A t \in Links, k \in Nat : t # s => k + one[t] = k
    BY <1>1
  <2>1. /\ \A t \in Links, k \in Nat :
             InUp(t, k, r)' => InUp(t, k + zero[t], r) /\ uplink'[t][k].how = uplink[t][k + zero[t]].how
        /\ \A t \in Links :
             Delivering(t, r)' => Delivering(t, r) /\ session'[t].answer = session[t].answer
    BY <1>1, SamePlaces
  <2> HIDE DEF zero, one
  <2>2. ASSUME NEW t \in Links, NEW k \in Nat, InDown(t, k, r)'
        PROVE  InDown(t, k + one[t], r)
    <3>1. CASE t = s
      <4>1. InDown(s, k + 1, r)
        BY <1>0, <1>1, <1>2, <2>2, <3>1, TailOfDown
      <4> QED BY <2>0, <3>1, <4>1
    <3>2. CASE t # s
      <4>1. InDown(t, k, r)
        BY <1>0, <1>1, <1>2, <2>2, <3>2, TailOfDown
      <4> QED BY <2>0, <3>2, <4>1
    <3> QED BY <3>1, <3>2
  <2>3. \A f \in Connectors : Busy(f, r)' => Busy(f, r)
    BY <1>5, <1>8 DEF Busy
  <2>4. handled'[r] = handled[r] /\ request'[r] = request[r] /\ channel'[r] = channel[r]
    BY <1>1, <1>6, <1>8
  <2> QED BY <1>7, <2>0, <2>1, <2>2, <2>3, <2>4, CopyKept
<1>9. CASE r = q
  <2>1. /\ handled[r] = "no" /\ request[r].pc \notin Early
        /\ \A t \in Links, l \in Nat : InDown(t, l, r) => t = s /\ l = 1
    BY <1>1, <1>4, <1>7, <1>9 DEF OneCopyOf, DownOnce
  <2>2. /\ \A f \in Connectors : ~Busy(f, r)
        /\ \A t \in Links, l \in Nat : ~InUp(t, l, r)
        /\ \A t \in Links : ~Delivering(t, r)
        /\ ~InChannel(r)
    BY <1>0, <1>7, <2>1 DEF OneCopyOf, TellsTruth, InChannel, HubTypeOK, Answers
  <2>3. /\ \A f \in Connectors : Busy(f, r)' => f = c
        /\ \A t \in Links, l \in Nat : ~InUp(t, l, r)'
        /\ \A t \in Links : ~Delivering(t, r)'
        /\ ~InChannel(r)'
    BY <1>1, <1>5, <2>2 DEF Busy, InUp, Delivering, InChannel
  <2>4. ASSUME NEW t \in Links, NEW k \in Nat, InDown(t, k, r)'
        PROVE  FALSE
    <3>1. CASE t = s
      <4>1. k \in Nat \ {0} /\ InDown(s, k + 1, r)
        BY <1>0, <1>1, <1>2, <2>4, <3>1, TailOfDown
      <4>2. k + 1 = 1
        BY <1>1, <2>1, <4>1
      <4> QED BY <4>1, <4>2
    <3>2. CASE t # s
      BY <1>0, <1>1, <1>2, <2>1, <2>4, <3>2, TailOfDown
    <3> QED BY <3>1, <3>2
  <2>5. DownOnce(r)'
    BY <2>4 DEF DownOnce
  <2>6. EarlyUnhandled(r)'
    BY <1>1, <2>1 DEF EarlyUnhandled
  <2>7. TellsTruth(r)' /\ OnePlace(r)'
    BY <1>6, <1>9, <2>3 DEF TellsTruth, OnePlace
  <2> QED BY <2>5, <2>6, <2>7 DEF OneCopyOf
<1> QED BY <1>8, <1>9

\* The answer moves from the connector to the uplink.
LEMMA ResponseCopies ==
  ASSUME HubInv, NEW c \in Connectors, writeResponse(c)
  PROVE  OneCopy'
<1> DEFINE s == client[c].link
           q == client[c].busy
           n == Len(uplink[s]) + 1
           m == [type |-> "response", id |-> q, how |-> handled[q]]
<1>0. HubTypeOK /\ OneCopy /\ client[c] \in ClientRecords
  BY DEF HubInv, HubTypeOK
<1>1. /\ UNCHANGED <<session, downlink, request, channel, handled>>
      /\ uplink' = [uplink EXCEPT ![s] = Append(@, m)]
      /\ client' = [client EXCEPT ![c].busy = None]
      /\ s \in Links /\ q \in Requests
  BY <1>0 DEF writeResponse, requestVars, ClientRecords
<1>2. /\ client'[c].busy = None
      /\ \A f \in Connectors \ {c} : client'[f] = client[f]
  BY <1>0, <1>1 DEF HubTypeOK, ClientRecords
<1>3. Busy(c, q) /\ handled[q] \in Answers
  BY <1>0, <1>1 DEF Busy, OneCopy, OneCopyOf, TellsTruth
<1>4. m \in Messages /\ uplink[s] \in Seq(Messages)
  BY <1>0, <1>1, <1>3, MessagesTyped DEF HubTypeOK
<1>5. m.type = "response" /\ m.id = q /\ m.how = handled[q]
  OBVIOUS
<1> HIDE DEF m
<1>6. /\ uplink'[s] = Append(uplink[s], m)
      /\ \A t \in Links \ {s} : uplink'[t] = uplink[t]
  BY <1>0, <1>1 DEF HubTypeOK
<1>7. /\ Len(uplink'[s]) = n /\ n \in Nat
      /\ uplink'[s][n] = m
      /\ \A k \in 1 .. n - 1 : uplink'[s][k] = uplink[s][k] /\ k \in 1 .. Len(uplink[s])
  BY <1>4, <1>6, Appended
<1> HIDE DEF q, s, n
<1> SUFFICES ASSUME NEW r \in Requests PROVE OneCopyOf(r)'
  BY DEF OneCopy
<1>8. OneCopyOf(r)
  BY <1>0 DEF OneCopy
<1>9. ASSUME NEW t \in Links, NEW k \in Nat, InUp(t, k, r)'
      PROVE  \/ InUp(t, k, r) /\ uplink'[t][k] = uplink[t][k]
             \/ r = q /\ t = s /\ k = n
  <2>1. CASE t # s
    BY <1>6, <1>9, <2>1 DEF InUp
  <2>2. CASE t = s /\ k \in 1 .. n - 1
    BY <1>7, <1>9, <2>2 DEF InUp
  <2>3. CASE t = s /\ k = n
    BY <1>5, <1>7, <1>9, <2>3 DEF InUp
  <2>4. t = s => k \in 1 .. n
    BY <1>7, <1>9 DEF InUp
  <2> QED BY <1>7, <2>1, <2>2, <2>3, <2>4
<1>10. CASE r # q
  <2>1. \A f \in Connectors : Busy(f, r)' => Busy(f, r)
    BY <1>2, NoneIsNone DEF Busy
  <2>2. \A t \in Links, k \in Nat :
          InUp(t, k, r)' => InUp(t, k, r) /\ uplink'[t][k].how = uplink[t][k].how
    BY <1>9, <1>10
  <2>3. /\ \A t \in Links, k \in Nat : InDown(t, k, r)' => InDown(t, k, r)
        /\ \A t \in Links :
             Delivering(t, r)' => Delivering(t, r) /\ session'[t].answer = session[t].answer
        /\ handled'[r] = handled[r] /\ request'[r] = request[r] /\ channel'[r] = channel[r]
    BY <1>1 DEF InDown, Delivering
  <2> QED BY <1>8, <2>1, <2>2, <2>3, CopyStays
<1>11. CASE r = q
  <2>1. /\ \A f \in Connectors : Busy(f, r) => f = c
        /\ \A t \in Links, l \in Nat : ~InUp(t, l, r)
        /\ \A t \in Links : ~Delivering(t, r)
        /\ ~InChannel(r)
    BY <1>3, <1>8, <1>11 DEF OneCopyOf, OnePlace
  <2>2. /\ \A f \in Connectors : ~Busy(f, r)'
        /\ \A t \in Links : ~Delivering(t, r)'
        /\ ~InChannel(r)'
    BY <1>1, <1>2, <2>1, NoneIsNone DEF Busy, Delivering, InChannel
  <2>3. \A t \in Links, k \in Nat : InUp(t, k, r)' => t = s /\ k = n
    BY <1>9, <2>1
  <2>4. uplink'[s][n].how = handled[r]
    BY <1>5, <1>7, <1>11
  <2>5. DownOnce(r)' /\ EarlyUnhandled(r)'
    BY <1>1, <1>8 DEF OneCopyOf, DownOnce, EarlyUnhandled, InDown
  <2>6. TellsTruth(r)'
    BY <1>1, <1>3, <1>11, <2>2, <2>3, <2>4 DEF TellsTruth
  <2>7. OnePlace(r)'
    BY <2>2, <2>3 DEF OnePlace
  <2> QED BY <2>5, <2>6, <2>7 DEF OneCopyOf
<1> QED BY <1>10, <1>11

\* Hello, advertisements and heartbeats answer nothing.
LEMMA AdvertiseCopies ==
  ASSUME HubInv, NEW c \in Connectors, heartbeatLoop(c) \/ \E s \in Links : runOnce(c, s)
  PROVE  OneCopy'
<1>0. HubTypeOK /\ OneCopy /\ client[c] \in ClientRecords
  BY DEF HubInv, HubTypeOK
<1>1. UNCHANGED <<session, downlink, request, channel, handled>>
  BY DEF heartbeatLoop, runOnce, requestVars
<1>2. PICK s \in Links, msgs \in Seq({x \in Messages : x.type # "response"}) :
        uplink' = [uplink EXCEPT ![s] = msgs]
  <2> DEFINE Others == {x \in Messages : x.type # "response"}
  <2>1. /\ advertise(c) \in Others /\ [type |-> "heartbeat"] \in Others
        /\ [type |-> "hello", connector |-> c] \in Others
    BY <1>0, MessagesTyped DEF advertise, HubTypeOK
  <2>2. CASE heartbeatLoop(c)
    <3> DEFINE s == client[c].link
               beat == [type |-> "heartbeat"]
               msgs == IF sharing[c] # client[c].advertised THEN <<advertise(c), beat>> ELSE <<beat>>
    <3>1. s \in Links /\ uplink[s] = <<>> /\ uplink' = [uplink EXCEPT ![s] = uplink[s] \o msgs]
      BY <1>0, <2>2 DEF heartbeatLoop, ClientRecords
    <3> HIDE DEF beat, Others
    <3>2. <<advertise(c), beat>> \in Seq(Others) /\ <<beat>> \in Seq(Others)
      BY <2>1 DEF beat
    <3>3. msgs \in Seq(Others)
      BY <3>2
    <3> HIDE DEF msgs
    <3>4. uplink[s] \o msgs = msgs
      BY <3>1, <3>3
    <3> QED BY <3>1, <3>3, <3>4 DEF Others
  <2>3. CASE \E s \in Links : runOnce(c, s)
    <3>1. PICK s \in Links : runOnce(c, s)
      BY <2>3
    <3> DEFINE msgs == <<[type |-> "hello", connector |-> c], advertise(c)>>
    <3>2. uplink' = [uplink EXCEPT ![s] = msgs]
      BY <3>1 DEF runOnce
    <3> HIDE DEF Others
    <3>3. msgs \in Seq(Others)
      BY <2>1
    <3> HIDE DEF msgs
    <3> QED BY <3>2, <3>3 DEF Others
  <2> QED BY <2>2, <2>3
<1>3. \A f \in Connectors, r \in Requests : Busy(f, r)' => Busy(f, r)
  <2>1. CASE heartbeatLoop(c)
    <3>1. client' = [client EXCEPT ![c] = [client[c] EXCEPT !.advertised = sharing[c]]]
      BY <2>1 DEF heartbeatLoop
    <3>2. [client[c] EXCEPT !.advertised = sharing[c]].busy = client[c].busy
      BY <1>0 DEF ClientRecords
    <3> QED BY <1>0, <3>1, <3>2 DEF Busy, HubTypeOK
  <2>2. ASSUME NEW u \in Links, runOnce(c, u)
        PROVE  \A f \in Connectors, r \in Requests : Busy(f, r)' => Busy(f, r)
    <3>1. client' = [client EXCEPT ![c] = [link |-> u, advertised |-> sharing[c], busy |-> None]]
      BY <2>2 DEF runOnce
    <3>2. client'[c].busy = None /\ \A f \in Connectors \ {c} : client'[f] = client[f]
      BY <1>0, <3>1 DEF HubTypeOK
    <3> QED BY <3>2, NoneIsNone DEF Busy
  <2> QED BY <2>1, <2>2
<1>4. ASSUME NEW r \in Requests, NEW t \in Links, NEW k \in Nat, InUp(t, k, r)'
      PROVE  InUp(t, k, r) /\ uplink'[t] = uplink[t]
  <2>1. t # s
    <3> SUFFICES ASSUME t = s PROVE FALSE
      OBVIOUS
    <3>1. uplink'[s] = msgs
      BY <1>0, <1>2 DEF HubTypeOK
    <3>2. k \in 1 .. Len(msgs) /\ msgs[k].type = "response"
      BY <1>4, <3>1 DEF InUp
    <3>3. msgs[k] \in {x \in Messages : x.type # "response"}
      BY <3>2
    <3> QED BY <3>2, <3>3
  <2>2. uplink'[t] = uplink[t]
    BY <1>0, <1>2, <2>1 DEF HubTypeOK
  <2> QED BY <1>4, <2>2 DEF InUp
<1> SUFFICES ASSUME NEW r \in Requests PROVE OneCopyOf(r)'
  BY DEF OneCopy
<1>5. /\ OneCopyOf(r)
      /\ \A t \in Links, k \in Nat : InDown(t, k, r)' => InDown(t, k, r)
      /\ \A t \in Links :
           Delivering(t, r)' => Delivering(t, r) /\ session'[t].answer = session[t].answer
      /\ handled'[r] = handled[r] /\ request'[r] = request[r] /\ channel'[r] = channel[r]
  BY <1>0, <1>1 DEF OneCopy, InDown, Delivering
<1> QED BY <1>3, <1>4, <1>5, CopyStays

\* A request that is sent enters the downlink; before, it was nowhere.
LEMMA ProxyCopies ==
  ASSUME HubInv, NEW q \in Requests, proxy(q)
  PROVE  OneCopy'
<1> DEFINE s == request[q].sess
           n == Len(downlink[s]) + 1
<1>0. HubTypeOK /\ OneCopy
  BY DEF HubInv
<1>1. /\ UNCHANGED <<session, uplink, client, channel, handled>>
      /\ request[q].pc = "sending" /\ s \in Links
  BY <1>0 DEF proxy, clientVars, HubTypeOK
<1>2. /\ request'[q].pc \in {"waiting", "done"}
      /\ \A r \in Requests \ {q} : request'[r] = request[r]
  BY <1>0, <1>1 DEF proxy, finish, HubTypeOK, RequestRecords
<1>3. /\ downlink' \in {downlink, [downlink EXCEPT ![s] = Append(@, q)]}
      /\ downlink[s] \in Seq(Requests)
  BY <1>0, <1>1 DEF proxy, HubTypeOK
<1>4. ASSUME NEW r \in Requests, NEW t \in Links, NEW k \in Nat, InDown(t, k, r)'
      PROVE  InDown(t, k, r) \/ (r = q /\ t = s /\ k = n)
  <2>1. CASE downlink' = downlink
    BY <1>4, <2>1 DEF InDown
  <2>2. CASE downlink' = [downlink EXCEPT ![s] = Append(@, q)]
    <3>1. CASE t # s
      BY <1>0, <1>1, <1>4, <2>2, <3>1 DEF InDown, HubTypeOK
    <3>2. CASE t = s
      <4>1. downlink'[s] = Append(downlink[s], q)
        BY <1>0, <1>1, <2>2 DEF HubTypeOK
      <4>2. /\ Len(downlink'[s]) = n /\ n \in Nat
            /\ downlink'[s][n] = q
            /\ \A l \in 1 .. Len(downlink[s]) : downlink'[s][l] = downlink[s][l]
        BY <1>3, <4>1, Appended
      <4>3. k \in 1 .. n /\ downlink'[s][k] = r
        BY <1>4, <3>2, <4>2 DEF InDown
      <4>4. k = n \/ k \in 1 .. Len(downlink[s])
        BY <1>3, <4>3
      <4> QED BY <3>2, <4>2, <4>3, <4>4 DEF InDown
    <3> QED BY <3>1, <3>2
  <2> QED BY <1>3, <2>1, <2>2
<1> HIDE DEF n, s
<1> SUFFICES ASSUME NEW r \in Requests PROVE OneCopyOf(r)'
  BY DEF OneCopy
<1>5. OneCopyOf(r)
  BY <1>0 DEF OneCopy
<1>6. CASE r # q
  <2>1. /\ \A t \in Links, k \in Nat : InDown(t, k, r)' => InDown(t, k, r)
        /\ request'[r] = request[r]
    BY <1>2, <1>4, <1>6
  <2>2. /\ \A f \in Connectors : Busy(f, r)' => Busy(f, r)
        /\ \A t \in Links, k \in Nat :
             InUp(t, k, r)' => InUp(t, k, r) /\ uplink'[t][k].how = uplink[t][k].how
        /\ \A t \in Links :
             Delivering(t, r)' => Delivering(t, r) /\ session'[t].answer = session[t].answer
        /\ handled'[r] = handled[r] /\ channel'[r] = channel[r]
    BY <1>1 DEF Busy, InUp, Delivering
  <2> QED BY <1>5, <2>1, <2>2, CopyStays
<1>7. CASE r = q
  <2>1. /\ handled[r] = "no" /\ request'[r].pc \notin Early
        /\ \A t \in Links, k \in Nat : ~InDown(t, k, r)
    BY <1>1, <1>2, <1>5, <1>7 DEF OneCopyOf, EarlyUnhandled, DownOnce, Early
  <2>2. DownOnce(r)'
    BY <1>1, <1>4, <2>1 DEF DownOnce
  <2>3. EarlyUnhandled(r)'
    BY <2>1 DEF EarlyUnhandled
  <2>4. TellsTruth(r)' /\ OnePlace(r)'
    BY <1>1, <1>5 DEF OneCopyOf, TellsTruth, OnePlace, Busy, InUp, Delivering, InChannel
  <2> QED BY <2>2, <2>3, <2>4 DEF OneCopyOf
<1> QED BY <1>6, <1>7

\* The rest of a request touches its own handler, and empties its channel.
LEMMA RestCopies ==
  ASSUME HubInv,
         \/ \E q \in Requests :
              proxyRequest(q) \/ Get(q) \/ removeExpired(q) \/ receiveResponse(q) \/ proxyTimeout(q)
         \/ \E c \in Connectors : shareInstances(c) \/ SetConnectorDisabled(c)
         \/ UNCHANGED vars
  PROVE  OneCopy'
<1> USE DEF hubVars, storeVars, wireVars, clientVars, requestVars
<1>0. HubTypeOK /\ OneCopy
  BY DEF HubInv
<1>1. UNCHANGED <<session, uplink, downlink, client, handled>>
  BY DEF proxyRequest, Get, removeExpired, receiveResponse, proxyTimeout, shareInstances,
         SetConnectorDisabled, vars
<1>2. \A r \in Requests : channel'[r] \in {channel[r], "empty"}
  BY <1>0 DEF proxyRequest, Get, removeExpired, receiveResponse, proxyTimeout, shareInstances,
              SetConnectorDisabled, vars, HubTypeOK
<1>3. \A r \in Requests : request'[r].pc \in Early => request[r].pc \in Early
  <2>1. CASE request' = request
    BY <2>1
  <2>2. ASSUME NEW q \in Requests, proxyRequest(q) \/ Get(q)
        PROVE  \A r \in Requests : request'[r].pc \in Early => request[r].pc \in Early
    <3>1. request[q].pc \in Early
      BY <2>2 DEF proxyRequest, Get, Early
    <3>2. \A r \in Requests \ {q} : request'[r] = request[r]
      BY <1>0, <2>2 DEF proxyRequest, Get, finish, HubTypeOK
    <3> QED BY <3>1, <3>2
  <2>3. ASSUME NEW q \in Requests, removeExpired(q) \/ receiveResponse(q) \/ proxyTimeout(q)
        PROVE  \A r \in Requests : request'[r].pc \in Early => request[r].pc \in Early
    <3>1. request'[q].pc = "done" /\ \A r \in Requests \ {q} : request'[r] = request[r]
      BY <1>0, <2>3 DEF removeExpired, receiveResponse, proxyTimeout, finish, HubTypeOK
    <3> QED BY <3>1 DEF Early
  <2> QED BY <2>1, <2>2, <2>3 DEF shareInstances, SetConnectorDisabled, vars
<1> SUFFICES ASSUME NEW r \in Requests PROVE OneCopyOf(r)'
  BY DEF OneCopy
<1>4. /\ \A f \in Connectors : Busy(f, r)' => Busy(f, r)
      /\ \A t \in Links, k \in Nat : InDown(t, k, r)' => InDown(t, k, r)
      /\ \A t \in Links, k \in Nat :
           InUp(t, k, r)' => InUp(t, k, r) /\ uplink'[t][k].how = uplink[t][k].how
      /\ \A t \in Links :
           Delivering(t, r)' => Delivering(t, r) /\ session'[t].answer = session[t].answer
      /\ handled'[r] = handled[r]
  BY <1>1 DEF Busy, InDown, InUp, Delivering
<1>5. InChannel(r)' => channel'[r] = channel[r]
  BY <1>2 DEF InChannel
<1>6. OneCopyOf(r)
  BY <1>0 DEF OneCopy
<1> QED BY <1>3, <1>4, <1>5, <1>6, CopyStays

-----------------------------------------------------------------------------
(* The theorems *)

\* The invariant holds initially.
LEMMA InitHub ==
  Init => HubInv
<1> SUFFICES ASSUME Init PROVE HubInv
  OBVIOUS
<1> USE DEF Init
<1>1. HubTypeOK
  <2>1. session \in [Links -> SessionRecords] /\ client \in [Connectors -> ClientRecords]
    BY NoSessionTyped, NoClientTyped
  <2>2. sharing \in [Connectors -> SUBSET Instances]
    BY RelayHubConstants
  <2>3. /\ request \in [Requests -> RequestRecords]
        /\ \A r \in Requests : request[r].pc = "idle"
    BY DEF RequestRecords, Outcomes
  <2>4. /\ uplink \in [Links -> Seq(Messages)] /\ downlink \in [Links -> Seq(Requests)]
        /\ channel \in [Requests -> Answers \cup {"empty"}]
        /\ handled \in [Requests -> Answers \cup {"no"}]
        /\ sessions \in [Instances -> Links \cup {None}]
        /\ connectors \in [Connectors -> Links \cup {None}]
    OBVIOUS
  <2> QED BY <2>1, <2>2, <2>3, <2>4 DEF HubTypeOK
<1>2. RoutedIsGreeted /\ DeliveringTyped
  <2>1. \A s \in Links : ~Routed(s)
    BY NoneIsNone DEF Routed
  <2>2. \A s \in Links : session[s].pc = "unused"
    BY DEF NoSession
  <2> QED BY <2>1, <2>2 DEF RoutedIsGreeted, DeliveringTyped
<1>3. ASSUME NEW r \in Requests PROVE OneCopyOf(r)
  <2>1. /\ \A s \in Links, k \in Nat : ~InDown(s, k, r) /\ ~InUp(s, k, r)
        /\ ~InChannel(r)
    BY DEF InDown, InUp, InChannel
  <2>2. /\ \A s \in Links : ~Delivering(s, r)
        /\ \A c \in Connectors : ~Busy(c, r)
    BY NoneIsNone, NoClientTyped DEF NoSession, Delivering, Busy
  <2>3. handled[r] = "no"
    OBVIOUS
  <2> QED BY <2>1, <2>2, <2>3
          DEF OneCopyOf, DownOnce, EarlyUnhandled, TellsTruth, OnePlace
<1> QED BY <1>1, <1>2, <1>3 DEF HubInv, OneCopy

\* Every step preserves the invariant.
LEMMA NextHub ==
  ASSUME HubInv, [Next]_vars
  PROVE  HubInv'
<1>1. ASSUME NEW s \in Links,
             relayStep(s) \/ advertiseFails(s) \/ connectionLost(s) \/ sessionTTL(s)
      PROVE  HubInv'
  <2>1. HubTypeOK' /\ RoutedIsGreeted' /\ DeliveringTyped'
    BY <1>1, LinkTypes, GreetedOfLink
  <2>2. OneCopy'
    BY <1>1, LinkCopies, MessageCopies, DeliverCopies DEF relayStep
  <2> QED BY <2>1, <2>2 DEF HubInv
<1>2. ASSUME NEW r \in Requests, proxyRequest(r) \/ requestStep(r)
      PROVE  HubInv'
  <2>1. HubTypeOK' /\ RoutedIsGreeted' /\ DeliveringTyped'
    BY <1>2, RequestTypes, GreetedOfOthers
  <2>2. OneCopy'
    BY <1>2, ProxyCopies, RestCopies DEF requestStep
  <2> QED BY <2>1, <2>2 DEF HubInv
<1>3. ASSUME NEW c \in Connectors,
             \/ heartbeatLoop(c) \/ shareInstances(c) \/ handleRequest(c) \/ writeResponse(c)
             \/ SetConnectorDisabled(c) \/ \E s \in Links : runOnce(c, s)
      PROVE  HubInv'
  <2>1. HubTypeOK' /\ RoutedIsGreeted' /\ DeliveringTyped'
    BY <1>3, ConnectorTypes, GreetedOfOthers
  <2>2. OneCopy'
    BY <1>3, AdvertiseCopies, RequestCopies, ResponseCopies, RestCopies
  <2> QED BY <2>1, <2>2 DEF HubInv
<1>4. CASE UNCHANGED vars
  <2>1. HubTypeOK'
    BY <1>4 DEF HubInv, HubTypeOK, vars, hubVars, wireVars, clientVars, requestVars
  <2> QED BY <1>4, <2>1, GreetedOfOthers, RestCopies DEF HubInv
<1> QED BY <1>1, <1>2, <1>3, <1>4 DEF Next

\* Whatever the order of reconnection, advertisement, failure and expiry on any
\* number of links, the hub routes to no session that has ended: the deferred
\* RemoveSession of a session leaves no entry of it behind.
THEOREM RoutesAreOpen == Spec => []RoutedSessionIsOpen
<1>1. HubInv => RoutedSessionIsOpen
  BY DEF HubInv, HubTypeOK, RoutedIsGreeted, Routed, RoutedSessionIsOpen
<1> QED BY <1>1, InitHub, NextHub, PTL DEF Spec

\* The goroutine that reads a link always finds room in the channel of the
\* response it is to deliver, however late the response is (hub.go
\* handleMessage sends after the unlock, to a channel of one).
THEOREM DeliveryHasRoom == Spec => []DeliveryNeverBlocks
<1>1. HubInv => DeliveryNeverBlocks
  <2> SUFFICES ASSUME HubInv, NEW s \in Links, session[s].pc = "delivering"
               PROVE  channel[session[s].answer.to] = "empty"
    BY DEF DeliveryNeverBlocks
  <2> DEFINE r == session[s].answer.to
  <2>1. r \in Requests /\ Delivering(s, r)
    BY DEF HubInv, DeliveringTyped, Delivering
  <2>2. ~InChannel(r)
    BY <2>1 DEF HubInv, OneCopy, OneCopyOf, OnePlace
  <2> QED BY <2>2 DEF InChannel
<1> QED BY <1>1, InitHub, NextHub, PTL DEF Spec

\* A step of one handler, as the caller sees it.
LEMMA ToldFrame ==
  ASSUME HubInv, NEW q \in Requests, \A r \in Requests \ {q} : request'[r] = request[r]
  PROVE  [r \in Requests |-> told(r)]' = [[r \in Requests |-> told(r)] EXCEPT ![q] = told(q)']
BY DEF told

\* A request's steps are steps of the abstract call, or none.
LEMMA RequestRefines ==
  ASSUME HubInv, NEW q \in Requests, proxyRequest(q) \/ requestStep(q)
  PROVE  [Call!Next]_(Call!vars)
<1> USE DEF hubVars, storeVars, wireVars, clientVars, requestVars
<1>0. /\ HubTypeOK /\ OneCopyOf(q) /\ request[q] \in RequestRecords
      /\ "failed" \in Outcomes
  BY DEF HubInv, HubTypeOK, OneCopy, Outcomes
<1>1. handled' = handled
  BY DEF proxyRequest, requestStep, Get, removeExpired, proxy, receiveResponse, proxyTimeout
<1>2. request[q].pc \in {"idle", "lookup", "expiring", "sending", "waiting"}
  BY DEF proxyRequest, requestStep, Get, removeExpired, proxy, receiveResponse, proxyTimeout
<1>3. told(q) \in {"idle", "open"}
  BY <1>2 DEF told
<1>4. CASE finish(q, "failed")
  <2>1. /\ \A r \in Requests \ {q} : request'[r] = request[r]
        /\ request'[q].pc = "done" /\ request'[q].got = "failed"
    BY <1>0, <1>4, FinishTyped
  <2>2. told(q)' = "failed"
    BY <2>1 DEF told
  <2>3. [r \in Requests |-> told(r)]' = [[r \in Requests |-> told(r)] EXCEPT ![q] = "failed"]
    BY <2>1, <2>2, ToldFrame
  <2>4. Call!Fail(q)
    BY <1>1, <1>3, <2>3 DEF Call!Fail
  <2> QED BY <2>4 DEF Call!Next
<1>5. CASE receiveResponse(q)
  <2>1. finish(q, channel[q]) /\ channel[q] # "empty" /\ request[q].pc = "waiting"
    BY <1>5 DEF receiveResponse
  <2>2. channel[q] = handled[q] /\ channel[q] \in Answers
    BY <1>0, <2>1 DEF OneCopyOf, TellsTruth, InChannel, HubTypeOK
  <2>3. /\ \A r \in Requests \ {q} : request'[r] = request[r]
        /\ request'[q].pc = "done" /\ request'[q].got = handled[q]
    BY <1>0, <2>1, <2>2, FinishTyped DEF Outcomes, Answers
  <2>4. told(q) = "open" /\ told(q)' = handled[q]
    BY <2>1, <2>3 DEF told
  <2>5. [r \in Requests |-> told(r)]' = [[r \in Requests |-> told(r)] EXCEPT ![q] = handled[q]]
    BY <2>3, <2>4, ToldFrame
  <2>6. handled[q] # "no"
    BY <2>2 DEF Answers
  <2>7. Call!Answer(q)
    BY <1>1, <2>4, <2>5, <2>6 DEF Call!Answer
  <2> QED BY <2>7 DEF Call!Next
<1>6. CASE /\ request[q].pc = "idle" /\ request' = [request EXCEPT ![q].pc = "lookup"]
  <2>1. /\ \A r \in Requests \ {q} : request'[r] = request[r]
        /\ request'[q].pc = "lookup"
    BY <1>0, <1>6 DEF HubTypeOK, RequestRecords
  <2>2. told(q) = "idle" /\ told(q)' = "open"
    BY <1>6, <2>1 DEF told
  <2>3. [r \in Requests |-> told(r)]' = [[r \in Requests |-> told(r)] EXCEPT ![q] = "open"]
    BY <2>1, <2>2, ToldFrame
  <2>4. Call!Call(q)
    BY <1>1, <2>2, <2>3 DEF Call!Call
  <2> QED BY <2>4 DEF Call!Next
<1>7. CASE /\ request[q].pc \in {"lookup", "sending"}
           /\ request'[q].pc \in {"expiring", "sending", "waiting"}
           /\ \A r \in Requests \ {q} : request'[r] = request[r]
  <2>1. told(q) = "open" /\ told(q)' = "open"
    BY <1>7 DEF told
  <2>2. [r \in Requests |-> told(r)]' = [[r \in Requests |-> told(r)] EXCEPT ![q] = "open"]
    BY <1>7, <2>1, ToldFrame
  <2>3. [r \in Requests |-> told(r)]' = [r \in Requests |-> told(r)]
    BY <2>1, <2>2
  <2> QED BY <1>1, <2>3 DEF Call!vars
<1>8. CASE proxyRequest(q)
  BY <1>4, <1>6, <1>8 DEF proxyRequest
<1>9. CASE Get(q)
  <2>1. CASE ~finish(q, "failed")
    <3>1. /\ request[q].pc = "lookup"
          /\ request'[q].pc \in {"expiring", "sending", "waiting"}
          /\ \A r \in Requests \ {q} : request'[r] = request[r]
      BY <1>0, <1>9, <2>1 DEF Get, HubTypeOK, RequestRecords
    <3> QED BY <1>7, <3>1
  <2> QED BY <1>4, <2>1
<1>10. CASE proxy(q)
  <2>1. CASE ~finish(q, "failed")
    <3>1. /\ request[q].pc = "sending"
          /\ request'[q].pc \in {"expiring", "sending", "waiting"}
          /\ \A r \in Requests \ {q} : request'[r] = request[r]
      BY <1>0, <1>10, <2>1 DEF proxy, HubTypeOK, RequestRecords
    <3> QED BY <1>7, <3>1
  <2> QED BY <1>4, <2>1
<1>11. CASE removeExpired(q) \/ proxyTimeout(q)
  BY <1>4, <1>11 DEF removeExpired, proxyTimeout
<1> QED BY <1>5, <1>8, <1>9, <1>10, <1>11 DEF requestStep

\* The connector handles a request that has been sent and handled by nobody.
LEMMA HandleRefines ==
  ASSUME HubInv, NEW c \in Connectors, handleRequest(c)
  PROVE  [Call!Next]_(Call!vars)
<1> DEFINE s == client[c].link
           q == Head(downlink[s])
<1>0. HubTypeOK /\ OneCopy /\ client[c] \in ClientRecords
  BY DEF HubInv, HubTypeOK
<1>1. /\ request' = request
      /\ downlink[s] # <<>> /\ s \in Links
      /\ \E how \in {"ran", "refused"} : handled' = [handled EXCEPT ![q] = how]
  BY <1>0 DEF handleRequest, requestVars, ClientRecords
<1>2. q \in Requests /\ InDown(s, 1, q)
  <2>1. q \in Requests /\ q = downlink[s][1] /\ 1 \in 1 .. Len(downlink[s])
    BY <1>0, <1>1, HeadAndTail DEF HubTypeOK
  <2> QED BY <2>1 DEF InDown
<1>3. handled[q] = "no" /\ request[q].pc \notin Early
  BY <1>0, <1>1, <1>2 DEF OneCopy, OneCopyOf, DownOnce
<1>4. told(q) # "idle"
  <2>1. request[q] \in RequestRecords
    BY <1>0, <1>2 DEF HubTypeOK
  <2> QED BY <1>3, <2>1 DEF told, Early, RequestRecords, Outcomes
<1>5. [r \in Requests |-> told(r)]' = [r \in Requests |-> told(r)]
  BY <1>1 DEF told
<1>6. Call!Handle(q)
  BY <1>1, <1>2, <1>3, <1>4, <1>5 DEF Call!Handle
<1> QED BY <1>2, <1>6 DEF Call!Next

\* A request through the hub is a RemoteCall: it is handled at most once, and
\* its caller is told once, what was done with this very request or that the
\* call failed, whichever session carried it and whatever arrives late (hub.go
\* proxy and handleMessage, session.go handleRequest).
THEOREM HubImplementsRemoteCall == Spec => ImplementsRemoteCall
<1>1. Init => Call!Init
  BY DEF Init, Call!Init, told
<1>2. HubInv /\ [Next]_vars => [Call!Next]_(Call!vars)
  <2> SUFFICES ASSUME HubInv, [Next]_vars PROVE [Call!Next]_(Call!vars)
    OBVIOUS
  <2>1. CASE \E r \in Requests : proxyRequest(r) \/ requestStep(r)
    BY <2>1, RequestRefines
  <2>2. CASE \E c \in Connectors : handleRequest(c)
    BY <2>2, HandleRefines
  <2>3. CASE UNCHANGED <<request, handled>>
    <3>1. [r \in Requests |-> told(r)]' = [r \in Requests |-> told(r)]
      BY <2>3 DEF told
    <3> QED BY <2>3, <3>1 DEF Call!vars
  <2>4. ASSUME NEW s \in Links,
               relayStep(s) \/ advertiseFails(s) \/ connectionLost(s) \/ sessionTTL(s)
        PROVE  UNCHANGED <<request, handled>>
    BY <2>4 DEF relayStep, handleConnectorWebSocket, handleAdvertise, ReplaceConnectorInstances,
         removePruned, finishAdvertise, handleHeartbeat, handleMessage, deliver, readFails,
         advertiseFails, connectionLost, sessionTTL, clientVars, requestVars
  <2>5. ASSUME NEW c \in Connectors,
               \/ heartbeatLoop(c) \/ shareInstances(c) \/ writeResponse(c)
               \/ SetConnectorDisabled(c) \/ \E s \in Links : runOnce(c, s)
        PROVE  UNCHANGED <<request, handled>>
    BY <2>5 DEF heartbeatLoop, shareInstances, writeResponse, SetConnectorDisabled, runOnce,
         clientVars, requestVars
  <2>6. UNCHANGED vars => UNCHANGED <<request, handled>>
    BY DEF vars, clientVars, requestVars
  <2> QED BY <2>1, <2>2, <2>3, <2>4, <2>5, <2>6 DEF Next
<1> QED BY <1>1, <1>2, InitHub, NextHub, PTL DEF Spec, ImplementsRemoteCall, Call!Spec
=============================================================================
