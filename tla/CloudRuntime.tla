---- MODULE CloudRuntime ----
(***************************************************************************)
(* The cloud's runtime side: relay connectors claimed into a place of the  *)
(* org tree, the copies of their instances that every request refreshes    *)
(* from the relay, and the requests proxied to the relay.  The cloud's     *)
(* database and the relay's are two stores; a refresh reads one and        *)
(* rewrites rows of the other from the copies it holds.                    *)
(* Source: src/internal/cloud/runtime_api.go, mcp_server.go, mcp_tools.go. *)
(*                                                                         *)
(* An instance stays with the connector that shares it, and the relay      *)
(* forgets no connector.  RuntimeInstance.Enabled is never cleared by any  *)
(* operation and left out, as are status, health and timestamps.           *)
(***************************************************************************)
EXTENDS CloudAccess

CONSTANTS
    Connectors,   \* connectors enrolled at the relay
    Instances,
    HomeOf,       \* Instances -> Connectors, the connector that shares it
    ClaimPlaces,  \* the places into which connectors are claimed
    MaxShares     \* bound: changes of what the connectors share

ASSUME HomesAreConnectors == HomeOf \in [Instances -> Connectors]
ASSUME PlacesAreTargets == ClaimPlaces \subseteq Targets /\ MaxShares \in Nat

VARIABLES
    off,      \* the relay's disabled connectors
    shared,   \* the instances the relay lists
    shares,   \* changes of shared so far
    rconn,    \* claims: <<org, connector>> -> [at, enabled] or None
    rinst,    \* Instances -> [of, shared] or None; of is a claim
    toggle    \* history: Connectors -> the last enable or disable that began,
              \* "disabled" once that disable has been answered

runtimeVars == <<off, shared, shares, rconn, rinst, toggle>>

\* UNIQUE(org_id, connector_id): at most one claim per org and connector.
Claims == {at.org : at \in Targets} \X Connectors

rest == UNCHANGED <<members, tokens, scene>>

-----------------------------------------------------------------------------
(* Requests up to the refresh *)

\* Every handler ends in a refresh of one claim from the copy it read.
refreshWith(c, op, id, row, new, i) ==
    call' = [call EXCEPT ![c] = [pc |-> "refresh", op |-> op, who |-> call[c].who,
                                 id |-> id, row |-> row, new |-> new, i |-> i]]

\* The rows as the store reads them.
ListRuntimeConnectorInstallations == {id \in Claims : rconn[id] # None}
GetRuntimeConnectorInstallation(id) == rconn[id]
GetRuntimeInstance(i) == rinst[i]

findRuntimeConnectorByConnectorID(k) == {id \in ListRuntimeConnectorInstallations : id[2] = k}

\* POST /runtime/connectors: looks for a claim, then refreshes it, or a new
\* row that the refresh inserts.  A connector claimed twice is an error.
handleRuntimeConnectors(c) ==
    /\ authed(c, "claim")
    /\ \E k \in Connectors, at \in ClaimPlaces :
         LET found == findRuntimeConnectorByConnectorID(k)
             id    == <<at.org, k>>
             may   == TokenAllowsTarget(call[c].who, at)
             same  == found = {id} /\ rconn[id].at = at
         IN  IF may /\ found = {}
             THEN refreshWith(c, "claim", id, [at |-> at, enabled |-> TRUE], TRUE, None)
             ELSE IF may /\ same
             THEN refreshWith(c, "claim", id, rconn[id], FALSE, None)
             ELSE answer(c)
    /\ rest /\ UNCHANGED runtimeVars

\* Mutant: only the cloud's own row is disabled.
SetConnectorDisabledMutant(k, disabled) == off' = off

\* The relay's flag is set first; the cloud's row follows with the refresh.
SetConnectorDisabled(k, disabled) ==
    off' = IF disabled THEN off \cup {k} ELSE off \ {k}

handleRuntimeConnectorByID(c) ==
    /\ call[c].pc = "authed" /\ call[c].op \in {"enable", "disable", "sync"}
    /\ \E id \in ListRuntimeConnectorInstallations :
         LET row == GetRuntimeConnectorInstallation(id) IN
            IF ~TokenAllowsTarget(call[c].who, row.at)
            THEN answer(c) /\ UNCHANGED <<off, toggle>>
            ELSE \/ /\ call[c].op = "sync"
                    /\ refreshWith(c, "sync", id, row, FALSE, None)
                    /\ UNCHANGED <<off, toggle>>
                 \/ /\ call[c].op # "sync"
                    /\ SetConnectorDisabled(id[2], call[c].op = "disable")
                    /\ refreshWith(c, call[c].op, id,
                         [row EXCEPT !.enabled = (call[c].op = "enable")], FALSE, None)
                    /\ toggle' = [toggle EXCEPT ![id[2]] =
                         IF call[c].op = "enable" THEN "enable"
                         ELSE IF @ = "disabled" THEN @ ELSE "disable"]
    /\ rest /\ UNCHANGED <<shared, shares, rconn, rinst>>

\* A proxied request: the instance and its claim are read, and the token is
\* checked against the instance's place.
loadAuthorizedRuntimeInstance(c) ==
    /\ call[c].pc = "authed" /\ call[c].op \in {"start", "startByTool"}
    /\ \E i \in Instances :
         /\ GetRuntimeInstance(i) # None
         /\ LET id  == GetRuntimeInstance(i).of
                row == GetRuntimeConnectorInstallation(id)
            IN  IF TokenAllowsTarget(call[c].who, row.at)
                THEN refreshWith(c, call[c].op, id, row, FALSE, i)
                ELSE answer(c)
    /\ rest /\ UNCHANGED runtimeVars

-----------------------------------------------------------------------------
(* syncRuntimeConnectorFromRelay *)

upsertRuntimeConnectorInstallation(id, row) == rconn' = [rconn EXCEPT ![id] = row]

\* The claim's row, whole.  The insert of a second claim of the org fails,
\* and the request with it.
persistRuntimeConnectorInstallation(c) ==
    /\ call[c].pc = "refresh"
    /\ LET r == call[c]
       IN  IF r.new /\ rconn[r.id] # None
           THEN answer(c) /\ UNCHANGED rconn
           ELSE /\ upsertRuntimeConnectorInstallation(r.id, r.row)
                /\ call' = [call EXCEPT ![c] = [r EXCEPT !.pc = "list"]]
    /\ rest /\ UNCHANGED <<off, shared, shares, rinst, toggle>>

ListRuntimeInstances(id) == {i \in Instances : rinst[i] # None /\ rinst[i].of = id}

\* What the relay lists for the connector and what is stored for the claim.
ListInstancesByConnector(c) ==
    /\ call[c].pc = "list"
    /\ LET r      == call[c]
           listed == {i \in shared : HomeOf[i] = r.id[2]}
           stored == ListRuntimeInstances(r.id)
       IN  call' = [call EXCEPT ![c] =
             [pc |-> "write", op |-> r.op, who |-> r.who, id |-> r.id, i |-> r.i,
              listed |-> listed, orphans |-> stored \ listed]]
    /\ rest /\ UNCHANGED runtimeVars

\* The rows, one after the other, from the lists read before.
instanceRow(r, j) == [of |-> r.id, shared |-> j \in r.listed]

upsertRuntimeInstance(j, row) == rinst' = [rinst EXCEPT ![j] = row]

persistRuntimeInstance(c) ==
    /\ call[c].pc = "write"
    /\ \E j \in call[c].listed \cup call[c].orphans :
         /\ upsertRuntimeInstance(j, instanceRow(call[c], j))
         /\ call' = [call EXCEPT ![c] = [call[c] EXCEPT !.orphans = call[c].orphans \ {j},
                                                       !.listed = call[c].listed \ {j}]]
    /\ rest /\ UNCHANGED <<off, shared, shares, rconn, toggle>>

\* The refresh is done: a claim, enable, disable or sync answers.
answerRefresh(c) ==
    /\ call[c].pc = "write" /\ call[c].listed \cup call[c].orphans = {}
    /\ call[c].op \notin {"start", "startByTool"}
    /\ toggle' = [toggle EXCEPT ![call[c].id[2]] =
                    IF call[c].op = "disable" /\ @ = "disable" THEN "disabled" ELSE @]
    /\ answer(c)
    /\ rest /\ UNCHANGED <<off, shared, shares, rconn, rinst>>

-----------------------------------------------------------------------------
(* The proxied request itself *)

\* The instance is read again; the HTTP route also reads its claim, the tool
\* does not.
mayForward(r) ==
    /\ rinst[r.i].shared
    /\ r.op = "start" => rconn[r.id].enabled

\* ServeAsPlanner: the relay serves a listed instance of a connector that is
\* not disabled (see RelayRouting for how).
relayServes(i) == i \in shared /\ HomeOf[i] \notin off

serveRelayProxy(c) ==
    /\ call[c].pc = "write" /\ call[c].listed \cup call[c].orphans = {}
    /\ call[c].op \in {"start", "startByTool"}
    /\ IF mayForward(call[c]) /\ relayServes(call[c].i)
       THEN call' = [call EXCEPT ![c] = [pc |-> "served", i |-> call[c].i]]
       ELSE answer(c)
    /\ rest /\ UNCHANGED runtimeVars

returnAnswer(c) ==
    /\ call[c].pc = "served" /\ answer(c)
    /\ rest /\ UNCHANGED runtimeVars

\* A connector at the relay (external) shares or withdraws an instance.
advertise(i) ==
    /\ "sync" \in scene.ops /\ shares < MaxShares /\ shares' = shares + 1
    /\ shared' = IF i \in shared THEN shared \ {i} ELSE shared \cup {i}
    /\ UNCHANGED <<accessVars, off, rconn, rinst, toggle>>

-----------------------------------------------------------------------------

runtimeInit ==
    /\ off = {} /\ shared = {} /\ shares = 0 /\ toggle = [k \in Connectors |-> "enable"]
    /\ rconn = [id \in Claims |-> None]
    /\ rinst = [i \in Instances |-> None]

refreshStep(c) ==
    \/ persistRuntimeConnectorInstallation(c) \/ ListInstancesByConnector(c)
    \/ persistRuntimeInstance(c) \/ answerRefresh(c)

runtimeStep(c) ==
    \/ handleRuntimeConnectors(c) \/ handleRuntimeConnectorByID(c)
    \/ loadAuthorizedRuntimeInstance(c)
    \/ refreshStep(c) \/ serveRelayProxy(c) \/ returnAnswer(c)

-----------------------------------------------------------------------------

\* Once the disabling of a runtime connector has been answered, and until an
\* enable begins, no request reaches the machine behind it, although any
\* number of refreshes with older copies may write "enabled" back to the
\* cloud's own row.
DisableHolds ==
    [][\A c \in Callers :
         (call[c].pc # "served" /\ call'[c].pc = "served") => toggle[HomeOf[call'[c].i]] # "disabled"]_call

====
