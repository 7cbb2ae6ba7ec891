---------------------------- MODULE McpEndpoints ----------------------------
(***************************************************************************)
(* The MCP endpoints of the relay (PlannerAccess), the gateway             *)
(* (internal/gateway/server.go, oauth_dev.go) and the cloud                *)
(* (internal/cloud/mcp_server.go). The last two are copies of the first,   *)
(* so what is written like the relay's is taken from PlannerAccess; they   *)
(* differ in who is let in and, in the gateway, in what initialize does to *)
(* a session that has gone meanwhile.                                      *)
(*                                                                         *)
(* A behaviour is one of one server, chosen in EndpointsInit.              *)
(***************************************************************************)
EXTENDS PlannerAccess

CONSTANTS
  StoreTokens,    \* access tokens of the gateway's store, API tokens of the cloud's
  StoreScopes     \* StoreScopes[t]: the scopes of their rows

ASSUME McpEndpointsConstants ==
  /\ StoreScopes \in [StoreTokens -> SUBSET Patterns]
  /\ StoreTokens \cap (PlannerTokens \cup Tokens \cup {None}) = {}

VARIABLES
  server,   \* "relay", "gateway" or "cloud"
  live      \* the stored tokens that have neither expired nor been revoked

endpointVars == <<server, live>>
allVars == <<vars, endpointVars>>

Credentials == StoreTokens \cup PlannerTokens \cup Tokens \cup {None}

\* A request passes the authentication as one of `principals', or is answered
\* with a challenge.
admit(r, cred, id, principals) ==
  /\ request[r].pc = "idle"
  /\ request' = IF principals = {} THEN request
                ELSE [request EXCEPT ![r] = [pc |-> "authenticated", hash |-> cred,
                                             id |-> id, object |-> None]]

-----------------------------------------------------------------------------
(* The gateway *)

gatewayLookupAccessToken(cred) == {cred} \cap live

\* Authenticate of the OAuth service, after its pruning.
gatewayOAuthAuthenticate(cred) ==
  {t \in Tokens : t = cred /\ pruneLocked(tokens)[t].state = "live"}

\* Server.authenticate: a token of the store, the configured bearer token, or
\* one of the OAuth service; there is no access without a token.
gatewayAuthenticate(cred) ==
  IF gatewayLookupAccessToken(cred) # {} THEN {cred}
  ELSE {p \in PlannerTokens : p = cred} \cup gatewayOAuthAuthenticate(cred)

\* handleMCP up to the lookup of the session. A token that neither the store
\* nor the configuration knows goes to the OAuth service, which prunes.
gatewayHandleMCP(r) ==
  \E cred \in Credentials, id \in SessionIds \cup {None} :
    LET asksOAuth == cred \notin live \cup PlannerTokens \cup {None} IN
    /\ admit(r, cred, id, gatewayAuthenticate(cred))
    /\ tokens' = IF asksOAuth THEN pruneLocked(tokens) ELSE tokens
    /\ codes' = IF asksOAuth THEN pruneLocked(codes) ELSE codes
    /\ UNCHANGED <<refused, mcpVars>>

gatewaySessionFromRequest(r) == sessionFromRequest(r)

gatewayHandleStream(r) == handleStream(r)

gatewayStreamLoop(r) == streamClosed(r) \/ streamAbandoned(r)

gatewayHandleSessionDelete(r) == handleSessionDelete(r)

gatewayDeleteSession(r) == closeSession(r)

gatewayPruneExpired == pruneExpiredSessionsLocked

gatewayResolveProtocolVersion(r, header) == resolveProtocolVersion(r, header)

\* Mutant: the object that is put back gets a new done channel.
gatewayEnsureSessionReopened(r) ==
  \E version \in Versions :
    LET had == request[r].object
        now == IF had = None THEN None ELSE gatewayPruneExpired[object[had].id]
        kept == IF now # None THEN now ELSE had IN
    /\ dispatched(r)
    /\ answered(r)
    /\ \/ /\ had # None
          /\ sessions' = [gatewayPruneExpired EXCEPT ![object[had].id] = kept]
          /\ object' = [closeExpired EXCEPT ![kept].version = version, ![kept].idle = FALSE,
                                            ![kept].done = FALSE]
       \/ /\ had = None
          /\ \E o \in newObject, i \in unusedIds :
               /\ sessions' = [gatewayPruneExpired EXCEPT ![i] = o]
               /\ object' = [closeExpired EXCEPT ![o] = mcpSession(i, request[r].hash, version)]
    /\ UNCHANGED oauthVars

\* handleInitialize: ensureSession makes a session, or renegotiates the one of
\* the request. If that has gone since it was looked up, the object itself is
\* put back, with its done channel closed or about to be.
gatewayEnsureSession(r) ==
  \E version \in Versions :
    LET had == request[r].object
        now == IF had = None THEN None ELSE gatewayPruneExpired[object[had].id]
        kept == IF now # None THEN now ELSE had IN
    /\ dispatched(r)
    /\ answered(r)
    /\ \/ /\ had # None
          /\ sessions' = [gatewayPruneExpired EXCEPT ![object[had].id] = kept]
          /\ object' = [closeExpired EXCEPT ![kept].version = version, ![kept].idle = FALSE]
       \/ /\ had = None
          /\ \E o \in newObject, i \in unusedIds :
               /\ sessions' = [gatewayPruneExpired EXCEPT ![i] = o]
               /\ object' = [closeExpired EXCEPT ![o] = mcpSession(i, request[r].hash, version)]
    /\ UNCHANGED oauthVars

gatewayScopes(hash) ==
  IF hash \in StoreTokens THEN StoreScopes[hash]
  ELSE IF hash \in PlannerTokens THEN {<<Wild, Wild>>}
  ELSE tokens[hash].scope

\* principalAllows: the scope itself or everything. Unlike in the relay, a
\* family of scopes is not a pattern.
principalAllows(scopes, scope) == scope \in scopes \/ <<Wild, Wild>> \in scopes

gatewayHandleToolCall(r) ==
  \E scope \in Scopes, header \in Headers :
    /\ dispatched(r)
    /\ gatewayResolveProtocolVersion(r, header)
    /\ principalAllows(gatewayScopes(request[r].hash), scope)
    /\ answered(r)
    /\ UNCHANGED <<oauthVars, mcpVars>>

gatewayHandleMCPPost(r) == handlePost(r)

gatewayCreateAuthorizationCode(c) == CreateAuthorizationCode(c)

gatewayExchangeCode(c, t) == ExchangeCode(c, t)

gatewayOAuthExpiry ==
  \/ \E c \in Codes : codeExpires(c)
  \/ \E t \in Tokens : tokenExpires(t)

\* handleOAuthAuthorize and handleOAuthToken.
gatewayOAuth ==
  \/ \E c \in Codes : gatewayCreateAuthorizationCode(c)
  \/ \E c \in Codes, t \in Tokens : gatewayExchangeCode(c, t)

GatewayServe(r) ==
  \/ gatewayHandleMCP(r) \/ gatewaySessionFromRequest(r)
  \/ gatewayHandleStream(r) \/ gatewayStreamLoop(r)
  \/ gatewayHandleSessionDelete(r) \/ gatewayDeleteSession(r)
  \/ gatewayEnsureSession(r) \/ gatewayHandleToolCall(r) \/ gatewayHandleMCPPost(r)

-----------------------------------------------------------------------------
(* The cloud *)

\* authenticateToken; CloudAccess has memberships and their roles.
cloudAuthenticateToken(cred) == {cred} \cap live

cloudHandle(r) ==
  \E cred \in StoreTokens \cup {None}, id \in SessionIds \cup {None} :
    /\ admit(r, cred, id, cloudAuthenticateToken(cred))
    /\ UNCHANGED <<oauthVars, mcpVars>>

\* Sessions are owned by token ids.
cloudSessionFromRequest(r) == sessionFromRequest(r)

cloudHandleStream(r) == handleStream(r)

cloudStreamLoop(r) == streamClosed(r) \/ streamAbandoned(r)

cloudHandleSessionDelete(r) == handleSessionDelete(r)

cloudDeleteSession(r) == closeSession(r)

cloudResolveProtocolVersion(r, header) == resolveProtocolVersion(r, header)

\* A session that has gone comes back as a new object, as in the relay.
cloudEnsureSession(r) == ensureSession(r)

\* TokenHasScope for a token without a role.
cloudHasScope(scopes, scope) ==
  scope \in scopes \/ {<<Wild, Wild>>, <<"cloud", "admin">>} \cap scopes # {}

cloudHandleToolCall(r) ==
  \E scope \in Scopes, header \in Headers :
    /\ dispatched(r)
    /\ cloudResolveProtocolVersion(r, header)
    /\ cloudHasScope(StoreScopes[request[r].hash], scope)
    /\ answered(r)
    /\ UNCHANGED <<oauthVars, mcpVars>>

cloudHandlePost(r) == handlePost(r)

CloudServe(r) ==
  \/ cloudHandle(r) \/ cloudSessionFromRequest(r)
  \/ cloudHandleStream(r) \/ cloudStreamLoop(r)
  \/ cloudHandleSessionDelete(r) \/ cloudDeleteSession(r)
  \/ cloudEnsureSession(r) \/ cloudHandleToolCall(r) \/ cloudHandlePost(r)

-----------------------------------------------------------------------------
\* A stored token is revoked or expires; requests that were let in go on.
revoked(t) ==
  /\ t \in live
  /\ live' = live \ {t}
  /\ UNCHANGED <<vars, server>>

EndpointsInit ==
  /\ Init
  /\ server \in {"relay", "gateway", "cloud"}
  /\ live = StoreTokens

EndpointsNext ==
  \/ server = "relay" /\ Next /\ UNCHANGED endpointVars
  \/ /\ server = "gateway"
     /\ \/ \E r \in Requests : GatewayServe(r)
        \/ gatewayOAuth
        \/ gatewayOAuthExpiry
     /\ UNCHANGED endpointVars
  \/ /\ server = "cloud"
     /\ \E r \in Requests : CloudServe(r)
     /\ UNCHANGED endpointVars
  \/ /\ server # "relay"
     /\ \E i \in SessionIds : sessionIdle(i)
     /\ UNCHANGED endpointVars
  \/ server # "relay" /\ \E t \in StoreTokens : revoked(t)

EndpointsFairness ==
  \A r \in Requests : WF_allVars(closeSession(r) /\ UNCHANGED endpointVars)
                      /\ WF_allVars(streamClosed(r) /\ UNCHANGED endpointVars)

EndpointsSpec == EndpointsInit /\ [][EndpointsNext]_allVars /\ EndpointsFairness

-----------------------------------------------------------------------------
\* The session a request was given can be relied on. It is of the planner whose
\* initialize made it, also when it went and came back while the request was
\* under way. And what the table holds is open: an initialize that raced the
\* DELETE or the expiry of its session answers with one that can be streamed.
\* The gateway cannot promise this, its ensureSession puts closed objects back.
SessionIsSound ==
  /\ \A r \in Requests :
       request[r].object # None => object[request[r].object].owner = request[r].hash
  /\ server # "gateway" =>
       \A i \in SessionIds : sessions[i] # None => ~object[sessions[i]].done

\* The same of every server; the gateway violates it.
SessionIsOpen ==
  \A i \in SessionIds : sessions[i] # None => ~object[sessions[i]].done
=============================================================================
