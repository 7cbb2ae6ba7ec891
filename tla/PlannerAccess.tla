--------------------------- MODULE PlannerAccess ---------------------------
(***************************************************************************)
(* How planners get at the relay: configured tokens, the OAuth development *)
(* service and the sessions of the MCP endpoint (internal/relay/auth.go,   *)
(* oauth_dev.go, mcp_server.go).                                           *)
(*                                                                         *)
(* A request is one goroutine that serves HTTP requests, one after the     *)
(* other. Each action is one critical section of oauthDevService.mu or     *)
(* mcpServer.mu with what is computed from it. A session is an id in       *)
(* `sessions' and the object the id points to: an object can outlive its   *)
(* entry, and an id can get a second object.                               *)
(***************************************************************************)
EXTENDS Naturals, FiniteSets, ScopePatterns

CONSTANTS
  Requests, Codes, Tokens, SessionIds, Objects, Versions,
  None,
  PlannerTokens,   \* the tokens of the configuration
  Scopes,          \* the scopes of operations, <<resource, operation>>
  Granted,         \* Granted[p]: the scope patterns of a configured token
  AllowedScopes,   \* ChatGPTOAuthDev.Scopes
  DevNoAuth,       \* ChatGPTDevNoAuth.Enabled
  DevScopes        \* and its scopes

Patterns == Scopes \cup {<<s[1], Wild>> : s \in Scopes} \cup {<<Wild, Wild>>}

ASSUME PlannerAccessConstants ==
  /\ Granted \in [PlannerTokens -> SUBSET Patterns]
  /\ AllowedScopes \in SUBSET Patterns
  /\ DevNoAuth \in BOOLEAN
  /\ DevScopes \in SUBSET Patterns
  /\ PlannerTokens \cap Tokens = {}
  /\ None \notin UNION {PlannerTokens, Tokens, Codes, SessionIds, Objects, Versions}

VARIABLES
  codes,      \* oauthDevService.codes
  tokens,     \* oauthDevService.tokens
  sessions,   \* mcpServer.sessions: id -> object
  object,     \* the mcpSession objects
  request,    \* the handlers under way
  refused     \* the codes found by an exchange that was then refused

oauthVars == <<codes, tokens, refused>>
mcpVars   == <<sessions, object>>
vars      == <<oauthVars, mcpVars, request>>

-----------------------------------------------------------------------------
(* Principals *)

\* normalizeRequestedScopes: what is allowed of the request, and everything
\* that is allowed when that is nothing.
normalizeRequestedScopes(requested) ==
  IF requested \cap AllowedScopes = {} THEN AllowedScopes
  ELSE requested \cap AllowedScopes

oauthAuthCode(scope) == [state |-> "live", expired |-> FALSE, scope |-> scope]
NoCode == [state |-> "unused", expired |-> FALSE, scope |-> {}]
NoToken == [state |-> "unused", expired |-> FALSE, scope |-> {}, code |-> None]

oauthAccessToken(c) ==
  [state |-> "live", expired |-> FALSE, scope |-> codes[c].scope, code |-> c]

\* pruneLocked deletes what has expired.
pruneLocked(table) ==
  [x \in DOMAIN table |->
     IF table[x].state = "live" /\ table[x].expired
     THEN [table[x] EXCEPT !.state = "gone"] ELSE table[x]]

devNoAuthPrincipal == IF DevNoAuth THEN {None} ELSE {}

\* authenticatePlanner: no token, a configured token, or one of OAuth. The
\* principal is known by the hash of its token.
authenticatePlanner(cred) ==
  IF cred = None THEN devNoAuthPrincipal
  ELSE {t \in PlannerTokens : t = cred}
       \cup {t \in Tokens : t = cred /\ pruneLocked(tokens)[t].state = "live"}

principalScopes(hash) ==
  IF hash = None THEN DevScopes
  ELSE IF hash \in PlannerTokens THEN Granted[hash]
  ELSE tokens[hash].scope

-----------------------------------------------------------------------------
(* The OAuth development service *)

\* handleOAuthAuthorize with a valid operator code.
CreateAuthorizationCode(c) ==
  \E requested \in SUBSET Patterns :
    /\ Cardinality(requested) <= 1
    /\ codes[c].state = "unused"
    /\ codes' = [pruneLocked(codes) EXCEPT ![c] =
                   oauthAuthCode(normalizeRequestedScopes(requested))]
    /\ tokens' = pruneLocked(tokens)
    /\ UNCHANGED <<refused, mcpVars, request>>

\* A new random token: which one of those never issued does not matter.
newToken ==
  LET unused == {t \in Tokens : tokens[t].state = "unused"} IN
  IF unused = {} THEN {} ELSE {CHOOSE t \in unused : TRUE}

\* Mutant: the code is deleted only by an exchange that succeeds.
ExchangeCodeOnSuccess(c, t) ==
  \E matches \in BOOLEAN :
    LET found == pruneLocked(codes)[c].state = "live" IN
    /\ codes[c].state # "unused"
    /\ t \in newToken
    /\ codes' = IF found /\ matches THEN [pruneLocked(codes) EXCEPT ![c].state = "gone"]
                ELSE pruneLocked(codes)
    /\ tokens' = IF found /\ matches
                 THEN [pruneLocked(tokens) EXCEPT ![t] = oauthAccessToken(c)]
                 ELSE pruneLocked(tokens)
    /\ refused' = IF found /\ ~matches THEN refused \cup {c} ELSE refused
    /\ UNCHANGED <<mcpVars, request>>

\* handleOAuthToken: the code is deleted before redirect, PKCE verifier and
\* resource are compared (`matches').
ExchangeCode(c, t) ==
  \E matches \in BOOLEAN :
    LET found == pruneLocked(codes)[c].state = "live" IN
    /\ codes[c].state # "unused"
    /\ t \in newToken
    /\ codes' = IF found THEN [pruneLocked(codes) EXCEPT ![c].state = "gone"]
                ELSE pruneLocked(codes)
    /\ tokens' = IF found /\ matches
                 THEN [pruneLocked(tokens) EXCEPT ![t] = oauthAccessToken(c)]
                 ELSE pruneLocked(tokens)
    /\ refused' = IF found /\ ~matches THEN refused \cup {c} ELSE refused
    /\ UNCHANGED <<mcpVars, request>>

codeExpires(c) ==
  /\ codes[c].state = "live" /\ ~codes[c].expired
  /\ codes' = [codes EXCEPT ![c].expired = TRUE]
  /\ UNCHANGED <<tokens, refused, mcpVars, request>>

tokenExpires(t) ==
  /\ tokens[t].state = "live" /\ ~tokens[t].expired
  /\ tokens' = [tokens EXCEPT ![t].expired = TRUE]
  /\ UNCHANGED <<codes, refused, mcpVars, request>>

-----------------------------------------------------------------------------
(* Requests to the MCP endpoint *)

NoRequest == [pc |-> "idle", hash |-> None, id |-> None, object |-> None]

\* Handle up to the lookup of the session.
Handle(r) ==
  \E cred \in PlannerTokens \cup Tokens \cup {None},
     id \in SessionIds \cup {None} :
    /\ request[r].pc = "idle"
    /\ request' = IF authenticatePlanner(cred) = {} THEN request
                  ELSE [request EXCEPT ![r] = [pc |-> "authenticated", hash |-> cred,
                                               id |-> id, object |-> None]]
    /\ tokens' = IF cred \in Tokens THEN pruneLocked(tokens) ELSE tokens
    /\ codes' = IF cred \in Tokens THEN pruneLocked(codes) ELSE codes
    /\ UNCHANGED <<refused, mcpVars>>

\* The table and the objects without the sessions that have been idle too long.
expiredSessions == {i \in SessionIds : sessions[i] # None /\ object[sessions[i]].idle}

pruneExpiredSessionsLocked ==
  [i \in SessionIds |-> IF i \in expiredSessions THEN None ELSE sessions[i]]

closeExpired ==
  [o \in Objects |->
     IF \E i \in expiredSessions : sessions[i] = o
     THEN [object[o] EXCEPT !.done = TRUE] ELSE object[o]]

\* Another planner's session is reported as unknown.
sessionFromRequest(r) ==
  LET i == request[r].id
      o == IF i = None THEN None ELSE pruneExpiredSessionsLocked[i]
      mine == o # None /\ object[o].owner = request[r].hash IN
  /\ request[r].pc = "authenticated"
  /\ \/ /\ i = None
        /\ request' = [request EXCEPT ![r].pc = "dispatch"]
        /\ UNCHANGED mcpVars
     \/ /\ i # None
        /\ sessions' = pruneExpiredSessionsLocked
        /\ object' = IF mine THEN [closeExpired EXCEPT ![o].idle = FALSE] ELSE closeExpired
        /\ request' = [request EXCEPT ![r] =
             IF mine THEN [@ EXCEPT !.pc = "dispatch", !.object = o] ELSE NoRequest]
  /\ UNCHANGED oauthVars

\* Handle's switch: method and headers of the request are read from here on.
dispatched(r) == request[r].pc = "dispatch"

Headers == Versions \cup {None, "unsupported"}

\* resolveProtocolVersion: a header, if any, names a supported version, that
\* of the session if there is one.
resolveProtocolVersion(r, header) ==
  header # None =>
    /\ header \in Versions
    /\ request[r].object # None => header = object[request[r].object].version

answered(r) == request' = [request EXCEPT ![r] = NoRequest]

handleStream(r) ==
  \E header \in Headers :
    /\ dispatched(r)
    /\ IF request[r].object # None /\ resolveProtocolVersion(r, header)
       THEN request' = [request EXCEPT ![r].pc = "streaming"]
       ELSE answered(r)
    /\ UNCHANGED <<oauthVars, mcpVars>>

\* The loop of handleStream: the session is closed, or the client hangs up.
streamClosed(r) ==
  /\ request[r].pc = "streaming"
  /\ object[request[r].object].done
  /\ answered(r)
  /\ UNCHANGED <<oauthVars, mcpVars>>

streamAbandoned(r) ==
  /\ request[r].pc = "streaming"
  /\ answered(r)
  /\ UNCHANGED <<oauthVars, mcpVars>>

\* deleteSession deletes whatever the id points to, and closes it once the
\* lock is free again.
handleSessionDelete(r) ==
  LET i == request[r].id
      o == sessions[i] IN
  /\ dispatched(r)
  /\ \/ /\ request[r].object = None
        /\ answered(r)
        /\ UNCHANGED sessions
     \/ /\ request[r].object # None
        /\ sessions' = [sessions EXCEPT ![i] = None]
        /\ request' = [request EXCEPT ![r] =
             IF o = None THEN NoRequest ELSE [@ EXCEPT !.pc = "closing", !.object = o]]
  /\ UNCHANGED <<oauthVars, object>>

closeSession(r) ==
  /\ request[r].pc = "closing"
  /\ object' = [object EXCEPT ![request[r].object].done = TRUE]
  /\ answered(r)
  /\ UNCHANGED <<oauthVars, sessions>>

NoObject == [id |-> None, owner |-> None, version |-> None, idle |-> FALSE, done |-> FALSE]

mcpSession(i, owner, version) ==
  [id |-> i, owner |-> owner, version |-> version, idle |-> FALSE, done |-> FALSE]

\* A new object: which one of those never used does not matter.
newObject ==
  LET unused == {o \in Objects : object[o].id = None} IN
  IF unused = {} THEN {} ELSE {CHOOSE o \in unused : TRUE}

unusedIds == {i \in SessionIds : \A o \in Objects : object[o].id # i}

\* handleInitialize: ensureSession renegotiates the session, makes a new one,
\* or makes one with the old id when it has gone since it was looked up.
ensureSession(r) ==
  \E version \in Versions :
    LET had == request[r].object
        now == IF had = None THEN None ELSE pruneExpiredSessionsLocked[object[had].id] IN
    /\ dispatched(r)
    /\ answered(r)
    /\ \/ /\ now # None
          /\ sessions' = pruneExpiredSessionsLocked
          /\ object' = [closeExpired EXCEPT ![now].version = version, ![now].idle = FALSE]
       \/ /\ now = None
          /\ \E o \in newObject,
                i \in IF had = None THEN unusedIds ELSE {object[had].id} :
               /\ sessions' = [pruneExpiredSessionsLocked EXCEPT ![i] = o]
               /\ object' = [closeExpired EXCEPT ![o] =
                    mcpSession(i, IF had = None THEN request[r].hash
                                  ELSE object[had].owner, version)]
    /\ UNCHANGED oauthVars

\* handlePost for the methods that leave sessions alone: tools/list,
\* notifications, unknown methods, and handleToolCall, which authorises the
\* principal and calls the tool (see RelayRouting for what tools do).
handlePost(r) ==
  /\ dispatched(r)
  /\ answered(r)
  /\ UNCHANGED <<oauthVars, mcpVars>>

handleToolCall(r) ==
  \E scope \in Scopes, header \in Headers :
    /\ dispatched(r)
    /\ resolveProtocolVersion(r, header)
    /\ scopeAllowed(principalScopes(request[r].hash), scope)
    /\ answered(r)
    /\ UNCHANGED <<oauthVars, mcpVars>>

sessionIdle(i) ==
  /\ sessions[i] # None
  /\ ~object[sessions[i]].idle
  /\ object' = [object EXCEPT ![sessions[i]].idle = TRUE]
  /\ UNCHANGED <<oauthVars, sessions, request>>

-----------------------------------------------------------------------------
Init ==
  /\ codes = [c \in Codes |-> NoCode]
  /\ tokens = [t \in Tokens |-> NoToken]
  /\ sessions = [i \in SessionIds |-> None]
  /\ object = [o \in Objects |-> NoObject]
  /\ request = [r \in Requests |-> NoRequest]
  /\ refused = {}

Serve(r) ==
  \/ Handle(r) \/ sessionFromRequest(r)
  \/ handleStream(r) \/ streamClosed(r) \/ streamAbandoned(r)
  \/ handleSessionDelete(r) \/ closeSession(r)
  \/ ensureSession(r) \/ handlePost(r) \/ handleToolCall(r)

Next ==
  \/ \E r \in Requests : Serve(r)
  \/ \E c \in Codes : CreateAuthorizationCode(c) \/ codeExpires(c)
  \/ \E c \in Codes, t \in Tokens : ExchangeCode(c, t)
  \/ \E t \in Tokens : tokenExpires(t)
  \/ \E i \in SessionIds : sessionIdle(i)

\* A handler that can go on does; whether clients hang up is up to them.
Fairness ==
  \A r \in Requests : WF_vars(closeSession(r)) /\ WF_vars(streamClosed(r))

Spec == Init /\ [][Next]_vars /\ Fairness

-----------------------------------------------------------------------------
\* The tables of codes, tokens and sessions, and the requests at work.
TypeOK ==
  /\ codes \in [Codes -> [state : {"unused", "live", "gone"}, expired : BOOLEAN,
                          scope : SUBSET Patterns]]
  /\ tokens \in [Tokens -> [state : {"unused", "live", "gone"}, expired : BOOLEAN,
                            scope : SUBSET Patterns, code : Codes \cup {None}]]
  /\ sessions \in [SessionIds -> Objects \cup {None}]
  /\ object \in [Objects -> [id : SessionIds \cup {None},
                             owner : PlannerTokens \cup Tokens \cup {None},
                             version : Versions \cup {None},
                             idle : BOOLEAN, done : BOOLEAN]]
  /\ request \in [Requests ->
        [pc : {"idle", "authenticated", "dispatch", "streaming", "closing"},
         hash : PlannerTokens \cup Tokens \cup {None}, id : SessionIds \cup {None},
         object : Objects \cup {None}]]
  /\ refused \in SUBSET Codes

\* An authorization code is spent by the first exchange that presents it: it
\* pays for one token, and for none once an exchange of it has been refused
\* after finding it (oauth_dev.go ExchangeCode deletes before it compares).
CodeIsSpent ==
  \A t \in Tokens : tokens[t].code # None =>
    /\ tokens[t].code \notin refused
    /\ \A u \in Tokens : tokens[u].code = tokens[t].code => u = t

\* Deleting a session ends the streams that are open on it.
StreamEnds ==
  \A r \in Requests, o \in Objects :
    (request[r].pc = "streaming" /\ request[r].object = o /\ sessions[object[o].id] # o)
      ~> (request[r].pc # "streaming" \/ request[r].object # o)
=============================================================================
