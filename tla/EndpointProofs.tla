--------------------------- MODULE EndpointProofs ---------------------------
(***************************************************************************)
(* Theorems about McpEndpoints for any number of requests, codes, tokens,  *)
(* session ids and objects, and for each of the three servers.             *)
(*                                                                         *)
(* CodeIsSpent is not inductive: a token's code must be known to have left *)
(* the table for good.  SessionIsSound needs that all objects an id ever   *)
(* had are of one owner, that an object is in the table under its own id   *)
(* only, and that what a handler is about to close has left the table.     *)
(***************************************************************************)
EXTENDS McpEndpoints, TLAPS

-----------------------------------------------------------------------------
(* Authorization codes *)

CodeRecords == [state : {"unused", "live", "gone"}, expired : BOOLEAN,
                scope : SUBSET Patterns]
TokenRecords == [state : {"unused", "live", "gone"}, expired : BOOLEAN,
                 scope : SUBSET Patterns, code : Codes \cup {None}]

OAuthTypeOK == /\ codes \in [Codes -> CodeRecords]
               /\ tokens \in [Tokens -> TokenRecords]
               /\ refused \in SUBSET Codes

\* A code that has paid for a token, or was refused, is out of the table.
SpentIsGone ==
  /\ \A t \in Tokens : tokens[t].code # None => codes[tokens[t].code].state = "gone"
  /\ \A c \in refused : codes[c].state = "gone"

OAuthInv == OAuthTypeOK /\ SpentIsGone /\ CodeIsSpent

\* Pruning only takes live entries out: what is gone stays gone, and the codes
\* of the tokens do not change.
LEMMA PruneCodes ==
  ASSUME OAuthTypeOK
  PROVE  /\ pruneLocked(codes) \in [Codes -> CodeRecords]
         /\ \A c \in Codes : codes[c].state = "gone" => pruneLocked(codes)[c].state = "gone"
BY DEF OAuthTypeOK, pruneLocked, CodeRecords

\* Pruning marks tokens as gone and leaves them with their codes.
LEMMA PruneTokens ==
  ASSUME OAuthTypeOK
  PROVE  /\ pruneLocked(tokens) \in [Tokens -> TokenRecords]
         /\ \A t \in Tokens : pruneLocked(tokens)[t].code = tokens[t].code
BY DEF OAuthTypeOK, pruneLocked, TokenRecords

\* Whoever prunes the tables, or leaves them alone, keeps the invariant.
LEMMA OAuthPruned ==
  ASSUME OAuthInv,
         codes' \in {codes, pruneLocked(codes)},
         tokens' \in {tokens, pruneLocked(tokens)},
         refused' = refused
  PROVE  OAuthInv'
<1>1. OAuthTypeOK'
  BY PruneCodes, PruneTokens DEF OAuthInv, OAuthTypeOK
<1>2. /\ \A c \in Codes : codes[c].state = "gone" => codes'[c].state = "gone"
      /\ \A t \in Tokens : tokens'[t].code = tokens[t].code
      /\ \A t \in Tokens : tokens[t].code \in Codes \cup {None}
  BY PruneCodes, PruneTokens DEF OAuthInv, OAuthTypeOK, TokenRecords
<1>3. SpentIsGone'
  BY <1>2 DEF OAuthInv, SpentIsGone, OAuthTypeOK
<1>4. CodeIsSpent'
  BY <1>2 DEF OAuthInv, CodeIsSpent
<1> QED BY <1>1, <1>3, <1>4 DEF OAuthInv

\* A new authorization code has paid for no token.
LEMMA OAuthCreate ==
  ASSUME OAuthInv, NEW c \in Codes, CreateAuthorizationCode(c)
  PROVE  OAuthInv'
<1>1. PICK scope \in SUBSET Patterns :
        codes' = [pruneLocked(codes) EXCEPT ![c] = oauthAuthCode(scope)]
  BY PlannerAccessConstants DEF CreateAuthorizationCode, normalizeRequestedScopes
<1>2. /\ codes[c].state = "unused"
      /\ tokens' = pruneLocked(tokens)
      /\ refused' = refused
  BY DEF CreateAuthorizationCode
<1>3. OAuthTypeOK'
  BY <1>1, <1>2, PruneCodes, PruneTokens
     DEF OAuthInv, OAuthTypeOK, oauthAuthCode, CodeRecords
<1>4. /\ \A d \in Codes : codes[d].state = "gone" => codes'[d].state = "gone"
      /\ \A t \in Tokens : tokens'[t].code = tokens[t].code
      /\ \A t \in Tokens : tokens[t].code \in Codes \cup {None}
  BY <1>1, <1>2, PruneCodes, PruneTokens DEF OAuthInv, OAuthTypeOK, TokenRecords
<1>5. SpentIsGone'
  BY <1>2, <1>4 DEF OAuthInv, SpentIsGone, OAuthTypeOK
<1>6. CodeIsSpent'
  BY <1>2, <1>4 DEF OAuthInv, CodeIsSpent
<1> QED BY <1>3, <1>5, <1>6 DEF OAuthInv

\* An exchange takes its code out of the table before it compares: the code
\* belongs to no token yet, and to the new one only if it was not refused.
LEMMA OAuthExchange ==
  ASSUME OAuthInv, NEW c \in Codes, NEW t \in Tokens, ExchangeCode(c, t)
  PROVE  OAuthInv'
<1> DEFINE found == pruneLocked(codes)[c].state = "live"
<1>0. None \notin Codes
  BY PlannerAccessConstants
<1>1. PICK matches \in BOOLEAN :
        /\ codes' = IF found THEN [pruneLocked(codes) EXCEPT ![c].state = "gone"]
                    ELSE pruneLocked(codes)
        /\ tokens' = IF found /\ matches
                     THEN [pruneLocked(tokens) EXCEPT ![t] = oauthAccessToken(c)]
                     ELSE pruneLocked(tokens)
        /\ refused' = IF found /\ ~matches THEN refused \cup {c} ELSE refused
  BY DEF ExchangeCode
<1>2. oauthAccessToken(c) \in TokenRecords /\ oauthAccessToken(c).code = c
  BY DEF OAuthInv, OAuthTypeOK, oauthAccessToken, TokenRecords, CodeRecords
<1>3. OAuthTypeOK'
  <2>1. /\ pruneLocked(codes) \in [Codes -> CodeRecords]
        /\ pruneLocked(tokens) \in [Tokens -> TokenRecords]
    BY PruneCodes, PruneTokens DEF OAuthInv
  <2>2. [pruneLocked(codes) EXCEPT ![c].state = "gone"] \in [Codes -> CodeRecords]
    BY <2>1 DEF CodeRecords
  <2>3. codes' \in [Codes -> CodeRecords]
    BY <1>1, <2>1, <2>2
  <2>4. tokens' \in [Tokens -> TokenRecords]
    BY <1>1, <1>2, <2>1
  <2>5. refused' \in SUBSET Codes
    BY <1>1 DEF OAuthInv, OAuthTypeOK
  <2> QED BY <2>3, <2>4, <2>5 DEF OAuthTypeOK
<1>4. /\ \A d \in Codes : codes[d].state = "gone" => codes'[d].state = "gone"
      /\ \A u \in Tokens : tokens[u].code \in Codes \cup {None}
      /\ \A u \in Tokens \ {t} : tokens'[u].code = tokens[u].code
      /\ found => codes[c].state # "gone" /\ codes'[c].state = "gone"
  BY <1>1, PruneCodes, PruneTokens
     DEF OAuthInv, OAuthTypeOK, TokenRecords, CodeRecords, pruneLocked
<1>5. CASE found /\ matches
  <2>1. tokens'[t].code = c /\ refused' = refused
    BY <1>1, <1>2, <1>5, PruneTokens DEF OAuthInv
  <2>2. SpentIsGone'
    BY <2>1, <1>4, <1>5 DEF OAuthInv, SpentIsGone, OAuthTypeOK
  <2>3. CodeIsSpent'
    BY <2>1, <1>0, <1>4, <1>5 DEF OAuthInv, SpentIsGone, CodeIsSpent
  <2> QED BY <1>3, <2>2, <2>3 DEF OAuthInv
<1>6. CASE ~(found /\ matches)
  <2>1. \A u \in Tokens : tokens'[u].code = tokens[u].code
    BY <1>1, <1>6, PruneTokens DEF OAuthInv
  <2>2. SpentIsGone'
    BY <2>1, <1>1, <1>4, <1>6 DEF OAuthInv, SpentIsGone, OAuthTypeOK
  <2>3. CodeIsSpent'
    BY <2>1, <1>1, <1>4, <1>6 DEF OAuthInv, SpentIsGone, CodeIsSpent
  <2> QED BY <1>3, <2>2, <2>3 DEF OAuthInv
<1> QED BY <1>5, <1>6

\* So do expiries of codes and tokens, which put nothing in a table.
LEMMA OAuthExpiry ==
  ASSUME OAuthInv,
         \/ \E c \in Codes : codeExpires(c)
         \/ \E t \in Tokens : tokenExpires(t)
  PROVE  OAuthInv'
<1>1. CASE \E c \in Codes : codeExpires(c)
  <2>1. PICK c \in Codes : codeExpires(c)
    BY <1>1
  <2>2. /\ codes' \in [Codes -> CodeRecords]
        /\ \A d \in Codes : codes'[d].state = codes[d].state
    BY <2>1 DEF OAuthInv, OAuthTypeOK, codeExpires, CodeRecords
  <2>3. tokens' = tokens /\ refused' = refused
    BY <2>1 DEF codeExpires
  <2>4. \A t \in Tokens : tokens[t].code \in Codes \cup {None}
    BY DEF OAuthInv, OAuthTypeOK, TokenRecords
  <2> QED BY <2>2, <2>3, <2>4 DEF OAuthInv, OAuthTypeOK, SpentIsGone, CodeIsSpent
<1>2. CASE \E t \in Tokens : tokenExpires(t)
  <2>1. PICK t \in Tokens : tokenExpires(t)
    BY <1>2
  <2>2. /\ tokens' \in [Tokens -> TokenRecords]
        /\ \A u \in Tokens : tokens'[u].code = tokens[u].code
    BY <2>1 DEF OAuthInv, OAuthTypeOK, tokenExpires, TokenRecords
  <2>3. codes' = codes /\ refused' = refused
    BY <2>1 DEF tokenExpires
  <2> QED BY <2>2, <2>3 DEF OAuthInv, OAuthTypeOK, SpentIsGone, CodeIsSpent
<1> QED BY <1>1, <1>2

-----------------------------------------------------------------------------
(* Sessions *)

ObjectRecords == [id : SessionIds \cup {None}, owner : Credentials,
                  version : Versions \cup {None}, idle : BOOLEAN, done : BOOLEAN]
RequestRecords == [pc : {"idle", "authenticated", "dispatch", "streaming", "closing"},
                   hash : Credentials, id : SessionIds \cup {None},
                   object : Objects \cup {None}]

McpTypeOK == /\ sessions \in [SessionIds -> Objects \cup {None}]
             /\ object \in [Objects -> ObjectRecords]
             /\ request \in [Requests -> RequestRecords]

\* An object is in the table under its own id only.
UnderOwnId == \A i \in SessionIds : sessions[i] # None => object[sessions[i]].id = i

\* All objects an id has had are of one planner.
OneOwner ==
  \A o, p \in Objects :
    object[o].id # None /\ object[o].id = object[p].id => object[o].owner = object[p].owner

\* What a handler holds is a session of the id it was asked for, and of its planner.
HeldIsMine ==
  \A r \in Requests : request[r].object # None =>
    /\ request[r].id # None
    /\ object[request[r].object].id = request[r].id
    /\ object[request[r].object].owner = request[r].hash

\* Only the gateway keeps closed sessions: elsewhere what is in the table is
\* open, and what a handler is about to close has left it.
TableIsOpen ==
  server # "gateway" =>
    /\ \A i \in SessionIds : sessions[i] # None => ~object[sessions[i]].done
    /\ \A r \in Requests : request[r].pc = "closing" =>
         request[r].object # None /\ \A i \in SessionIds : sessions[i] # request[r].object

McpInv == McpTypeOK /\ UnderOwnId /\ OneOwner /\ HeldIsMine /\ TableIsOpen

\* What McpInv says of one request, and of one id.
LEMMA McpFacts ==
  ASSUME McpInv
  PROVE  /\ None \notin Objects /\ None \notin SessionIds
         /\ \A i \in SessionIds : sessions[i] \in Objects \cup {None}
         /\ \A o \in Objects : object[o] \in ObjectRecords
         /\ \A r \in Requests : request[r] \in RequestRecords
BY PlannerAccessConstants DEF McpInv, McpTypeOK

\* A step of one handler that leaves the sessions alone: it lets go of its
\* session, or keeps it without being about to close it.
LEMMA RequestStep ==
  ASSUME McpInv, NEW r \in Requests, NEW q \in RequestRecords,
         request' = [request EXCEPT ![r] = q],
         sessions' = sessions, object' = object, server' = server,
         q.pc # "closing",
         \/ q.object = None
         \/ /\ q.object = request[r].object
            /\ q.id = request[r].id
            /\ q.hash = request[r].hash
  PROVE  McpInv'
<1>1. McpTypeOK'
  BY DEF McpInv, McpTypeOK
<1>2. UnderOwnId' /\ OneOwner'
  BY DEF McpInv, UnderOwnId, OneOwner
<1>3. request'[r] = q /\ \A s \in Requests \ {r} : request'[s] = request[s]
  BY DEF McpInv, McpTypeOK
<1>4. HeldIsMine'
  BY <1>3 DEF McpInv, HeldIsMine
<1>5. TableIsOpen'
  BY <1>3 DEF McpInv, TableIsOpen
<1> QED BY <1>1, <1>2, <1>4, <1>5 DEF McpInv

\* An idle request holds no session object.
LEMMA NoRequestIsRequest ==
  NoRequest \in RequestRecords /\ NoRequest.pc = "idle" /\ NoRequest.object = None
BY DEF NoRequest, RequestRecords, Credentials

\* A request that is answered lets go of its object, which harms no session.
LEMMA Answered ==
  ASSUME McpInv, NEW r \in Requests, answered(r),
         sessions' = sessions, object' = object, server' = server
  PROVE  McpInv'
BY NoRequestIsRequest, RequestStep DEF answered

\* A request is let in, or turned away.
LEMMA Admitted ==
  ASSUME McpInv, NEW r \in Requests,
         NEW cred \in Credentials, NEW id \in SessionIds \cup {None},
         request' \in {request,
                       [request EXCEPT ![r] = [pc |-> "authenticated", hash |-> cred,
                                               id |-> id, object |-> None]]},
         sessions' = sessions, object' = object, server' = server
  PROVE  McpInv'
<1> DEFINE q == [pc |-> "authenticated", hash |-> cred, id |-> id, object |-> None]
<1>1. q \in RequestRecords /\ q.pc = "authenticated" /\ q.object = None
  BY DEF RequestRecords
<1>2. CASE request' = request
  BY <1>2 DEF McpInv, McpTypeOK, UnderOwnId, OneOwner, HeldIsMine, TableIsOpen
<1>3. CASE request' = [request EXCEPT ![r] = q]
  BY <1>1, <1>3, RequestStep
<1> QED BY <1>2, <1>3

\* handleStream: the session is kept while the stream is open.
LEMMA StreamStep ==
  ASSUME McpInv, NEW r \in Requests, handleStream(r), server' = server
  PROVE  McpInv'
<1> DEFINE q == [request[r] EXCEPT !.pc = "streaming"]
<1>1. sessions' = sessions /\ object' = object
  BY DEF handleStream, mcpVars
<1>2. CASE answered(r)
  BY <1>1, <1>2, Answered
<1>3. CASE request' = [request EXCEPT ![r] = q]
  <2>1. /\ q \in RequestRecords /\ q.pc = "streaming"
        /\ q.object = request[r].object /\ q.id = request[r].id /\ q.hash = request[r].hash
    BY McpFacts DEF RequestRecords
  <2> QED BY <1>1, <1>3, <2>1, RequestStep
<1> QED BY <1>2, <1>3 DEF handleStream

\* Pruning: every entry that remains is as it was, and open if it was.
LEMMA PruneSessions ==
  ASSUME McpInv
  PROVE  /\ pruneExpiredSessionsLocked \in [SessionIds -> Objects \cup {None}]
         /\ closeExpired \in [Objects -> ObjectRecords]
         /\ \A o \in Objects : /\ closeExpired[o].id = object[o].id
                               /\ closeExpired[o].owner = object[o].owner
         /\ \A i \in SessionIds :
              pruneExpiredSessionsLocked[i] # None =>
                /\ pruneExpiredSessionsLocked[i] = sessions[i]
                /\ closeExpired[sessions[i]].done = object[sessions[i]].done
<1>1. pruneExpiredSessionsLocked \in [SessionIds -> Objects \cup {None}]
  BY McpFacts DEF pruneExpiredSessionsLocked
<1>2. \A o \in Objects : closeExpired[o] \in {object[o], [object[o] EXCEPT !.done = TRUE]}
  BY DEF closeExpired
<1>3. \A o \in Objects : /\ closeExpired[o] \in ObjectRecords
                         /\ closeExpired[o].id = object[o].id
                         /\ closeExpired[o].owner = object[o].owner
  BY <1>2, McpFacts DEF ObjectRecords
<1>4. closeExpired \in [Objects -> ObjectRecords]
  BY <1>3 DEF closeExpired
<1>5. ASSUME NEW i \in SessionIds, pruneExpiredSessionsLocked[i] # None
      PROVE  /\ pruneExpiredSessionsLocked[i] = sessions[i]
             /\ closeExpired[sessions[i]].done = object[sessions[i]].done
  <2>1. i \notin expiredSessions /\ pruneExpiredSessionsLocked[i] = sessions[i]
    BY <1>5 DEF pruneExpiredSessionsLocked
  <2>2. \A j \in expiredSessions : sessions[j] # sessions[i]
    BY <1>5, <2>1 DEF expiredSessions, McpInv, UnderOwnId
  <2>3. closeExpired[sessions[i]] = object[sessions[i]]
    BY <1>5, <2>1, <2>2, McpFacts DEF closeExpired
  <2> QED BY <2>1, <2>3
<1> QED BY <1>1, <1>3, <1>4, <1>5

\* A step that makes no object: ids and owners stay, and one handler lets go
\* of its session or holds one of the id it asked for.
LEMMA KeptObjects ==
  ASSUME McpInv, NEW r \in Requests, NEW q \in RequestRecords, server' = server,
         sessions' \in [SessionIds -> Objects \cup {None}],
         object' \in [Objects -> ObjectRecords],
         \A o \in Objects : object'[o].id = object[o].id /\ object'[o].owner = object[o].owner,
         \A i \in SessionIds : sessions'[i] # None => object[sessions'[i]].id = i,
         request' = [request EXCEPT ![r] = q],
         q.object # None => /\ q.id # None
                            /\ object[q.object].id = q.id
                            /\ object[q.object].owner = q.hash,
         server # "gateway" =>
           /\ \A i \in SessionIds : sessions'[i] # None =>
                sessions'[i] = sessions[i] /\ ~object'[sessions'[i]].done
           /\ q.pc = "closing" => q.object # None /\ \A i \in SessionIds : sessions'[i] # q.object
  PROVE  McpInv'
<1>1. McpTypeOK'
  BY DEF McpInv, McpTypeOK
<1>2. UnderOwnId'
  BY McpFacts DEF UnderOwnId
<1>3. OneOwner'
  BY DEF McpInv, OneOwner
<1>4. /\ request'[r] = q
      /\ \A s \in Requests \ {r} : request'[s] = request[s]
      /\ q.object \in Objects \cup {None}
      /\ \A s \in Requests : request[s].object \in Objects \cup {None}
  BY McpFacts DEF McpInv, McpTypeOK, RequestRecords
<1>5. HeldIsMine'
  BY <1>4 DEF McpInv, HeldIsMine
<1>6. TableIsOpen'
  <2> SUFFICES ASSUME server # "gateway"
               PROVE  /\ \A i \in SessionIds : sessions'[i] # None => ~object'[sessions'[i]].done
                      /\ \A s \in Requests : request'[s].pc = "closing" =>
                           /\ request'[s].object # None
                           /\ \A i \in SessionIds : sessions'[i] # request'[s].object
    BY DEF TableIsOpen
  <2> SUFFICES ASSUME NEW s \in Requests, request'[s].pc = "closing"
               PROVE  /\ request'[s].object # None
                      /\ \A i \in SessionIds : sessions'[i] # request'[s].object
    OBVIOUS
  <2>1. CASE s = r
    BY <1>4, <2>1
  <2>2. CASE s # r
    <3>1. /\ request'[s] = request[s] /\ request[s].object # None
          /\ \A i \in SessionIds : sessions[i] # request[s].object
      BY <1>4, <2>2 DEF McpInv, TableIsOpen
    <3> QED BY <3>1
  <2> QED BY <2>1, <2>2
<1> QED BY <1>1, <1>2, <1>3, <1>5, <1>6 DEF McpInv

\* Touching or renegotiating a session changes neither whose it is nor whether
\* it is closed.
SameSessions(table, new) ==
  /\ new \in [Objects -> ObjectRecords]
  /\ \A u \in Objects : /\ new[u].id = table[u].id
                        /\ new[u].owner = table[u].owner
                        /\ new[u].done = table[u].done

Touch(table, o) == [table EXCEPT ![o].idle = FALSE]
Renegotiate(table, o, v) == [table EXCEPT ![o].version = v]

\* Touching a session changes neither its owner nor whether it is open.
LEMMA Touched ==
  ASSUME NEW table \in [Objects -> ObjectRecords], NEW o \in Objects
  PROVE  SameSessions(table, Touch(table, o))
<1>1. /\ [table[o] EXCEPT !.idle = FALSE] \in ObjectRecords
      /\ [table[o] EXCEPT !.idle = FALSE].id = table[o].id
      /\ [table[o] EXCEPT !.idle = FALSE].owner = table[o].owner
      /\ [table[o] EXCEPT !.idle = FALSE].done = table[o].done
  BY DEF ObjectRecords
<1> QED BY <1>1 DEF SameSessions, Touch

\* Nor does negotiating the protocol version again.
LEMMA Renegotiated ==
  ASSUME NEW table \in [Objects -> ObjectRecords], NEW o \in Objects, NEW v \in Versions
  PROVE  SameSessions(table, Touch(Renegotiate(table, o, v), o))
<1>1. /\ [table[o] EXCEPT !.version = v] \in ObjectRecords
      /\ [table[o] EXCEPT !.version = v].id = table[o].id
      /\ [table[o] EXCEPT !.version = v].owner = table[o].owner
      /\ [table[o] EXCEPT !.version = v].done = table[o].done
  BY DEF ObjectRecords
<1>2. SameSessions(table, Renegotiate(table, o, v))
  BY <1>1 DEF SameSessions, Renegotiate
<1>3. SameSessions(Renegotiate(table, o, v), Touch(Renegotiate(table, o, v), o))
  BY <1>2, Touched DEF SameSessions
<1> QED BY <1>2, <1>3 DEF SameSessions

\* Handle's lookup: the session found is open, of the id and of the planner.
LEMMA LookupStep ==
  ASSUME McpInv, NEW r \in Requests, sessionFromRequest(r), server' = server
  PROVE  McpInv'
<1> DEFINE i == request[r].id
           P == pruneExpiredSessionsLocked
           C == closeExpired
<1>0. request[r] \in RequestRecords
  BY McpFacts
<1>1. CASE i = None
  <2> DEFINE q == [request[r] EXCEPT !.pc = "dispatch"]
  <2>1. /\ sessions' = sessions /\ object' = object
        /\ request' = [request EXCEPT ![r] = q]
    BY <1>1 DEF sessionFromRequest, mcpVars
  <2>2. /\ q \in RequestRecords /\ q.pc = "dispatch"
        /\ q.object = request[r].object /\ q.id = request[r].id /\ q.hash = request[r].hash
    BY <1>0 DEF RequestRecords
  <2> QED BY <2>1, <2>2, RequestStep
<1>2. CASE i # None
  <2> DEFINE o == P[i]
             mine == o # None /\ object[o].owner = request[r].hash
             q == IF mine THEN [request[r] EXCEPT !.pc = "dispatch", !.object = o]
                  ELSE NoRequest
  <2>1. /\ sessions' = P
        /\ object' = IF mine THEN [C EXCEPT ![o].idle = FALSE] ELSE C
        /\ request' = [request EXCEPT ![r] = q]
    BY <1>2 DEF sessionFromRequest
  <2>2. i \in SessionIds /\ o \in Objects \cup {None}
    BY <1>0, <1>2, PruneSessions DEF RequestRecords
  <2>3. mine => o = sessions[i] /\ object[o].id = i /\ o \in Objects
    BY <2>2, PruneSessions DEF McpInv, UnderOwnId
  <2>4. /\ q \in RequestRecords /\ q.pc # "closing"
        /\ q.object # None => /\ mine /\ q.object = o /\ q.id = i /\ q.hash = request[r].hash
    BY <1>0, <2>2, NoRequestIsRequest DEF RequestRecords
  <2>5. C \in [Objects -> ObjectRecords]
    BY PruneSessions
  <2>6. SameSessions(C, object')
    <3>1. CASE mine
      <4>1. object' = Touch(C, o) /\ o \in Objects
        BY <2>1, <2>3, <3>1 DEF Touch
      <4> QED BY <2>5, <4>1, Touched
    <3>2. CASE ~mine
      <4>1. object' = C
        BY <2>1, <3>2
      <4> QED BY <2>5, <4>1 DEF SameSessions
    <3> QED BY <3>1, <3>2
  <2>7. \A u \in Objects : object'[u].id = object[u].id /\ object'[u].owner = object[u].owner
    BY <2>6, PruneSessions DEF SameSessions
  <2>8. \A j \in SessionIds : sessions'[j] # None =>
          /\ sessions'[j] = sessions[j] /\ sessions[j] \in Objects
          /\ object[sessions'[j]].id = j
          /\ object'[sessions[j]].done = object[sessions[j]].done
    <3> SUFFICES ASSUME NEW j \in SessionIds, sessions'[j] # None
                 PROVE  /\ sessions'[j] = sessions[j] /\ sessions[j] \in Objects
                        /\ object[sessions'[j]].id = j
                        /\ object'[sessions[j]].done = object[sessions[j]].done
      OBVIOUS
    <3>1. /\ sessions'[j] = sessions[j]
          /\ C[sessions[j]].done = object[sessions[j]].done
      BY <2>1, PruneSessions
    <3>2. sessions[j] \in Objects
      BY <3>1, McpFacts
    <3>3. object[sessions[j]].id = j
      BY <3>1 DEF McpInv, UnderOwnId
    <3>4. object'[sessions[j]].done = C[sessions[j]].done
      BY <2>6, <3>2 DEF SameSessions
    <3> QED BY <3>1, <3>2, <3>3, <3>4
  <2>9. server # "gateway" => \A j \in SessionIds : sessions'[j] # None =>
          sessions'[j] = sessions[j] /\ ~object'[sessions'[j]].done
    BY <2>8 DEF McpInv, TableIsOpen
  <2>10. sessions' \in [SessionIds -> Objects \cup {None}]
    BY <2>1, PruneSessions
  <2> HIDE DEF q, mine, o
  <2>11. q.object # None => /\ q.id # None
                            /\ object[q.object].id = q.id
                            /\ object[q.object].owner = q.hash
    BY <1>2, <2>3, <2>4 DEF mine
  <2>12. /\ object' \in [Objects -> ObjectRecords]
         /\ request' = [request EXCEPT ![r] = q]
         /\ \A j \in SessionIds : sessions'[j] # None => object[sessions'[j]].id = j
    BY <2>1, <2>6, <2>8 DEF SameSessions
  <2> QED BY <2>4, <2>7, <2>9, <2>10, <2>11, <2>12, KeptObjects
<1> QED BY <1>1, <1>2

\* deleteSession: what the id points to leaves the table and is closed next.
LEMMA DeleteStep ==
  ASSUME McpInv, NEW r \in Requests, handleSessionDelete(r), server' = server
  PROVE  McpInv'
<1> DEFINE i == request[r].id
           o == sessions[i]
<1>0. request[r] \in RequestRecords /\ object' = object
  BY McpFacts DEF handleSessionDelete
<1>1. CASE request[r].object = None
  BY <1>0, <1>1, Answered DEF handleSessionDelete
<1>2. CASE request[r].object # None
  <2> DEFINE q == IF o = None THEN NoRequest ELSE [request[r] EXCEPT !.pc = "closing", !.object = o]
  <2>1. /\ sessions' = [sessions EXCEPT ![i] = None]
        /\ request' = [request EXCEPT ![r] = q]
    BY <1>2 DEF handleSessionDelete
  <2>2. /\ i \in SessionIds /\ o \in Objects \cup {None} /\ i # None
        /\ request[r].object \in Objects
        /\ object[request[r].object].id = i
        /\ object[request[r].object].owner = request[r].hash
    BY <1>0, <1>2, McpFacts DEF RequestRecords, McpInv, HeldIsMine
  <2>3. o # None => object[o].id = i /\ object[o].owner = request[r].hash
    BY <2>2 DEF McpInv, UnderOwnId, OneOwner
  <2>4. /\ q \in RequestRecords
        /\ q.object # None => q.object = o /\ q.id = i /\ q.hash = request[r].hash
        /\ q.pc = "closing" => o # None /\ q.object = o
    BY <1>0, <2>2, NoRequestIsRequest DEF RequestRecords
  <2>5. /\ sessions' \in [SessionIds -> Objects \cup {None}]
        /\ \A j \in SessionIds : sessions'[j] # None => j # i /\ sessions'[j] = sessions[j]
    BY <2>1, <2>2 DEF McpInv, McpTypeOK
  <2> HIDE DEF q, o, i
  <2>6. \A j \in SessionIds : sessions'[j] # None =>
          /\ object[sessions'[j]].id = j
          /\ sessions'[j] # o
          /\ server # "gateway" => ~object[sessions'[j]].done
    BY <2>2, <2>3, <2>5 DEF McpInv, UnderOwnId, TableIsOpen
  <2>7. /\ q.object # None => /\ q.id # None
                              /\ object[q.object].id = q.id
                              /\ object[q.object].owner = q.hash
        /\ q.pc = "closing" => q.object # None /\ \A j \in SessionIds : sessions'[j] # q.object
    BY <2>2, <2>3, <2>4, <2>6
  <2>8. object \in [Objects -> ObjectRecords]
    BY DEF McpInv, McpTypeOK
  <2> QED BY <1>0, <2>1, <2>4, <2>5, <2>6, <2>7, <2>8, KeptObjects
<1> QED BY <1>1, <1>2

\* The close that follows finds an object that has left the table.
LEMMA CloseStep ==
  ASSUME McpInv, NEW r \in Requests, closeSession(r), server' = server
  PROVE  McpInv'
<1> DEFINE o == request[r].object
<1>1. /\ request[r].pc = "closing" /\ sessions' = sessions
      /\ object' = [object EXCEPT ![o].done = TRUE]
      /\ request' = [request EXCEPT ![r] = NoRequest]
  BY DEF closeSession, answered
<1>2. object \in [Objects -> ObjectRecords] /\ sessions \in [SessionIds -> Objects \cup {None}]
  BY DEF McpInv, McpTypeOK
<1>3. ASSUME NEW u \in Objects
      PROVE  /\ object'[u] \in ObjectRecords
             /\ object'[u].id = object[u].id /\ object'[u].owner = object[u].owner
             /\ u # o => object'[u].done = object[u].done
  <2>1. CASE u = o
    <3>1. object'[u] = [object[u] EXCEPT !.done = TRUE]
      BY <1>1, <1>2, <2>1
    <3>2. object[u] \in ObjectRecords
      BY <1>2
    <3> QED BY <2>1, <3>1, <3>2 DEF ObjectRecords
  <2>2. CASE u # o
    BY <1>1, <1>2, <2>2
  <2> QED BY <2>1, <2>2
<1>4. object' \in [Objects -> ObjectRecords]
  <2>1. object' = [u \in Objects |-> object'[u]]
    BY <1>1, <1>2
  <2> QED BY <1>3, <2>1
<1>5. \A i \in SessionIds : sessions'[i] # None =>
        /\ object[sessions'[i]].id = i
        /\ server # "gateway" => sessions'[i] # o /\ ~object[sessions'[i]].done
  BY <1>1 DEF McpInv, UnderOwnId, TableIsOpen
<1>6. \A i \in SessionIds : server # "gateway" /\ sessions'[i] # None =>
        sessions'[i] = sessions[i] /\ ~object'[sessions'[i]].done
  BY <1>1, <1>2, <1>3, <1>5
<1> HIDE DEF o
<1> QED BY <1>1, <1>2, <1>3, <1>4, <1>5, <1>6, NoRequestIsRequest, KeptObjects

\* A session becomes idle; no request changes.
LEMMA IdleStep ==
  ASSUME McpInv, NEW i \in SessionIds, sessionIdle(i), server' = server
  PROVE  McpInv'
<1>1. /\ sessions' = sessions /\ request' = request
      /\ sessions[i] \in Objects
      /\ object' = [object EXCEPT ![sessions[i]] = [object[sessions[i]] EXCEPT !.idle = TRUE]]
  BY McpFacts DEF sessionIdle
<1>2. object \in [Objects -> ObjectRecords] /\ object[sessions[i]] \in ObjectRecords
  BY <1>1 DEF McpInv, McpTypeOK
<1>3. /\ object' \in [Objects -> ObjectRecords]
      /\ \A u \in Objects : /\ object'[u].id = object[u].id
                            /\ object'[u].owner = object[u].owner
                            /\ object'[u].done = object[u].done
  <2>1. /\ [object[sessions[i]] EXCEPT !.idle = TRUE] \in ObjectRecords
        /\ [object[sessions[i]] EXCEPT !.idle = TRUE].id = object[sessions[i]].id
        /\ [object[sessions[i]] EXCEPT !.idle = TRUE].owner = object[sessions[i]].owner
        /\ [object[sessions[i]] EXCEPT !.idle = TRUE].done = object[sessions[i]].done
    BY <1>2 DEF ObjectRecords
  <2> QED BY <1>1, <1>2, <2>1
<1>4. \A j \in SessionIds : sessions[j] \in Objects \cup {None}
  BY McpFacts
<1>5. \A r \in Requests : request[r].object \in Objects \cup {None}
  BY McpFacts DEF RequestRecords
<1>6. McpTypeOK'
  BY <1>1, <1>3 DEF McpInv, McpTypeOK
<1>7. UnderOwnId' /\ OneOwner'
  BY <1>1, <1>3, <1>4 DEF McpInv, UnderOwnId, OneOwner
<1>8. HeldIsMine'
  BY <1>1, <1>3, <1>5 DEF McpInv, HeldIsMine
<1>9. TableIsOpen'
  BY <1>1, <1>3, <1>4 DEF McpInv, TableIsOpen
<1> QED BY <1>6, <1>7, <1>8, <1>9 DEF McpInv

\* ensureSession with a session: renegotiated where it is or, by the gateway
\* only, put back under its id.
LEMMA KeptStep ==
  ASSUME McpInv, NEW r \in Requests, NEW k \in Objects, NEW v \in Versions,
         answered(r), server' = server,
         object' = Touch(Renegotiate(closeExpired, k, v), k),
         \/ sessions' = pruneExpiredSessionsLocked
         \/ /\ server = "gateway" /\ object[k].id # None
            /\ sessions' = [pruneExpiredSessionsLocked EXCEPT ![object[k].id] = k]
  PROVE  McpInv'
<1> DEFINE P == pruneExpiredSessionsLocked
           C == closeExpired
<1>1. /\ P \in [SessionIds -> Objects \cup {None}]
      /\ C \in [Objects -> ObjectRecords]
      /\ object[k].id \in SessionIds \cup {None}
  BY PruneSessions, McpFacts DEF ObjectRecords
<1>2. SameSessions(C, object')
  BY <1>1, Renegotiated
<1>3. /\ object' \in [Objects -> ObjectRecords]
      /\ \A u \in Objects : object'[u].id = object[u].id /\ object'[u].owner = object[u].owner
  BY <1>2, PruneSessions DEF SameSessions
<1>4. sessions' \in [SessionIds -> Objects \cup {None}]
  BY <1>1
<1>5. \A i \in SessionIds : P[i] # None =>
        /\ P[i] = sessions[i] /\ sessions[i] \in Objects
        /\ object[P[i]].id = i
        /\ object'[P[i]].done = object[P[i]].done
  BY <1>2, PruneSessions, McpFacts DEF SameSessions, McpInv, UnderOwnId
<1>6. \A i \in SessionIds : sessions'[i] # None => object[sessions'[i]].id = i
  BY <1>1, <1>5
<1>7. server # "gateway" => \A i \in SessionIds : sessions'[i] # None =>
        sessions'[i] = sessions[i] /\ ~object'[sessions'[i]].done
  BY <1>5 DEF McpInv, TableIsOpen
<1>8. request' = [request EXCEPT ![r] = NoRequest]
  BY DEF answered
<1> QED BY <1>3, <1>4, <1>6, <1>7, <1>8, NoRequestIsRequest, KeptObjects

\* ensureSession without one: a new object, under an id that nobody has or
\* that this planner's session had.
LEMMA MadeStep ==
  ASSUME McpInv, NEW r \in Requests, NEW o \in newObject, NEW i \in SessionIds,
         NEW owner \in Credentials, NEW v \in Versions,
         \A u \in Objects : object[u].id = i => object[u].owner = owner,
         answered(r), server' = server,
         sessions' = [pruneExpiredSessionsLocked EXCEPT ![i] = o],
         object' = [closeExpired EXCEPT ![o] = mcpSession(i, owner, v)]
  PROVE  McpInv'
<1> DEFINE P == pruneExpiredSessionsLocked
           C == closeExpired
<1>1. /\ P \in [SessionIds -> Objects \cup {None}]
      /\ C \in [Objects -> ObjectRecords]
      /\ \A u \in Objects : C[u].id = object[u].id /\ C[u].owner = object[u].owner
      /\ \A j \in SessionIds : P[j] # None =>
           P[j] = sessions[j] /\ C[sessions[j]].done = object[sessions[j]].done
  BY PruneSessions
<1>2. o \in Objects /\ object[o].id = None
  <2> DEFINE unused == {u \in Objects : object[u].id = None}
  <2>1. unused # {} /\ o = CHOOSE u \in unused : TRUE
    BY DEF newObject
  <2> QED BY <2>1
<1>3. /\ mcpSession(i, owner, v) \in ObjectRecords
      /\ mcpSession(i, owner, v).id = i /\ mcpSession(i, owner, v).owner = owner
      /\ ~mcpSession(i, owner, v).done
  BY DEF mcpSession, ObjectRecords
<1>4. request' = [request EXCEPT ![r] = NoRequest]
  BY DEF answered
<1>5. McpTypeOK'
  BY <1>1, <1>2, <1>3, <1>4, NoRequestIsRequest DEF McpInv, McpTypeOK
<1>6. /\ object'[o].id = i /\ object'[o].owner = owner /\ ~object'[o].done
      /\ \A u \in Objects \ {o} : /\ object'[u].id = object[u].id
                                  /\ object'[u].owner = object[u].owner
                                  /\ object'[u].done = C[u].done
  BY <1>1, <1>2, <1>3
<1>7. /\ sessions'[i] = o
      /\ \A j \in SessionIds \ {i} : sessions'[j] # None =>
           /\ sessions'[j] = sessions[j] /\ sessions[j] \in Objects
           /\ object[sessions[j]].id = j /\ sessions[j] # o
           /\ C[sessions[j]].done = object[sessions[j]].done
  BY <1>1, <1>2, McpFacts DEF McpInv, UnderOwnId
<1>8. UnderOwnId'
  BY <1>6, <1>7 DEF UnderOwnId
<1>9. OneOwner'
  BY <1>2, <1>6 DEF McpInv, OneOwner
<1>10. /\ request'[r].object = None /\ request'[r].pc # "closing"
       /\ \A s \in Requests \ {r} : request'[s] = request[s]
       /\ \A s \in Requests : request[s].object # None =>
            request[s].object \in Objects /\ request[s].object # o
  BY <1>2, <1>4, McpFacts, NoRequestIsRequest DEF McpInv, McpTypeOK, HeldIsMine, RequestRecords
<1>11. HeldIsMine'
  BY <1>6, <1>10 DEF McpInv, HeldIsMine
<1>12. TableIsOpen'
  <2> SUFFICES ASSUME server # "gateway"
               PROVE  /\ \A j \in SessionIds : sessions'[j] # None => ~object'[sessions'[j]].done
                      /\ \A s \in Requests : request'[s].pc = "closing" =>
                           /\ request'[s].object # None
                           /\ \A j \in SessionIds : sessions'[j] # request'[s].object
    BY DEF TableIsOpen
  <2>1. \A j \in SessionIds : sessions'[j] # None => ~object'[sessions'[j]].done
    BY <1>6, <1>7 DEF McpInv, TableIsOpen
  <2>2. ASSUME NEW s \in Requests, request'[s].pc = "closing"
        PROVE  request'[s].object # None /\ \A j \in SessionIds : sessions'[j] # request'[s].object
    <3>1. /\ request'[s] = request[s] /\ request[s].object # None
          /\ \A j \in SessionIds : sessions[j] # request[s].object
      BY <1>10, <2>2 DEF McpInv, TableIsOpen
    <3> QED BY <1>7, <1>10, <3>1
  <2> QED BY <2>1, <2>2
<1> QED BY <1>5, <1>8, <1>9, <1>11, <1>12 DEF McpInv

\* The relay's and the cloud's ensureSession preserves the MCP invariant: the
\* object it puts in the table is open and has the caller as its owner.
LEMMA EnsureStep ==
  ASSUME McpInv, NEW r \in Requests, ensureSession(r), server' = server
  PROVE  McpInv'
<1> DEFINE had == request[r].object
           P == pruneExpiredSessionsLocked
           now == IF had = None THEN None ELSE P[object[had].id]
<1>0. /\ had \in Objects \cup {None} /\ request[r].hash \in Credentials
      /\ had # None => object[had].id \in SessionIds /\ object[had].owner \in Credentials
  BY McpFacts DEF RequestRecords, ObjectRecords, McpInv, HeldIsMine
<1>1. answered(r)
  BY DEF ensureSession
<1>2. PICK v \in Versions :
        \/ /\ now # None
           /\ sessions' = P
           /\ object' = [closeExpired EXCEPT ![now].version = v, ![now].idle = FALSE]
        \/ \E o \in newObject, i \in IF had = None THEN unusedIds ELSE {object[had].id} :
             /\ sessions' = [P EXCEPT ![i] = o]
             /\ object' = [closeExpired EXCEPT ![o] =
                  mcpSession(i, IF had = None THEN request[r].hash ELSE object[had].owner, v)]
  BY DEF ensureSession
<1>3. CASE /\ now # None
           /\ sessions' = P
           /\ object' = [closeExpired EXCEPT ![now].version = v, ![now].idle = FALSE]
  <2>1. now \in Objects
    BY <1>0, <1>3, PruneSessions
  <2>2. object' = Touch(Renegotiate(closeExpired, now, v), now)
    BY <1>3 DEF Touch, Renegotiate
  <2> HIDE DEF now
  <2> QED BY <1>1, <1>3, <2>1, <2>2, KeptStep
<1>4. ASSUME NEW o \in newObject, NEW i \in IF had = None THEN unusedIds ELSE {object[had].id},
             sessions' = [P EXCEPT ![i] = o],
             object' = [closeExpired EXCEPT ![o] =
               mcpSession(i, IF had = None THEN request[r].hash ELSE object[had].owner, v)]
      PROVE  McpInv'
  <2>1. CASE had = None
    <3>1. i \in SessionIds /\ \A u \in Objects : object[u].id # i
      BY <1>4, <2>1 DEF unusedIds
    <3>2. object' = [closeExpired EXCEPT ![o] = mcpSession(i, request[r].hash, v)]
      BY <1>4, <2>1
    <3>3. sessions' = [P EXCEPT ![i] = o] /\ request[r].hash \in Credentials
      BY <1>0, <1>4
    <3> QED BY <1>1, <3>1, <3>2, <3>3, MadeStep
  <2>2. CASE had # None
    <3>1. i = object[had].id /\ i \in SessionIds /\ i # None
      BY <1>0, <1>4, <2>2, McpFacts
    <3>2. \A u \in Objects : object[u].id = i => object[u].owner = object[had].owner
      BY <1>0, <2>2, <3>1 DEF McpInv, OneOwner
    <3>3. object' = [closeExpired EXCEPT ![o] = mcpSession(i, object[had].owner, v)]
      BY <1>4, <2>2
    <3>4. sessions' = [P EXCEPT ![i] = o] /\ object[had].owner \in Credentials
      BY <1>0, <1>4, <2>2
    <3>5. i \in SessionIds
      BY <3>1
    <3> DEFINE owner == object[had].owner
    <3> HIDE DEF had, owner
    <3>6. \A u \in Objects : object[u].id = i => object[u].owner = owner
      BY <3>2 DEF owner
    <3>7. owner \in Credentials
      BY <3>4 DEF owner
    <3>8. object' = [closeExpired EXCEPT ![o] = mcpSession(i, owner, v)]
      BY <3>3 DEF owner
    <3> QED BY <1>1, <3>4, <3>5, <3>6, <3>7, <3>8, MadeStep
  <2> QED BY <2>1, <2>2
<1> QED BY <1>2, <1>3, <1>4

\* The gateway's preserves it too: the object it puts back has the same owner.
LEMMA GatewayEnsureStep ==
  ASSUME McpInv, NEW r \in Requests, gatewayEnsureSession(r), server = "gateway",
         server' = server
  PROVE  McpInv'
<1> DEFINE had == request[r].object
           P == pruneExpiredSessionsLocked
           now == IF had = None THEN None ELSE P[object[had].id]
           kept == IF now # None THEN now ELSE had
<1>0. /\ had \in Objects \cup {None} /\ request[r].hash \in Credentials
      /\ had # None => object[had].id \in SessionIds /\ object[had].id # None
  BY McpFacts DEF RequestRecords, ObjectRecords, McpInv, HeldIsMine
<1>1. answered(r)
  BY DEF gatewayEnsureSession
<1>2. PICK v \in Versions :
        \/ /\ had # None
           /\ sessions' = [P EXCEPT ![object[had].id] = kept]
           /\ object' = [closeExpired EXCEPT ![kept].version = v, ![kept].idle = FALSE]
        \/ \E o \in newObject, i \in unusedIds :
             /\ sessions' = [P EXCEPT ![i] = o]
             /\ object' = [closeExpired EXCEPT ![o] = mcpSession(i, request[r].hash, v)]
  BY DEF gatewayEnsureSession, gatewayPruneExpired
<1>3. CASE /\ had # None
           /\ sessions' = [P EXCEPT ![object[had].id] = kept]
           /\ object' = [closeExpired EXCEPT ![kept].version = v, ![kept].idle = FALSE]
  <2>1. kept \in Objects /\ object[kept].id = object[had].id
    BY <1>0, <1>3, PruneSessions DEF McpInv, UnderOwnId
  <2>2. object' = Touch(Renegotiate(closeExpired, kept, v), kept)
    BY <1>3 DEF Touch, Renegotiate
  <2> HIDE DEF kept
  <2> QED BY <1>0, <1>1, <1>3, <2>1, <2>2, KeptStep
<1>4. ASSUME NEW o \in newObject, NEW i \in unusedIds,
             sessions' = [P EXCEPT ![i] = o],
             object' = [closeExpired EXCEPT ![o] = mcpSession(i, request[r].hash, v)]
      PROVE  McpInv'
  <2>1. i \in SessionIds /\ \A u \in Objects : object[u].id # i
    BY <1>4 DEF unusedIds
  <2> QED BY <1>0, <1>1, <1>4, <2>1, MadeStep
<1> QED BY <1>2, <1>3, <1>4

-----------------------------------------------------------------------------
(* The three servers *)

EndpointsInv == OAuthInv /\ McpInv

\* The invariant holds initially.
LEMMA InitEndpoints ==
  EndpointsInit => EndpointsInv
<1> SUFFICES ASSUME EndpointsInit PROVE EndpointsInv
  OBVIOUS
<1> USE DEF EndpointsInit, Init
<1>1. OAuthInv
  BY DEF OAuthInv, OAuthTypeOK, SpentIsGone, CodeIsSpent, CodeRecords, TokenRecords,
         NoCode, NoToken
<1>2. McpTypeOK
  BY NoRequestIsRequest DEF McpTypeOK, NoObject, ObjectRecords, Credentials
<1>3. UnderOwnId /\ TableIsOpen
  BY NoRequestIsRequest DEF UnderOwnId, TableIsOpen
<1>4. OneOwner
  BY DEF OneOwner, NoObject
<1>5. HeldIsMine
  BY NoRequestIsRequest DEF HeldIsMine
<1> QED BY <1>1, <1>2, <1>3, <1>4, <1>5 DEF EndpointsInv, McpInv

\* Steps that leave the sessions and the requests alone.
LEMMA McpUnchanged ==
  ASSUME McpInv, sessions' = sessions, object' = object, request' = request, server' = server
  PROVE  McpInv'
BY DEF McpInv, McpTypeOK, UnderOwnId, OneOwner, HeldIsMine, TableIsOpen

\* Steps that leave codes and tokens alone.
LEMMA OAuthUnchanged ==
  ASSUME OAuthInv, UNCHANGED oauthVars
  PROVE  OAuthInv'
BY OAuthPruned DEF oauthVars

\* The handlers that the three servers have in common.
Common(r) ==
  \/ sessionFromRequest(r) \/ handleStream(r) \/ streamClosed(r) \/ streamAbandoned(r)
  \/ handleSessionDelete(r) \/ closeSession(r) \/ handlePost(r)

\* The requests that the three endpoints have in common preserve the invariant.
LEMMA CommonStep ==
  ASSUME EndpointsInv, NEW r \in Requests, Common(r), server' = server
  PROVE  EndpointsInv'
<1> USE DEF EndpointsInv
<1>1. UNCHANGED oauthVars
  BY DEF Common, sessionFromRequest, handleStream, streamClosed, streamAbandoned,
         handleSessionDelete, closeSession, handlePost
<1>2. CASE sessionFromRequest(r)
  BY <1>1, <1>2, OAuthUnchanged, LookupStep
<1>3. CASE handleStream(r)
  BY <1>1, <1>3, OAuthUnchanged, StreamStep
<1>4. CASE streamClosed(r) \/ streamAbandoned(r) \/ handlePost(r)
  <2>1. answered(r) /\ sessions' = sessions /\ object' = object
    BY <1>4 DEF streamClosed, streamAbandoned, handlePost, mcpVars
  <2> QED BY <1>1, <2>1, OAuthUnchanged, Answered
<1>5. CASE handleSessionDelete(r)
  BY <1>1, <1>5, OAuthUnchanged, DeleteStep
<1>6. CASE closeSession(r)
  BY <1>1, <1>6, OAuthUnchanged, CloseStep
<1> QED BY <1>2, <1>3, <1>4, <1>5, <1>6 DEF Common

\* The OAuth service works beside the requests.
LEMMA OAuthStep ==
  ASSUME EndpointsInv, server' = server,
         \/ \E c \in Codes : CreateAuthorizationCode(c)
         \/ \E c \in Codes, t \in Tokens : ExchangeCode(c, t)
         \/ \E c \in Codes : codeExpires(c)
         \/ \E t \in Tokens : tokenExpires(t)
  PROVE  EndpointsInv'
<1>1. sessions' = sessions /\ object' = object /\ request' = request
  BY DEF CreateAuthorizationCode, ExchangeCode, codeExpires, tokenExpires, mcpVars
<1>2. OAuthInv'
  BY OAuthCreate, OAuthExchange, OAuthExpiry DEF EndpointsInv
<1> QED BY <1>1, <1>2, McpUnchanged DEF EndpointsInv

\* The relay's steps preserve the invariant.
LEMMA RelayStep ==
  ASSUME EndpointsInv, Next, server' = server
  PROVE  EndpointsInv'
<1>1. ASSUME NEW r \in Requests, Handle(r)
      PROVE  EndpointsInv'
  <2>1. PICK cred \in PlannerTokens \cup Tokens \cup {None}, id \in SessionIds \cup {None} :
          request' \in {request,
                        [request EXCEPT ![r] = [pc |-> "authenticated", hash |-> cred,
                                                id |-> id, object |-> None]]}
    BY <1>1 DEF Handle
  <2>2. /\ codes' \in {codes, pruneLocked(codes)} /\ tokens' \in {tokens, pruneLocked(tokens)}
        /\ refused' = refused /\ sessions' = sessions /\ object' = object
    BY <1>1 DEF Handle, mcpVars
  <2>3. cred \in Credentials
    BY DEF Credentials
  <2>4. OAuthInv'
    BY <2>2, OAuthPruned DEF EndpointsInv
  <2>5. McpInv'
    BY <2>1, <2>2, <2>3, Admitted DEF EndpointsInv
  <2> QED BY <2>4, <2>5 DEF EndpointsInv
<1>2. ASSUME NEW r \in Requests, ensureSession(r)
      PROVE  EndpointsInv'
  <2>1. UNCHANGED oauthVars
    BY <1>2 DEF ensureSession
  <2> QED BY <1>2, <2>1, OAuthUnchanged, EnsureStep DEF EndpointsInv
<1>3. ASSUME NEW r \in Requests, handleToolCall(r)
      PROVE  EndpointsInv'
  <2>1. answered(r) /\ UNCHANGED oauthVars /\ sessions' = sessions /\ object' = object
    BY <1>3 DEF handleToolCall, mcpVars
  <2> QED BY <2>1, OAuthUnchanged, Answered DEF EndpointsInv
<1>4. ASSUME NEW i \in SessionIds, sessionIdle(i)
      PROVE  EndpointsInv'
  <2>1. UNCHANGED oauthVars
    BY <1>4 DEF sessionIdle
  <2> QED BY <1>4, <2>1, OAuthUnchanged, IdleStep DEF EndpointsInv
<1>5. ASSUME NEW r \in Requests, Serve(r)
      PROVE  EndpointsInv'
  BY <1>1, <1>2, <1>3, <1>5, CommonStep DEF Serve, Common
<1> QED BY <1>4, <1>5, OAuthStep DEF Next

\* The gateway's steps preserve the invariant.
LEMMA GatewayStep ==
  ASSUME EndpointsInv, NEW r \in Requests, GatewayServe(r), server = "gateway", server' = server
  PROVE  EndpointsInv'
<1>1. CASE gatewayHandleMCP(r)
  <2>1. PICK cred \in Credentials, id \in SessionIds \cup {None} :
          request' \in {request,
                        [request EXCEPT ![r] = [pc |-> "authenticated", hash |-> cred,
                                                id |-> id, object |-> None]]}
    BY <1>1 DEF gatewayHandleMCP, admit
  <2>2. /\ codes' \in {codes, pruneLocked(codes)} /\ tokens' \in {tokens, pruneLocked(tokens)}
        /\ refused' = refused /\ sessions' = sessions /\ object' = object
    BY <1>1 DEF gatewayHandleMCP, mcpVars
  <2>3. OAuthInv'
    BY <2>2, OAuthPruned DEF EndpointsInv
  <2>4. McpInv'
    BY <2>1, <2>2, Admitted DEF EndpointsInv
  <2> QED BY <2>3, <2>4 DEF EndpointsInv
<1>2. CASE gatewayEnsureSession(r)
  <2>1. UNCHANGED oauthVars
    BY <1>2 DEF gatewayEnsureSession
  <2> QED BY <1>2, <2>1, OAuthUnchanged, GatewayEnsureStep DEF EndpointsInv
<1>3. CASE gatewayHandleToolCall(r)
  <2>1. answered(r) /\ UNCHANGED oauthVars /\ sessions' = sessions /\ object' = object
    BY <1>3 DEF gatewayHandleToolCall, mcpVars
  <2> QED BY <2>1, OAuthUnchanged, Answered DEF EndpointsInv
<1>4. CASE Common(r)
  BY <1>4, CommonStep
<1> QED BY <1>1, <1>2, <1>3, <1>4
   DEF GatewayServe, Common, gatewaySessionFromRequest, gatewayHandleStream, gatewayStreamLoop,
       gatewayHandleSessionDelete, gatewayDeleteSession, gatewayHandleMCPPost

\* The cloud's steps preserve the invariant.
LEMMA CloudStep ==
  ASSUME EndpointsInv, NEW r \in Requests, CloudServe(r), server' = server
  PROVE  EndpointsInv'
<1>1. CASE cloudHandle(r)
  <2>1. PICK cred \in StoreTokens \cup {None}, id \in SessionIds \cup {None} :
          request' \in {request,
                        [request EXCEPT ![r] = [pc |-> "authenticated", hash |-> cred,
                                                id |-> id, object |-> None]]}
    BY <1>1 DEF cloudHandle, admit
  <2>2. UNCHANGED oauthVars /\ sessions' = sessions /\ object' = object
    BY <1>1 DEF cloudHandle, mcpVars
  <2>3. cred \in Credentials
    BY DEF Credentials
  <2> QED BY <2>1, <2>2, <2>3, OAuthUnchanged, Admitted DEF EndpointsInv
<1>2. CASE cloudEnsureSession(r)
  <2>1. ensureSession(r) /\ UNCHANGED oauthVars
    BY <1>2 DEF cloudEnsureSession, ensureSession
  <2> QED BY <2>1, OAuthUnchanged, EnsureStep DEF EndpointsInv
<1>3. CASE cloudHandleToolCall(r)
  <2>1. answered(r) /\ UNCHANGED oauthVars /\ sessions' = sessions /\ object' = object
    BY <1>3 DEF cloudHandleToolCall, mcpVars
  <2> QED BY <2>1, OAuthUnchanged, Answered DEF EndpointsInv
<1>4. CASE Common(r)
  BY <1>4, CommonStep
<1> QED BY <1>1, <1>2, <1>3, <1>4
   DEF CloudServe, Common, cloudSessionFromRequest, cloudHandleStream, cloudStreamLoop,
       cloudHandleSessionDelete, cloudDeleteSession, cloudHandlePost

\* Every step preserves the invariant.
LEMMA NextEndpoints ==
  ASSUME EndpointsInv, [EndpointsNext]_allVars
  PROVE  EndpointsInv'
<1>1. CASE server = "relay" /\ Next /\ UNCHANGED endpointVars
  BY <1>1, RelayStep DEF endpointVars
<1>2. CASE /\ server = "gateway" /\ \E r \in Requests : GatewayServe(r)
           /\ UNCHANGED endpointVars
  BY <1>2, GatewayStep DEF endpointVars
<1>3. CASE (gatewayOAuth \/ gatewayOAuthExpiry) /\ UNCHANGED endpointVars
  BY <1>3, OAuthStep DEF endpointVars, gatewayOAuth, gatewayOAuthExpiry,
     gatewayCreateAuthorizationCode, gatewayExchangeCode
<1>4. CASE (\E r \in Requests : CloudServe(r)) /\ UNCHANGED endpointVars
  BY <1>4, CloudStep DEF endpointVars
<1>5. CASE (\E i \in SessionIds : sessionIdle(i)) /\ UNCHANGED endpointVars
  <2>1. UNCHANGED oauthVars
    BY <1>5 DEF sessionIdle
  <2> QED BY <1>5, <2>1, OAuthUnchanged, IdleStep DEF EndpointsInv, endpointVars
<1>6. CASE (\E t \in StoreTokens : revoked(t)) \/ UNCHANGED allVars
  <2>1. UNCHANGED <<vars, server>>
    BY <1>6 DEF revoked, allVars, endpointVars
  <2> QED BY <2>1, OAuthUnchanged, McpUnchanged DEF EndpointsInv, vars, mcpVars
<1> QED BY <1>1, <1>2, <1>3, <1>4, <1>5, <1>6 DEF EndpointsNext

\* Whoever presents an authorization code first spends it, at the relay and at
\* the gateway: it pays for at most one token, and for none once an exchange of
\* it has been refused (ExchangeCode deletes before it compares).
THEOREM CodesAreSpent == EndpointsSpec => []CodeIsSpent
<1>1. EndpointsInv => CodeIsSpent
  BY DEF EndpointsInv, OAuthInv
<1> QED BY <1>1, InitEndpoints, NextEndpoints, PTL DEF EndpointsSpec

\* However lookups, initialize, DELETE and expiry of any number of requests
\* interleave, a handler only ever holds a session of the planner it
\* authenticated, and the relay and the cloud keep no closed session in their
\* tables (sessionFromRequest, ensureSession, deleteSession).
THEOREM SessionsAreSound == EndpointsSpec => []SessionIsSound
<1>1. EndpointsInv => SessionIsSound
  BY DEF EndpointsInv, McpInv, HeldIsMine, TableIsOpen, SessionIsSound
<1> QED BY <1>1, InitEndpoints, NextEndpoints, PTL DEF EndpointsSpec
=============================================================================
