---------------------------- MODULE CloudProofs ----------------------------
(***************************************************************************)
(* Theorems about Cloud for any number of requests in flight, tokens,      *)
(* members, installations, issues, claims, and for every scenario.         *)
(* MemberTokensStayBound needs what a request in flight knows of the token *)
(* it came with.  UpdatesAreSeen needs the same of every copy of an        *)
(* installation's row that a handler or the worker holds and may write     *)
(* back, and what a poll under way has still to store.                     *)
(***************************************************************************)
EXTENDS Cloud, TLAPS

-----------------------------------------------------------------------------
(* Accounts *)

AccessTypes ==
  /\ members \in [MemberIds -> MemberRows \cup {None}]
  /\ tokens \in [TokenIds -> TokenRows \cup {None}]

\* A token made by a request: its maker still has a row, a bound maker makes
\* bound tokens, and a bound token keeps to its membership's role.
tied(row, ts, ms) ==
  row.by # None =>
    /\ ts[row.by] # None
    /\ ts[row.by].member # None => row.member # None
    /\ row.member # None =>
         \A s \in row.scopes : scopeAllowed(roleScopeAllowlist[ms[row.member].role], s)

\* The membership a token is bound to has a row.
homed(row, ms) == row.member # None => ms[row.member] # None

TokensAreTied ==
  \A t \in TokenIds : tokens[t] # None => tied(tokens[t], tokens, members) /\ homed(tokens[t], members)

\* What a request k knows is still true of the token it came with, and of the
\* membership it is about to write back.
known(k, ts, ms) ==
  /\ k.pc = "member" =>
       /\ k.t \in TokenIds /\ ts[k.t] # None /\ k.row.member = ts[k.t].member
       /\ k.row.member # None
  /\ k.pc = "authed" =>
       k.who.id \in TokenIds /\ ts[k.who.id] # None /\ k.who.member = ts[k.who.id].member
  /\ k.pc = "rewrite" =>
       /\ k.id \in MemberIds /\ k.row \in MemberRows
       /\ ms[k.id] # None /\ ms[k.id].role = k.row.role

\* A request is a record with a program counter.
shaped(k) == "pc" \in DOMAIN k

CallsKnow ==
  /\ DOMAIN call = Callers
  /\ \A c \in Callers : known(call[c], tokens, members) /\ shaped(call[c])

AccessInv == AccessTypes /\ TokensAreTied /\ CallsKnow

-----------------------------------------------------------------------------
(* Runtimes *)

\* A connector that was disabled last is disabled at the relay.
RuntimeInv ==
  /\ shared \subseteq Instances
  /\ DOMAIN toggle = Connectors
  /\ \A k \in Connectors : toggle[k] \in {"disable", "disabled"} => k \in off

-----------------------------------------------------------------------------
(* Installations *)

InstRows == [status : {"created", "active", "error", "disabled"}, enabled : BOOLEAN,
             sync : Nat \cup {None}]

InstTypes ==
  /\ inst \in [Installations -> InstRows \cup {None}]
  /\ secrets \in [Installations -> SUBSET {"token", "webhook_secret"}]
  /\ issue \in [Issues -> Int] /\ \A k \in Issues : issue[k] >= -1
  /\ clock \in Nat

\* An update of issue k at tick t is stored for installation id, or excused.
covered(id, k, t, evs, exc) == <<id, k, t>> \in evs \/ <<k, t>> \in exc

\* What holds of a copy of id's row, wherever it is held: it has been synced
\* only if id is a Jira installation with a token, and the query it leads to
\* leaves out only what is covered.
sound(id, row, now, iss, sec, evs, exc) ==
  row.sync # None =>
    /\ row.sync <= now /\ ProviderOf[id] = "jira" /\ sec[id] # {}
    /\ \A k \in Issues : iss[k] < floorToMinute(row.sync) => covered(id, k, iss[k], evs, exc)

\* The copies held by requests at the provider.
heldBy(k, now, iss, sec, evs, exc) ==
  k.pc = "provider" =>
    k.id \in Installations /\ k.row \in InstRows /\ sound(k.id, k.row, now, iss, sec, evs, exc)

\* A request that has still to store the secrets: nobody else works on its id.
storing(k, sec, ids) ==
  k.pc = "secrets" =>
    /\ k.id \in Installations /\ k.given \subseteq {"token", "webhook_secret"}
    /\ k.id \in ids /\ sec[k.id] = {}

RowsAreSound ==
  \A id \in Installations : inst[id] # None => sound(id, inst[id], clock, issue, secrets, events, excused)

CopiesAreSound == \A c \in Callers : heldBy(call[c], clock, issue, secrets, events, excused)

SecretsAreNew ==
  /\ \A c \in Callers : storing(call[c], secrets, used)
  /\ \A c, d \in Callers : (call[c].pc = "secrets" /\ call[d].pc = "secrets" /\ call[c].id = call[d].id) => c = d
  /\ \A id \in Installations : secrets[id] # {} => id \in used

\* The worker's list of rows.
listOK(todo, now, iss, sec, evs, exc) ==
  \A e \in todo : /\ e \in Installations \X InstRows
                  /\ sound(e[1], e[2], now, iss, sec, evs, exc)

\* A poll whose answer is in: what is not newer than the search was found, cut
\* off, or not asked for.
answerOK(p, now, iss, sec) ==
  /\ p.e \in p.todo /\ ProviderOf[p.e[1]] = "jira" /\ sec[p.e[1]] # {}
  /\ p.asked \in Nat /\ p.asked <= now
  /\ \A g \in p.got : /\ g \in {p.e[1]} \X Issues \X Int
                      /\ g[3] <= iss[g[2]]
  /\ \A k \in Issues : iss[k] < p.asked =>
       \/ <<p.e[1], k, iss[k]>> \in p.got
       \/ <<k, iss[k]>> \in p.cut
       \/ iss[k] < sinceOf(p.e[2])

PollIsSound ==
  /\ poll.pc \in {"asleep", "next", "answered"}
  /\ poll.pc = "asleep" => poll = Asleep
  /\ poll.pc = "next" => poll = [pc |-> "next", todo |-> poll.todo]
  /\ poll.pc # "asleep" => listOK(poll.todo, clock, issue, secrets, events, excused)
  /\ poll.pc = "answered" => answerOK(poll, clock, issue, secrets)

\* No stored event of an issue is newer than the issue.
EventsAreOld ==
  \A e \in events :
    /\ e \in Installations \X (Issues \cup HookKinds) \X Int
    /\ ProviderOf[e[1]] = "jira" => e[2] \in Issues /\ e[3] <= issue[e[2]]

InstInv ==
  /\ InstTypes /\ RowsAreSound /\ CopiesAreSound /\ SecretsAreNew /\ PollIsSound /\ EventsAreOld

\* The inductive invariant.
IInv == scene \in Scenarios /\ AccessInv /\ RuntimeInv /\ InstInv

-----------------------------------------------------------------------------
(* Rows of tokens and memberships only grow *)

\* From the tables ts, ms to ts2, ms2 no row disappears, no token changes its
\* membership and no membership its role.
grown(ts, ms, ts2, ms2) ==
  /\ \A t \in TokenIds : ts[t] # None => ts2[t] # None /\ ts2[t].member = ts[t].member
  /\ \A m \in MemberIds : ms[m] # None => ms2[m] # None /\ ms2[m].role = ms[m].role

\* What ties a token to its maker and its membership stays.
LEMMA TiedStays ==
  ASSUME NEW ts, NEW ms, NEW ts2, NEW ms2, NEW row \in TokenRows,
         tied(row, ts, ms), homed(row, ms), grown(ts, ms, ts2, ms2)
  PROVE  tied(row, ts2, ms2) /\ homed(row, ms2)
<1>1. row.by \in TokenIds \cup {None} /\ row.member \in MemberIds \cup {None}
  BY DEF TokenRows
<1>2. homed(row, ms2)
  BY <1>1 DEF homed, grown
<1>3. row.member # None => ms2[row.member].role = ms[row.member].role
  BY <1>1 DEF homed, grown
<1>4. tied(row, ts2, ms2)
  BY <1>1, <1>3 DEF tied, grown
<1> QED BY <1>2, <1>4

\* What a request knows stays true.
LEMMA KnownStays ==
  ASSUME NEW ts, NEW ms, NEW ts2, NEW ms2, NEW k,
         known(k, ts, ms), grown(ts, ms, ts2, ms2)
  PROVE  known(k, ts2, ms2)
BY DEF known, grown

\* Nothing has grown where nothing has changed.
LEMMA GrownSame ==
  ASSUME NEW ts, NEW ms
  PROVE  grown(ts, ms, ts, ms)
BY DEF grown

\* A step of request c that leaves it with record k.
LEMMA CallStep ==
  ASSUME AccessInv, NEW c \in Callers, NEW k, call' = [call EXCEPT ![c] = k],
         known(k, tokens', members'), shaped(k),
         grown(tokens, members, tokens', members')
  PROVE  CallsKnow'
<1>1. DOMAIN call = Callers
  BY DEF AccessInv, CallsKnow
<1>2. DOMAIN call' = Callers /\ call'[c] = k /\ \A d \in Callers \ {c} : call'[d] = call[d]
  BY <1>1
<1>3. ASSUME NEW d \in Callers
      PROVE  known(call'[d], tokens', members') /\ shaped(call'[d])
  <2>1. CASE d = c
    BY <1>2, <2>1
  <2>2. CASE d # c
    <3>1. known(call[d], tokens, members) /\ shaped(call[d])
      BY DEF AccessInv, CallsKnow
    <3>2. known(call[d], tokens', members')
      BY <3>1, KnownStays
    <3> QED BY <1>2, <2>2, <3>1, <3>2
  <2> QED BY <2>1, <2>2
<1> QED BY <1>2, <1>3 DEF CallsKnow

\* The same where both tables stay.
LEMMA CallOnly ==
  ASSUME AccessInv, NEW c \in Callers, NEW k, call' = [call EXCEPT ![c] = k],
         known(k, tokens, members), shaped(k), UNCHANGED <<members, tokens>>
  PROVE  AccessInv'
<1>1. tokens' = tokens /\ members' = members
  OBVIOUS
<1>2. grown(tokens, members, tokens', members')
  BY <1>1, GrownSame
<1>3. known(k, tokens', members')
  BY <1>1
<1>4. CallsKnow'
  BY <1>2, <1>3, CallStep
<1>5. AccessTypes' /\ TokensAreTied'
  BY <1>1 DEF AccessInv, AccessTypes, TokensAreTied
<1> QED BY <1>4, <1>5 DEF AccessInv

\* A request at one of the other points knows nothing that could change.
LEMMA OtherPoint ==
  ASSUME NEW k, k.pc \notin {"member", "authed", "rewrite"}
  PROVE  known(k, tokens, members)
BY DEF known

\* A request that has been answered.
LEMMA Answered ==
  ASSUME AccessInv, NEW c \in Callers, answer(c), UNCHANGED <<members, tokens>>
  PROVE  AccessInv'
<1>1. Idle.pc = "idle"
  BY DEF Idle
<1>2. known(Idle, tokens, members) /\ shaped(Idle)
  BY <1>1 DEF known, shaped, Idle
<1> QED BY <1>2, CallOnly DEF answer

\* A request that moves to a point of its own.
LEMMA Moved ==
  ASSUME AccessInv, NEW c \in Callers, NEW k, call' = [call EXCEPT ![c] = k],
         k.pc \notin {"member", "authed", "rewrite"}, shaped(k),
         UNCHANGED <<members, tokens>>
  PROVE  AccessInv'
BY OtherPoint, CallOnly

\* Authentication leaves the request with the token's membership.
LEMMA Admitted ==
  ASSUME AccessInv, NEW c \in Callers, NEW op, NEW p, admitted(c, op, p),
         p.id \in TokenIds, tokens[p.id] # None, p.member = tokens[p.id].member,
         UNCHANGED <<members, tokens>>
  PROVE  AccessInv'
<1> DEFINE k == [pc |-> "authed", op |-> op, who |-> p]
<1>1. CASE call' = [call EXCEPT ![c] = k]
  <2>1. known(k, tokens, members) /\ shaped(k)
    BY DEF known, shaped
  <2> HIDE DEF k
  <2> QED BY <1>1, <2>1, CallOnly
<1>2. CASE call' = [call EXCEPT ![c] = Idle]
  BY <1>2, Answered DEF answer
<1> QED BY <1>1, <1>2 DEF admitted

-----------------------------------------------------------------------------
(* Tokens and memberships *)

\* The scopes a role's clamp lets through are the role's.
LEMMA ClampKeepsToRole ==
  ASSUME NEW role \in Roles, NEW want \in Requested,
         ClampScopesForRole(role, want) # None
  PROVE  /\ ClampScopesForRole(role, want) \in Requested \cup {roleScopeAllowlist[r] : r \in Roles}
         /\ \A s \in ClampScopesForRole(role, want) : scopeAllowed(roleScopeAllowlist[role], s)
<1> DEFINE allowed == roleScopeAllowlist[role]
<1>1. allowed \in {roleScopeAllowlist[r] : r \in Roles}
  OBVIOUS
<1> HIDE DEF allowed
<1>2. \/ ClampScopesForRole(role, want) = allowed
      \/ /\ ClampScopesForRole(role, want) = want
         /\ \A s \in want : scopeAllowed(allowed, s)
  BY DEF ClampScopesForRole, allowed
<1>3. \A s \in allowed : scopeAllowed(allowed, s)
  BY DEF scopeAllowed
<1>4. ClampScopesForRole(role, want) \in Requested \cup {roleScopeAllowlist[r] : r \in Roles}
  BY <1>1, <1>2
<1>5. \A s \in ClampScopesForRole(role, want) : scopeAllowed(allowed, s)
  BY <1>2, <1>3
<1> QED BY <1>4, <1>5 DEF allowed

\* The row a request makes is tied to the token the request came with.
LEMMA NewTokenIsTied ==
  ASSUME AccessInv, NEW p, p.id \in TokenIds, tokens[p.id] # None,
         p.member = tokens[p.id].member,
         NEW at \in Targets, NEW m \in MemberIds \cup {None}, NEW want \in Requested,
         newToken(p, at, m, want) # None
  PROVE  LET row == newToken(p, at, m, want)
         IN  row \in TokenRows /\ tied(row, tokens, members) /\ homed(row, members)
<1> DEFINE id == boundMember(p, m)
           row(scopes) == [at |-> at, member |-> id, scopes |-> scopes, revoked |-> FALSE, by |-> p.id]
           kept == ClampScopesForRole(members[id].role, want)
<1>1. p.member \in MemberIds \cup {None}
  BY DEF AccessInv, AccessTypes, TokenRows
<1>2. id \in MemberIds \cup {None} /\ (p.member # None => id # None)
  BY <1>1 DEF boundMember
<1>3. \/ newToken(p, at, m, want) = row(want) /\ id = None
      \/ /\ newToken(p, at, m, want) = row(kept)
         /\ id # None /\ members[id] # None /\ kept # None
  BY DEF newToken
<1> HIDE DEF id, kept
<1>4. CASE newToken(p, at, m, want) = row(want) /\ id = None
  <2>1. row(want) \in TokenRows
    BY <1>2 DEF TokenRows
  <2>2. row(want).by = p.id /\ row(want).member = None
    BY <1>4
  <2>3. tied(row(want), tokens, members) /\ homed(row(want), members)
    BY <1>2, <1>4, <2>2 DEF tied, homed
  <2> QED BY <1>4, <2>1, <2>3
<1>5. CASE /\ newToken(p, at, m, want) = row(kept)
           /\ id # None /\ members[id] # None /\ kept # None
  <2>1. members[id] \in MemberRows
    BY <1>2, <1>5 DEF AccessInv, AccessTypes
  <2>2. members[id].role \in Roles
    BY <2>1 DEF MemberRows
  <2>3. /\ kept \in Requested \cup {roleScopeAllowlist[r] : r \in Roles}
        /\ \A s \in kept : scopeAllowed(roleScopeAllowlist[members[id].role], s)
    BY <1>5, <2>2, ClampKeepsToRole DEF kept
  <2>4. row(kept) \in TokenRows
    BY <1>2, <2>3 DEF TokenRows
  <2>5. row(kept).by = p.id /\ row(kept).member = id /\ row(kept).scopes = kept
    OBVIOUS
  <2>6. tied(row(kept), tokens, members) /\ homed(row(kept), members)
    BY <1>5, <2>3, <2>5 DEF tied, homed
  <2> QED BY <1>5, <2>4, <2>6
<1> QED BY <1>3, <1>4, <1>5

\* POST /tokens.
LEMMA HandleTokens ==
  ASSUME AccessInv, NEW c \in Callers, handleTokens(c)
  PROVE  AccessInv'
<1> DEFINE p == call[c].who
<1>1. /\ p.id \in TokenIds /\ tokens[p.id] # None /\ p.member = tokens[p.id].member
      /\ members' = members /\ answer(c)
  BY DEF handleTokens, authed, AccessInv, CallsKnow, known
<1>2. PICK at \in Targets, m \in MemberIds \cup {None}, want \in Requested :
        IF newToken(p, at, m, want) = None THEN UNCHANGED tokens
        ELSE CreateAPIToken(newToken(p, at, m, want))
  BY DEF handleTokens
<1>3. CASE UNCHANGED tokens
  BY <1>1, <1>3, Answered
<1>4. CASE newToken(p, at, m, want) # None /\ CreateAPIToken(newToken(p, at, m, want))
  <2> DEFINE row == newToken(p, at, m, want)
             new == newId(tokens)
  <2>1. row \in TokenRows /\ tied(row, tokens, members) /\ homed(row, members)
    BY <1>1, <1>4, NewTokenIsTied
  <2>2. new \in DOMAIN tokens /\ tokens[new] = None
    BY <1>4 DEF CreateAPIToken, newId, fresh
  <2>3. tokens' = [tokens EXCEPT ![new] = row] /\ row # None
    BY <1>4 DEF CreateAPIToken
  <2> HIDE DEF row, new
  <2>4. new \in TokenIds
    BY <2>2 DEF AccessInv, AccessTypes
  <2>5. tokens' \in [TokenIds -> TokenRows \cup {None}]
    BY <2>1, <2>3 DEF AccessInv, AccessTypes
  <2>6. tokens'[new] = row /\ \A t \in TokenIds \ {new} : tokens'[t] = tokens[t]
    BY <2>3, <2>4 DEF AccessInv, AccessTypes
  <2>7. grown(tokens, members, tokens', members')
    BY <1>1, <2>2, <2>6 DEF grown
  <2>8. TokensAreTied'
    <3> SUFFICES ASSUME NEW t \in TokenIds, tokens'[t] # None
                 PROVE  tied(tokens'[t], tokens', members') /\ homed(tokens'[t], members')
      BY DEF TokensAreTied
    <3>1. CASE t = new
      BY <2>1, <2>6, <2>7, <3>1, TiedStays
    <3>2. CASE t # new
      <4>1. tokens'[t] = tokens[t] /\ tokens[t] \in TokenRows
        BY <2>6, <3>2 DEF AccessInv, AccessTypes
      <4>2. tied(tokens[t], tokens, members) /\ homed(tokens[t], members)
        BY <4>1 DEF AccessInv, TokensAreTied
      <4> QED BY <2>7, <4>1, <4>2, TiedStays
    <3> QED BY <3>1, <3>2
  <2>9. known(Idle, tokens', members') /\ shaped(Idle)
    BY DEF known, shaped, Idle
  <2>10. CallsKnow'
    BY <1>1, <2>7, <2>9, CallStep DEF answer
  <2> QED BY <1>1, <2>5, <2>8, <2>10 DEF AccessInv, AccessTypes
<1> QED BY <1>2, <1>3, <1>4

\* DELETE /tokens/{id}: the row stays, marked revoked.
LEMMA HandleTokenByID ==
  ASSUME AccessInv, NEW c \in Callers, handleTokenByID(c)
  PROVE  AccessInv'
<1>1. PICK t \in TokenIds : /\ tokens[t] # None
                            /\ tokens' = [tokens EXCEPT ![t].revoked = TRUE] \/ UNCHANGED tokens
  BY DEF handleTokenByID, RevokeAPIToken, GetAPIToken
<1>2. members' = members /\ answer(c)
  BY DEF handleTokenByID
<1>3. CASE UNCHANGED tokens
  BY <1>2, <1>3, Answered
<1>4. CASE tokens' = [tokens EXCEPT ![t].revoked = TRUE]
  <2> DEFINE row == [tokens[t] EXCEPT !.revoked = TRUE]
  <2>1. tokens[t] \in TokenRows
    BY <1>1 DEF AccessInv, AccessTypes
  <2>2. /\ row \in TokenRows /\ row.member = tokens[t].member
        /\ row.by = tokens[t].by /\ row.scopes = tokens[t].scopes
    BY <2>1 DEF TokenRows
  <2>3. tokens' = [tokens EXCEPT ![t] = row]
    BY <1>4
  <2> HIDE DEF row
  <2>4. tokens' \in [TokenIds -> TokenRows \cup {None}]
    BY <2>2, <2>3 DEF AccessInv, AccessTypes
  <2>5. tokens'[t] = row /\ \A u \in TokenIds \ {t} : tokens'[u] = tokens[u]
    BY <2>3 DEF AccessInv, AccessTypes
  <2>6. row # None
    BY <2>2, NoneIsNoRow
  <2>7. grown(tokens, members, tokens', members')
    BY <1>2, <2>2, <2>5, <2>6 DEF grown
  <2>8. TokensAreTied'
    <3> SUFFICES ASSUME NEW u \in TokenIds, tokens'[u] # None
                 PROVE  tied(tokens'[u], tokens', members') /\ homed(tokens'[u], members')
      BY DEF TokensAreTied
    <3>1. tokens[u] # None /\ tokens[u] \in TokenRows
      BY <1>1, <2>5 DEF AccessInv, AccessTypes
    <3>2. tied(tokens[u], tokens, members) /\ homed(tokens[u], members)
      BY <3>1 DEF AccessInv, TokensAreTied
    <3>3. tied(tokens[u], tokens', members') /\ homed(tokens[u], members')
      BY <2>7, <3>1, <3>2, TiedStays
    <3>4. CASE u # t
      BY <2>5, <3>3, <3>4
    <3>5. CASE u = t
      BY <2>2, <2>5, <3>3, <3>5 DEF tied, homed
    <3> QED BY <3>4, <3>5
  <2>9. known(Idle, tokens', members') /\ shaped(Idle)
    BY DEF known, shaped, Idle
  <2>10. CallsKnow'
    BY <1>2, <2>7, <2>9, CallStep DEF answer
  <2> QED BY <1>2, <2>4, <2>8, <2>10 DEF AccessInv, AccessTypes
<1> QED BY <1>1, <1>3, <1>4

\* A membership row is inserted, or overwritten by one of the same role.
LEMMA MembershipWritten ==
  ASSUME AccessInv, NEW c \in Callers, NEW m \in MemberIds, NEW row \in MemberRows,
         members[m] # None => members[m].role = row.role,
         CreateMembership(m, row), answer(c), tokens' = tokens
  PROVE  AccessInv'
<1>1. members' \in [MemberIds -> MemberRows \cup {None}]
  BY DEF AccessInv, AccessTypes, CreateMembership
<1>2. members'[m] = row /\ \A n \in MemberIds \ {m} : members'[n] = members[n]
  BY DEF AccessInv, AccessTypes, CreateMembership
<1>3. row # None
  BY NoneIsNoRow
<1>4. grown(tokens, members, tokens', members')
  BY <1>2, <1>3 DEF grown
<1>5. TokensAreTied'
  <2> SUFFICES ASSUME NEW t \in TokenIds, tokens[t] # None
               PROVE  tied(tokens[t], tokens', members') /\ homed(tokens[t], members')
    BY DEF TokensAreTied
  <2>1. tokens[t] \in TokenRows
    BY DEF AccessInv, AccessTypes
  <2>2. tied(tokens[t], tokens, members) /\ homed(tokens[t], members)
    BY DEF AccessInv, TokensAreTied
  <2> QED BY <1>4, <2>1, <2>2, TiedStays
<1>6. known(Idle, tokens', members') /\ shaped(Idle)
  BY DEF known, shaped, Idle
<1>7. CallsKnow'
  BY <1>4, <1>6, CallStep DEF answer
<1> QED BY <1>1, <1>5, <1>7 DEF AccessInv, AccessTypes

\* POST /memberships.
LEMMA HandleMemberships ==
  ASSUME AccessInv, NEW c \in Callers, handleMemberships(c)
  PROVE  AccessInv'
<1>1. tokens' = tokens /\ answer(c)
  BY DEF handleMemberships
<1>2. PICK at \in Targets, role \in Roles :
        \/ UNCHANGED members
        \/ /\ fresh(members) # {}
           /\ CreateMembership(newId(members), [at |-> at, role |-> role, active |-> TRUE])
  BY DEF handleMemberships
<1>3. CASE UNCHANGED members
  BY <1>1, <1>3, Answered
<1>4. CASE /\ fresh(members) # {}
           /\ CreateMembership(newId(members), [at |-> at, role |-> role, active |-> TRUE])
  <2>1. newId(members) \in MemberIds /\ members[newId(members)] = None
    BY <1>4 DEF newId, fresh, AccessInv, AccessTypes
  <2>2. [at |-> at, role |-> role, active |-> TRUE] \in MemberRows
    BY DEF MemberRows
  <2> QED BY <1>1, <1>4, <2>1, <2>2, MembershipWritten
<1> QED BY <1>2, <1>3, <1>4

\* Enabling and disabling a membership: the row is read ...
LEMMA LoadMembership ==
  ASSUME AccessInv, NEW c \in Callers, loadMembership(c)
  PROVE  AccessInv'
<1>1. PICK id \in MemberIds :
        /\ members[id] # None
        /\ \/ call' = [call EXCEPT ![c] = Idle]
           \/ call' = [call EXCEPT ![c] = [pc |-> "rewrite", op |-> call[c].op, id |-> id, row |-> members[id]]]
  BY DEF loadMembership
<1>2. UNCHANGED <<members, tokens>>
  BY DEF loadMembership
<1>3. CASE call' = [call EXCEPT ![c] = Idle]
  BY <1>2, <1>3, Answered DEF answer
<1>4. CASE call' = [call EXCEPT ![c] = [pc |-> "rewrite", op |-> call[c].op, id |-> id, row |-> members[id]]]
  <2> DEFINE k == [pc |-> "rewrite", op |-> call[c].op, id |-> id, row |-> members[id]]
  <2>1. members[id] \in MemberRows
    BY <1>1 DEF AccessInv, AccessTypes
  <2>2. known(k, tokens, members) /\ shaped(k)
    BY <1>1, <2>1 DEF known, shaped
  <2>3. call' = [call EXCEPT ![c] = k]
    BY <1>4
  <2> HIDE DEF k
  <2> QED BY <1>2, <2>2, <2>3, CallOnly
<1> QED BY <1>1, <1>3, <1>4

\* ... and written back whole.
LEMMA HandleMembershipByID ==
  ASSUME AccessInv, NEW c \in Callers, handleMembershipByID(c)
  PROVE  AccessInv'
<1> DEFINE row == [call[c].row EXCEPT !.active = (call[c].op = "resume")]
<1>1. /\ call[c].id \in MemberIds /\ call[c].row \in MemberRows
      /\ members[call[c].id].role = call[c].row.role
  BY DEF handleMembershipByID, AccessInv, CallsKnow, known
<1>2. row \in MemberRows /\ row.role = call[c].row.role
  BY <1>1 DEF MemberRows
<1>3. CreateMembership(call[c].id, row) /\ answer(c) /\ tokens' = tokens
  BY DEF handleMembershipByID
<1> HIDE DEF row
<1> QED BY <1>1, <1>2, <1>3, MembershipWritten

\* Authentication, first read.
LEMMA LookUpToken ==
  ASSUME AccessInv, NEW c \in Callers, NEW t \in TokenIds, NEW op, LookupAPIToken(c, t, op)
  PROVE  AccessInv'
<1>1. tokens[t] # None /\ UNCHANGED <<members, tokens>>
  BY DEF LookupAPIToken
<1>2. CASE tokens[t].member = None /\ admitted(c, op, principal(t, tokens[t], None))
  <2>1. principal(t, tokens[t], None).id = t /\ principal(t, tokens[t], None).member = tokens[t].member
    BY DEF principal
  <2> QED BY <1>1, <1>2, <2>1, Admitted
<1>3. CASE /\ tokens[t].member # None
           /\ call' = [call EXCEPT ![c] = [pc |-> "member", op |-> op, t |-> t, row |-> tokens[t]]]
  <2> DEFINE k == [pc |-> "member", op |-> op, t |-> t, row |-> tokens[t]]
  <2>1. known(k, tokens, members) /\ shaped(k)
    BY <1>1, <1>3 DEF known, shaped
  <2>2. call' = [call EXCEPT ![c] = k]
    BY <1>3
  <2> HIDE DEF k
  <2> QED BY <1>1, <2>1, <2>2, CallOnly
<1> QED BY <1>2, <1>3 DEF LookupAPIToken

\* Second read.
LEMMA LookUpMembership ==
  ASSUME AccessInv, NEW c \in Callers, GetMembership(c)
  PROVE  AccessInv'
<1> DEFINE p == principal(call[c].t, call[c].row, members[call[c].row.member])
<1>1. /\ call[c].t \in TokenIds /\ tokens[call[c].t] # None
      /\ call[c].row.member = tokens[call[c].t].member
      /\ UNCHANGED <<members, tokens>>
  BY DEF GetMembership, AccessInv, CallsKnow, known
<1>2. CASE admitted(c, call[c].op, p)
  <2>1. p.id = call[c].t /\ p.member = call[c].row.member
    BY DEF principal
  <2> HIDE DEF p
  <2> QED BY <1>1, <1>2, <2>1, Admitted
<1>3. CASE call' = [call EXCEPT ![c] = Idle]
  BY <1>1, <1>3, Answered DEF answer
<1> QED BY <1>2, <1>3 DEF GetMembership

-----------------------------------------------------------------------------
(* The requests of the other cloud modules *)

\* The installation handlers.
LEMMA HandlersKnow ==
  ASSUME AccessInv, NEW c \in Callers, handlerStep(c)
  PROVE  AccessInv'
<1>1. CASE handleInstallations(c)
  <2>0. UNCHANGED <<members, tokens>>
    BY <1>1 DEF handleInstallations
  <2>1. PICK id, given :
          \/ answer(c)
          \/ call' = [call EXCEPT ![c] = [pc |-> "secrets", id |-> id, given |-> given]]
    BY <1>1 DEF handleInstallations
  <2>2. shaped([pc |-> "secrets", id |-> id, given |-> given])
    BY DEF shaped
  <2>3. [pc |-> "secrets", id |-> id, given |-> given].pc = "secrets"
    OBVIOUS
  <2>4. CASE answer(c)
    BY <2>0, <2>4, Answered
  <2>5. CASE call' = [call EXCEPT ![c] = [pc |-> "secrets", id |-> id, given |-> given]]
    BY <2>0, <2>2, <2>3, <2>5, Moved
  <2> QED BY <2>1, <2>4, <2>5
<1>2. CASE loadInstallation(c) \/ receiveWebhook(c)
  <2>0. UNCHANGED <<members, tokens>>
    BY <1>2 DEF loadInstallation, receiveWebhook
  <2>1. PICK op, id :
          \/ answer(c)
          \/ resolveInstallationConnector(c, op, id)
    BY <1>2 DEF loadInstallation, receiveWebhook
  <2> DEFINE k == [pc |-> "provider", op |-> op, id |-> id,
                   row |-> GetConnectorInstallation(id), cfg |-> installationConfig(id)]
  <2>2. shaped(k) /\ k.pc = "provider"
    BY DEF shaped
  <2>3. CASE answer(c)
    BY <2>0, <2>3, Answered
  <2>4. CASE resolveInstallationConnector(c, op, id)
    <3>1. call' = [call EXCEPT ![c] = k]
      BY <2>4 DEF resolveInstallationConnector
    <3> HIDE DEF k
    <3> QED BY <2>0, <2>2, <3>1, Moved
  <2> QED BY <2>1, <2>3, <2>4
<1>3. CASE \/ PutInstallationSecrets(c) \/ handleInstallationValidate(c)
           \/ handleInstallationAction(c) \/ handleInstallationEnableDisable(c)
           \/ handleInstallationWebhook(c)
  <2>1. answer(c) /\ UNCHANGED <<members, tokens>>
    BY <1>3 DEF PutInstallationSecrets, handleInstallationValidate, handleInstallationAction,
         handleInstallationEnableDisable, handleInstallationWebhook, reply
  <2> QED BY <2>1, Answered
<1> QED BY <1>1, <1>2, <1>3 DEF handlerStep

\* The refresh starts with the copy read.
LEMMA RefreshBegins ==
  ASSUME AccessInv, NEW c \in Callers, NEW op, NEW id, NEW row, NEW new, NEW i,
         refreshWith(c, op, id, row, new, i), UNCHANGED <<members, tokens>>
  PROVE  AccessInv'
<1> DEFINE k == [pc |-> "refresh", op |-> op, who |-> call[c].who,
                 id |-> id, row |-> row, new |-> new, i |-> i]
<1>1. shaped(k) /\ k.pc = "refresh"
  BY DEF shaped
<1>2. call' = [call EXCEPT ![c] = k]
  BY DEF refreshWith
<1> HIDE DEF k
<1> QED BY <1>1, <1>2, Moved

\* The runtime handlers.
LEMMA RuntimesKnow ==
  ASSUME AccessInv, NEW c \in Callers, runtimeStep(c)
  PROVE  AccessInv'
<1>0. UNCHANGED <<members, tokens>>
  BY DEF runtimeStep, refreshStep, handleRuntimeConnectors, handleRuntimeConnectorByID,
       loadAuthorizedRuntimeInstance, persistRuntimeConnectorInstallation,
       ListInstancesByConnector, persistRuntimeInstance, answerRefresh, serveRelayProxy,
       returnAnswer, rest
<1>1. CASE \/ handleRuntimeConnectors(c) \/ handleRuntimeConnectorByID(c)
           \/ loadAuthorizedRuntimeInstance(c)
  <2>1. \/ answer(c)
        \/ \E op, id, row, new, i : refreshWith(c, op, id, row, new, i)
    <3>1. CASE handleRuntimeConnectors(c)
      BY <3>1 DEF handleRuntimeConnectors
    <3>2. CASE handleRuntimeConnectorByID(c)
      BY <3>2 DEF handleRuntimeConnectorByID
    <3>3. CASE loadAuthorizedRuntimeInstance(c)
      BY <3>3 DEF loadAuthorizedRuntimeInstance
    <3> QED BY <1>1, <3>1, <3>2, <3>3
  <2> QED BY <1>0, <2>1, Answered, RefreshBegins
<1>2. CASE persistRuntimeConnectorInstallation(c)
  <2> DEFINE r == call[c]
             k == [r EXCEPT !.pc = "list"]
  <2>1. "pc" \in DOMAIN r
    BY DEF AccessInv, CallsKnow, shaped
  <2>2. k.pc = "list" /\ shaped(k)
    BY <2>1 DEF shaped
  <2>3. answer(c) \/ call' = [call EXCEPT ![c] = k]
    BY <1>2 DEF persistRuntimeConnectorInstallation
  <2> HIDE DEF k
  <2> QED BY <1>0, <2>2, <2>3, Answered, Moved
<1>3. CASE ListInstancesByConnector(c)
  <2>1. PICK op, who, id, i, listed, orphans :
          call' = [call EXCEPT ![c] = [pc |-> "write", op |-> op, who |-> who, id |-> id, i |-> i,
                                       listed |-> listed, orphans |-> orphans]]
    BY <1>3 DEF ListInstancesByConnector
  <2> DEFINE k == [pc |-> "write", op |-> op, who |-> who, id |-> id, i |-> i,
                   listed |-> listed, orphans |-> orphans]
  <2>2. shaped(k) /\ k.pc = "write"
    BY DEF shaped
  <2>3. call' = [call EXCEPT ![c] = k]
    BY <2>1
  <2> HIDE DEF k
  <2> QED BY <1>0, <2>2, <2>3, Moved
<1>4. CASE persistRuntimeInstance(c)
  <2> DEFINE r == call[c]
  <2>1. PICK j : call' = [call EXCEPT ![c] = [r EXCEPT !.orphans = r.orphans \ {j},
                                                       !.listed = r.listed \ {j}]]
    BY <1>4 DEF persistRuntimeInstance
  <2> DEFINE k == [r EXCEPT !.orphans = r.orphans \ {j}, !.listed = r.listed \ {j}]
  <2>2. "pc" \in DOMAIN r /\ r.pc = "write"
    BY <1>4 DEF persistRuntimeInstance, AccessInv, CallsKnow, shaped
  <2>3. k.pc = "write" /\ shaped(k)
    BY <2>2 DEF shaped
  <2>4. call' = [call EXCEPT ![c] = k]
    BY <2>1
  <2> HIDE DEF k
  <2> QED BY <1>0, <2>3, <2>4, Moved
<1>5. CASE answerRefresh(c) \/ returnAnswer(c)
  BY <1>0, <1>5, Answered DEF answerRefresh, returnAnswer
<1>6. CASE serveRelayProxy(c)
  <2> DEFINE k == [pc |-> "served", i |-> call[c].i]
  <2>1. shaped(k) /\ k.pc = "served"
    BY DEF shaped
  <2>2. answer(c) \/ call' = [call EXCEPT ![c] = k]
    BY <1>6 DEF serveRelayProxy
  <2> HIDE DEF k
  <2> QED BY <1>0, <2>1, <2>2, Answered, Moved
<1> QED BY <1>1, <1>2, <1>3, <1>4, <1>5, <1>6 DEF runtimeStep, refreshStep

\* Every step keeps what tokens, memberships and requests in flight agree on.
LEMMA AccessStep ==
  ASSUME AccessInv, [Next]_vars
  PROVE  AccessInv'
<1>1. ASSUME NEW c \in Callers, accessStep(c)
      PROVE  AccessInv'
  BY <1>1, HandleTokens, HandleTokenByID, HandleMemberships, LoadMembership,
     HandleMembershipByID DEF accessStep
<1>2. ASSUME NEW c \in Callers, authStep(c)
      PROVE  AccessInv'
  BY <1>2, LookUpToken, LookUpMembership DEF authStep
<1>3. CASE UNCHANGED accessVars
  BY <1>3 DEF accessVars, AccessInv, AccessTypes, TokensAreTied, CallsKnow
<1>4. CASE workerStep
  BY <1>3, <1>4 DEF workerStep, RunOnce, syncInstallation, syncFails, PollIssueSnapshots,
     syncJiraInstallation, workerRestarts, tick, updateIssue
<1>5. ASSUME NEW i \in Instances, advertise(i)
      PROVE  AccessInv'
  BY <1>3, <1>5 DEF advertise
<1>6. CASE UNCHANGED vars
  BY <1>3, <1>6 DEF vars
<1> QED
  BY <1>1, <1>2, <1>4, <1>5, <1>6, HandlersKnow, RuntimesKnow DEF Next

\* What cloudctl bootstrap leaves.
LEMMA AccessBegins ==
  ASSUME accessInit
  PROVE  AccessInv
<1>1. "org_owner" \in Roles /\ roleScopeAllowlist["org_owner"] = {"*"}
  BY DEF Roles, roleScopeAllowlist
<1>2. ASSUME NEW m \in MemberIds
      PROVE  /\ members[m] \in MemberRows \cup {None}
             /\ (\E t \in DOMAIN Bootstrap : Bootstrap[t].member = m) => members[m] # None
  <2>1. CASE \E t \in DOMAIN Bootstrap : Bootstrap[t].member = m
    <3> DEFINE u == CHOOSE t \in DOMAIN Bootstrap : Bootstrap[t].member = m
    <3>1. u \in DOMAIN Bootstrap
      BY <2>1
    <3>2. members[m] = [at |-> Bootstrap[u].at, role |-> "org_owner", active |-> TRUE]
      BY <2>1 DEF accessInit, runBootstrap
    <3> HIDE DEF u
    <3>3. Bootstrap[u].at \in Targets
      BY <3>1, BootstrapIsKnown
    <3>4. members[m] \in MemberRows
      BY <1>1, <3>2, <3>3 DEF MemberRows
    <3> QED BY <3>4, NoneIsNoRow
  <2>2. CASE ~ \E t \in DOMAIN Bootstrap : Bootstrap[t].member = m
    BY <2>2 DEF accessInit, runBootstrap
  <2> QED BY <2>1, <2>2
<1>3. ASSUME NEW t \in TokenIds
      PROVE  /\ tokens[t] \in TokenRows \cup {None}
             /\ tokens[t] # None => tokens[t].by = None /\ homed(tokens[t], members)
  <2>1. CASE t \in DOMAIN Bootstrap
    <3>1. tokens[t] = [at |-> Bootstrap[t].at, member |-> Bootstrap[t].member, scopes |-> {"*"},
                       revoked |-> FALSE, by |-> None]
      BY <2>1 DEF accessInit, runBootstrap
    <3>2. Bootstrap[t].at \in Targets /\ Bootstrap[t].member \in MemberIds \cup {None}
      BY <2>1, BootstrapIsKnown
    <3>3. {"*"} \in Requested \cup {roleScopeAllowlist[r] : r \in Roles}
      BY <1>1
    <3>4. tokens[t] \in TokenRows
      BY <3>1, <3>2, <3>3 DEF TokenRows
    <3>5. homed(tokens[t], members)
      BY <1>2, <2>1, <3>1, <3>2 DEF homed
    <3> QED BY <3>1, <3>4, <3>5
  <2>2. CASE t \notin DOMAIN Bootstrap
    BY <2>2 DEF accessInit, runBootstrap
  <2> QED BY <2>1, <2>2
<1>4. AccessTypes
  <2>1. /\ members = [m \in MemberIds |-> members[m]]
        /\ tokens = [t \in TokenIds |-> tokens[t]]
    BY DEF accessInit, runBootstrap
  <2>2. members \in [MemberIds -> MemberRows \cup {None}]
    BY <1>2, <2>1
  <2>3. tokens \in [TokenIds -> TokenRows \cup {None}]
    BY <1>3, <2>1
  <2> QED BY <2>2, <2>3 DEF AccessTypes
<1>5. TokensAreTied
  BY <1>3 DEF TokensAreTied, tied
<1>6. CallsKnow
  <2>1. Idle.pc = "idle" /\ shaped(Idle)
    BY DEF Idle, shaped
  <2>2. known(Idle, tokens, members)
    BY <2>1 DEF known
  <2> QED BY <2>1, <2>2 DEF accessInit, CallsKnow
<1> QED BY <1>4, <1>5, <1>6 DEF AccessInv

\* Whatever is made, over any number of requests that meet in any order with
\* revocations and with members being disabled and enabled, with a token bound
\* to a membership is bound to one and keeps to that membership's role.
THEOREM TokensStayBound == Spec => []MemberTokensStayBound
<1>1. Init => AccessInv
  BY AccessBegins DEF Init
<1>2. AccessInv /\ [Next]_vars => AccessInv'
  BY AccessStep
<1>3. AccessInv => MemberTokensStayBound
  BY DEF AccessInv, TokensAreTied, tied, MemberTokensStayBound
<1> QED BY <1>1, <1>2, <1>3, PTL DEF Spec

-----------------------------------------------------------------------------
(* Disabling a connector *)

\* A step that leaves the relay's flags alone.
LEMMA FlagsStay ==
  ASSUME RuntimeInv, UNCHANGED <<off, toggle>>, shared' \subseteq Instances
  PROVE  RuntimeInv'
BY DEF RuntimeInv

\* Every step keeps the relay's flag behind the last answered disable.
LEMMA RuntimeStep ==
  ASSUME RuntimeInv, [Next]_vars
  PROVE  RuntimeInv'
<1>0. shared \subseteq Instances
  BY DEF RuntimeInv
<1>1. CASE UNCHANGED runtimeVars
  BY <1>0, <1>1, FlagsStay DEF runtimeVars
<1>2. ASSUME NEW c \in Callers, handleRuntimeConnectorByID(c)
      PROVE  RuntimeInv'
  <2>1. shared' = shared
    BY <1>2 DEF handleRuntimeConnectorByID
  <2>2. CASE UNCHANGED <<off, toggle>>
    BY <1>0, <2>1, <2>2, FlagsStay
  <2>3. CASE ~ UNCHANGED <<off, toggle>>
    <3>1. PICK k : /\ \/ call[c].op = "disable" /\ off' = off \cup {k}
                      \/ call[c].op # "disable" /\ off' = off \ {k}
                   /\ toggle' = [toggle EXCEPT ![k] =
                         IF call[c].op = "enable" THEN "enable"
                         ELSE IF @ = "disabled" THEN @ ELSE "disable"]
                   /\ call[c].op \in {"enable", "disable"}
      BY <1>2, <2>3 DEF handleRuntimeConnectorByID, SetConnectorDisabled
    <3>2. DOMAIN toggle' = Connectors
      BY <3>1 DEF RuntimeInv
    <3>3. ASSUME NEW j \in Connectors, toggle'[j] \in {"disable", "disabled"}
          PROVE  j \in off'
      <4>1. CASE j # k
        BY <3>1, <3>3, <4>1 DEF RuntimeInv
      <4>2. CASE j = k
        BY <3>1, <3>3, <4>2 DEF RuntimeInv
      <4> QED BY <4>1, <4>2
    <3> QED BY <1>0, <2>1, <3>2, <3>3 DEF RuntimeInv
  <2> QED BY <2>2, <2>3
<1>3. ASSUME NEW c \in Callers, answerRefresh(c)
      PROVE  RuntimeInv'
  <2>1. PICK k : toggle' = [toggle EXCEPT ![k] =
                    IF call[c].op = "disable" /\ @ = "disable" THEN "disabled" ELSE @]
    BY <1>3 DEF answerRefresh
  <2>2. off' = off /\ shared' = shared
    BY <1>3 DEF answerRefresh
  <2>3. DOMAIN toggle' = Connectors
    BY <2>1 DEF RuntimeInv
  <2>4. ASSUME NEW j \in Connectors, toggle'[j] \in {"disable", "disabled"}
        PROVE  j \in off'
    BY <2>1, <2>2, <2>4 DEF RuntimeInv
  <2> QED BY <1>0, <2>2, <2>3, <2>4 DEF RuntimeInv
<1>4. ASSUME NEW c \in Callers, runtimeStep(c)
      PROVE  RuntimeInv'
  <2>1. CASE \/ persistRuntimeConnectorInstallation(c) \/ persistRuntimeInstance(c)
    BY <1>0, <2>1, FlagsStay DEF persistRuntimeConnectorInstallation, persistRuntimeInstance
  <2>2. CASE \/ handleRuntimeConnectors(c) \/ loadAuthorizedRuntimeInstance(c)
             \/ ListInstancesByConnector(c) \/ serveRelayProxy(c) \/ returnAnswer(c)
    BY <1>1, <2>2 DEF handleRuntimeConnectors, loadAuthorizedRuntimeInstance,
       ListInstancesByConnector, serveRelayProxy, returnAnswer
  <2> QED BY <1>2, <1>3, <1>4, <2>1, <2>2 DEF runtimeStep, refreshStep
<1>5. ASSUME NEW i \in Instances, advertise(i)
      PROVE  RuntimeInv'
  BY <1>0, <1>5, FlagsStay DEF advertise
<1>6. CASE UNCHANGED vars
  BY <1>1, <1>6 DEF vars
<1> QED BY <1>1, <1>4, <1>5, <1>6 DEF Next

-----------------------------------------------------------------------------
(* Where the requests go *)

\* Request c moves to one of the points in pcs, the others stay.
goes(c, pcs) == call'[c].pc \in pcs /\ \A d \in Callers \ {c} : call'[d] = call[d]

\* An answered request is idle.
LEMMA AnswerGoes ==
  ASSUME AccessInv, NEW c \in Callers, NEW pcs, "idle" \in pcs, answer(c)
  PROVE  goes(c, pcs)
BY DEF answer, goes, Idle, AccessInv, CallsKnow

\* The points of authentication and of the account handlers.
LEMMA AccessGoes ==
  ASSUME AccessInv, NEW c \in Callers, authStep(c) \/ accessStep(c)
  PROVE  goes(c, {"idle", "member", "authed", "rewrite"})
<1>0. DOMAIN call = Callers
  BY DEF AccessInv, CallsKnow
<1>1. ASSUME NEW op, NEW p, admitted(c, op, p)
      PROVE  goes(c, {"idle", "member", "authed", "rewrite"})
  BY <1>0, <1>1 DEF admitted, goes, Idle
<1>2. CASE authStep(c)
  <2>1. ASSUME NEW t, NEW op, LookupAPIToken(c, t, op)
        PROVE  goes(c, {"idle", "member", "authed", "rewrite"})
    <3>1. CASE call' = [call EXCEPT ![c] = [pc |-> "member", op |-> op, t |-> t, row |-> tokens[t]]]
      BY <1>0, <3>1 DEF goes
    <3> QED BY <1>1, <2>1, <3>1 DEF LookupAPIToken
  <2>2. CASE GetMembership(c)
    <3>1. CASE call' = [call EXCEPT ![c] = Idle]
      BY <3>1, AnswerGoes DEF answer
    <3> QED BY <1>1, <2>2, <3>1 DEF GetMembership
  <2> QED BY <1>2, <2>1, <2>2 DEF authStep
<1>3. CASE loadMembership(c)
  <2>1. PICK id \in MemberIds :
          \/ call' = [call EXCEPT ![c] = Idle]
          \/ call' = [call EXCEPT ![c] = [pc |-> "rewrite", op |-> call[c].op, id |-> id, row |-> members[id]]]
    BY <1>3 DEF loadMembership
  <2> QED BY <1>0, <2>1 DEF goes, Idle
<1>4. CASE handleTokens(c) \/ handleTokenByID(c) \/ handleMemberships(c) \/ handleMembershipByID(c)
  BY <1>4, AnswerGoes DEF handleTokens, handleTokenByID, handleMemberships, handleMembershipByID
<1> QED BY <1>2, <1>3, <1>4 DEF accessStep

\* The points of the installation handlers.
LEMMA HandlerGoes ==
  ASSUME AccessInv, NEW c \in Callers, handlerStep(c)
  PROVE  goes(c, {"idle", "secrets", "provider"})
<1>0. DOMAIN call = Callers
  BY DEF AccessInv, CallsKnow
<1>1. CASE handleInstallations(c)
  <2>1. PICK id, given :
          \/ answer(c)
          \/ call' = [call EXCEPT ![c] = [pc |-> "secrets", id |-> id, given |-> given]]
    BY <1>1 DEF handleInstallations
  <2>2. CASE call' = [call EXCEPT ![c] = [pc |-> "secrets", id |-> id, given |-> given]]
    BY <1>0, <2>2 DEF goes
  <2> QED BY <2>1, <2>2, AnswerGoes
<1>2. CASE loadInstallation(c) \/ receiveWebhook(c)
  <2>1. PICK op, id : answer(c) \/ resolveInstallationConnector(c, op, id)
    BY <1>2 DEF loadInstallation, receiveWebhook
  <2>2. CASE resolveInstallationConnector(c, op, id)
    BY <1>0, <2>2 DEF goes, resolveInstallationConnector
  <2> QED BY <2>1, <2>2, AnswerGoes
<1>3. CASE \/ PutInstallationSecrets(c) \/ handleInstallationValidate(c)
           \/ handleInstallationAction(c) \/ handleInstallationEnableDisable(c)
           \/ handleInstallationWebhook(c)
  <2>1. answer(c)
    BY <1>3 DEF PutInstallationSecrets, handleInstallationValidate, handleInstallationAction,
         handleInstallationEnableDisable, handleInstallationWebhook, reply
  <2> QED BY <2>1, AnswerGoes
<1> QED BY <1>1, <1>2, <1>3 DEF handlerStep

\* The points of the runtime handlers, except the proxied request.
LEMMA RuntimeGoes ==
  ASSUME AccessInv, NEW c \in Callers, runtimeStep(c), ~ serveRelayProxy(c)
  PROVE  goes(c, {"idle", "refresh", "list", "write"})
<1>0. ASSUME NEW op, NEW id, NEW row, NEW new, NEW i, refreshWith(c, op, id, row, new, i)
      PROVE  goes(c, {"idle", "refresh", "list", "write"})
  BY <1>0 DEF refreshWith, goes, AccessInv, CallsKnow
<1>1. CASE handleRuntimeConnectors(c)
  BY <1>0, <1>1, AnswerGoes DEF handleRuntimeConnectors
<1>2. CASE handleRuntimeConnectorByID(c)
  BY <1>0, <1>2, AnswerGoes DEF handleRuntimeConnectorByID
<1>3. CASE loadAuthorizedRuntimeInstance(c)
  BY <1>0, <1>3, AnswerGoes DEF loadAuthorizedRuntimeInstance
<1>4. CASE persistRuntimeConnectorInstallation(c)
  <2>1. [call[c] EXCEPT !.pc = "list"].pc = "list"
    BY DEF AccessInv, CallsKnow, shaped
  <2>2. answer(c) \/ call' = [call EXCEPT ![c] = [call[c] EXCEPT !.pc = "list"]]
    BY <1>4 DEF persistRuntimeConnectorInstallation
  <2> QED BY <2>1, <2>2, AnswerGoes DEF goes, AccessInv, CallsKnow
<1>5. CASE ListInstancesByConnector(c)
  BY <1>5 DEF ListInstancesByConnector, goes, AccessInv, CallsKnow
<1>6. CASE persistRuntimeInstance(c)
  <2> DEFINE r == call[c]
  <2>1. PICK j : call' = [call EXCEPT ![c] = [r EXCEPT !.orphans = r.orphans \ {j},
                                                       !.listed = r.listed \ {j}]]
    BY <1>6 DEF persistRuntimeInstance
  <2> DEFINE k == [r EXCEPT !.orphans = r.orphans \ {j}, !.listed = r.listed \ {j}]
  <2>2. "pc" \in DOMAIN r /\ r.pc = "write"
    BY <1>6 DEF persistRuntimeInstance, AccessInv, CallsKnow, shaped
  <2>3. k.pc = "write" /\ call' = [call EXCEPT ![c] = k]
    BY <2>1, <2>2
  <2> HIDE DEF k
  <2> QED BY <2>3 DEF goes, AccessInv, CallsKnow
<1>7. CASE answerRefresh(c) \/ returnAnswer(c)
  BY <1>7, AnswerGoes DEF answerRefresh, returnAnswer
<1> QED BY <1>1, <1>2, <1>3, <1>4, <1>5, <1>6, <1>7 DEF runtimeStep, refreshStep

\* A request that goes elsewhere has not been served, and the others stay.
LEMMA NotServed ==
  ASSUME AccessInv, NEW c \in Callers, NEW pcs, goes(c, pcs), "served" \notin pcs,
         NEW d \in Callers, call[d].pc # "served"
  PROVE  call'[d].pc # "served"
BY DEF goes

\* A step that serves a request serves it from a connector whose disabling has
\* not been answered.
LEMMA ServedIsOn ==
  ASSUME AccessInv, RuntimeInv, [Next]_vars, NEW d \in Callers,
         call[d].pc # "served", call'[d].pc = "served"
  PROVE  toggle[HomeOf[call'[d].i]] # "disabled"
<1>0. DOMAIN call = Callers
  BY DEF AccessInv, CallsKnow
<1>1. ASSUME NEW c \in Callers, serveRelayProxy(c)
      PROVE  toggle[HomeOf[call'[d].i]] # "disabled"
  <2>1. CASE answer(c)
    <3>1. goes(c, {"idle"})
      BY <2>1, AnswerGoes
    <3> QED BY <3>1, NotServed
  <2>2. CASE relayServes(call[c].i) /\ call' = [call EXCEPT ![c] = [pc |-> "served", i |-> call[c].i]]
    <3>1. d = c /\ call'[d].i = call[c].i
      BY <1>0, <2>2
    <3>2. call[c].i \in Instances /\ HomeOf[call[c].i] \notin off
      BY <2>2 DEF relayServes, RuntimeInv
    <3>3. HomeOf[call[c].i] \in Connectors
      BY <3>2, HomesAreConnectors
    <3> QED BY <3>1, <3>2, <3>3 DEF RuntimeInv
  <2> QED BY <1>1, <2>1, <2>2 DEF serveRelayProxy
<1>2. ASSUME NEW c \in Callers, runtimeStep(c)
      PROVE  toggle[HomeOf[call'[d].i]] # "disabled"
  <2>1. CASE ~ serveRelayProxy(c)
    BY <1>2, <2>1, RuntimeGoes, NotServed
  <2> QED BY <1>1, <2>1
<1>3. ASSUME NEW c \in Callers, authStep(c) \/ accessStep(c)
      PROVE  FALSE
  BY <1>3, AccessGoes, NotServed
<1>4. ASSUME NEW c \in Callers, handlerStep(c)
      PROVE  FALSE
  BY <1>4, HandlerGoes, NotServed
<1>5. CASE UNCHANGED accessVars
  BY <1>5 DEF accessVars
<1>6. CASE workerStep
  BY <1>5, <1>6 DEF workerStep, RunOnce, syncInstallation, syncFails, PollIssueSnapshots,
     syncJiraInstallation, workerRestarts, tick, updateIssue
<1>7. ASSUME NEW i \in Instances, advertise(i)
      PROVE  FALSE
  BY <1>5, <1>7 DEF advertise, accessVars
<1>8. CASE UNCHANGED vars
  BY <1>5, <1>8 DEF vars
<1> QED BY <1>2, <1>3, <1>4, <1>6, <1>7, <1>8 DEF Next

\* Once the disabling of a connector has been answered no request reaches the
\* machine behind it before an enable begins, whatever refreshes with older
\* copies write to the cloud's row.
THEOREM DisabledStaysOff == Spec => DisableHolds
<1>1. Init => AccessInv /\ RuntimeInv
  <2>1. ASSUME runtimeInit PROVE RuntimeInv
    BY <2>1 DEF runtimeInit, RuntimeInv
  <2> QED BY <2>1, AccessBegins DEF Init
<1>2. AccessInv /\ RuntimeInv /\ [Next]_vars => (AccessInv /\ RuntimeInv)'
  BY AccessStep, RuntimeStep
<1>3. AccessInv /\ RuntimeInv /\ [Next]_vars
        => [\A c \in Callers :
              (call[c].pc # "served" /\ call'[c].pc = "served")
                => toggle[HomeOf[call'[c].i]] # "disabled"]_call
  BY ServedIsOn
<1> QED BY <1>1, <1>2, <1>3, PTL DEF Spec, DisableHolds

-----------------------------------------------------------------------------
(* Copies of installation rows *)

\* A poll's query starts no later than the time of the last one.
LEMMA FloorBelow ==
  ASSUME NEW t \in Nat
  PROVE  floorToMinute(t) \in Int /\ floorToMinute(t) <= t
<1>1. t % TicksPerMinute \in 0 .. (TicksPerMinute - 1)
  BY ClockAssumption
<1>2. t % TicksPerMinute \in Nat
  BY <1>1, ClockAssumption
<1> QED BY <1>2 DEF floorToMinute

\* What a step must not do to the sound copies that others hold.
Carried ==
  /\ clock <= clock'
  /\ \A k \in Issues : issue'[k] >= issue[k] /\ (issue'[k] = issue[k] \/ issue'[k] >= clock)
  /\ \A id \in Installations : secrets[id] # {} => secrets'[id] # {}
  /\ \A id \in Installations, k \in Issues :
       (ProviderOf[id] = "jira" /\ secrets[id] # {} /\ covered(id, k, issue[k], events, excused)
          /\ issue'[k] = issue[k])
         => covered(id, k, issue[k], events', excused')

\* A sound copy stays sound.
LEMMA SoundCarried ==
  ASSUME InstTypes, InstTypes', Carried, NEW id \in Installations, NEW row \in InstRows,
         sound(id, row, clock, issue, secrets, events, excused)
  PROVE  sound(id, row, clock', issue', secrets', events', excused')
<1> SUFFICES ASSUME row.sync # None
             PROVE  /\ row.sync <= clock' /\ ProviderOf[id] = "jira" /\ secrets'[id] # {}
                    /\ \A k \in Issues : issue'[k] < floorToMinute(row.sync)
                         => covered(id, k, issue'[k], events', excused')
  BY DEF sound
<1>1. row.sync \in Nat /\ clock \in Nat /\ clock' \in Nat
  BY DEF InstRows, InstTypes
<1>2. floorToMinute(row.sync) \in Int /\ floorToMinute(row.sync) <= row.sync
  BY <1>1, FloorBelow
<1>3. row.sync <= clock /\ ProviderOf[id] = "jira" /\ secrets[id] # {}
  BY DEF sound
<1>4. row.sync <= clock' /\ secrets'[id] # {}
  BY <1>1, <1>3 DEF Carried
<1>5. ASSUME NEW k \in Issues, issue'[k] < floorToMinute(row.sync)
      PROVE  covered(id, k, issue'[k], events', excused')
  <2>1. issue[k] \in Int /\ issue'[k] \in Int
    BY DEF InstTypes
  <2>2. ~ (issue'[k] >= clock)
    BY <1>1, <1>2, <1>3, <1>5, <2>1
  <2>3. issue'[k] = issue[k]
    BY <2>2 DEF Carried
  <2>4. covered(id, k, issue[k], events, excused)
    BY <1>5, <2>3 DEF sound
  <2>5. covered(id, k, issue[k], events', excused')
    BY <1>3, <2>3, <2>4 DEF Carried
  <2> QED BY <2>3, <2>5
<1> QED BY <1>3, <1>4, <1>5

\* The rows in the table, where the table stays.
LEMMA RowsCarried ==
  ASSUME InstTypes, InstTypes', Carried, RowsAreSound, inst' = inst
  PROVE  RowsAreSound'
<1> SUFFICES ASSUME NEW id \in Installations, inst[id] # None
             PROVE  sound(id, inst[id], clock', issue', secrets', events', excused')
  BY DEF RowsAreSound
<1>1. inst[id] \in InstRows
  BY DEF InstTypes
<1>2. sound(id, inst[id], clock, issue, secrets, events, excused)
  BY DEF RowsAreSound
<1> QED BY <1>1, <1>2, SoundCarried

\* A row written back by a request or the worker.
LEMMA RowWritten ==
  ASSUME InstTypes, NEW id \in Installations, NEW row \in InstRows,
         CreateConnectorInstallation(id, row)
  PROVE  /\ inst' \in [Installations -> InstRows \cup {None}]
         /\ inst'[id].sync = row.sync
         /\ \A j \in Installations \ {id} : inst'[j] = inst[j]
<1> DEFINE new == [row EXCEPT !.enabled = row.enabled \/ row.status = "active"]
<1>1. new \in InstRows /\ new.sync = row.sync
  <2>1. (row.enabled \/ row.status = "active") \in BOOLEAN
    OBVIOUS
  <2> QED BY <2>1 DEF InstRows
<1>2. inst' = [inst EXCEPT ![id] = new]
  BY DEF CreateConnectorInstallation
<1> HIDE DEF new
<1>3. inst \in [Installations -> InstRows \cup {None}]
  BY DEF InstTypes
<1> QED BY <1>1, <1>2, <1>3

\* The rows in the table after that.
LEMMA RowsWritten ==
  ASSUME InstTypes, InstTypes', Carried, RowsAreSound, NEW id \in Installations,
         NEW row \in InstRows, CreateConnectorInstallation(id, row),
         sound(id, row, clock', issue', secrets', events', excused')
  PROVE  RowsAreSound'
<1>1. inst'[id].sync = row.sync /\ \A j \in Installations \ {id} : inst'[j] = inst[j]
  BY RowWritten
<1> SUFFICES ASSUME NEW j \in Installations, inst'[j] # None
             PROVE  sound(j, inst'[j], clock', issue', secrets', events', excused')
  BY DEF RowsAreSound
<1>2. CASE j = id
  BY <1>1, <1>2 DEF sound
<1>3. CASE j # id
  <2>1. inst'[j] = inst[j] /\ inst[j] \in InstRows
    BY <1>1, <1>3 DEF InstTypes
  <2>2. sound(j, inst[j], clock, issue, secrets, events, excused)
    BY <2>1 DEF RowsAreSound
  <2> QED BY <2>1, <2>2, SoundCarried
<1> QED BY <1>2, <1>3

\* The copy one request holds.
LEMMA HeldCarried ==
  ASSUME InstTypes, InstTypes', Carried, NEW k,
         heldBy(k, clock, issue, secrets, events, excused)
  PROVE  heldBy(k, clock', issue', secrets', events', excused')
BY SoundCarried DEF heldBy

\* The copies of all, where one request moves.
LEMMA CopiesCarried ==
  ASSUME InstTypes, InstTypes', Carried, CopiesAreSound, NEW c \in Callers,
         \A d \in Callers \ {c} : call'[d] = call[d],
         heldBy(call'[c], clock', issue', secrets', events', excused')
  PROVE  CopiesAreSound'
<1> SUFFICES ASSUME NEW d \in Callers, d # c
             PROVE  heldBy(call'[d], clock', issue', secrets', events', excused')
  BY DEF CopiesAreSound
<1>1. heldBy(call[d], clock, issue, secrets, events, excused)
  BY DEF CopiesAreSound
<1> QED BY <1>1, HeldCarried

\* The copies of all, where none moves.
LEMMA CopiesStay ==
  ASSUME InstTypes, InstTypes', Carried, CopiesAreSound, call' = call
  PROVE  CopiesAreSound'
<1> SUFFICES ASSUME NEW d \in Callers
             PROVE  heldBy(call[d], clock', issue', secrets', events', excused')
  BY DEF CopiesAreSound
<1>1. heldBy(call[d], clock, issue, secrets, events, excused)
  BY DEF CopiesAreSound
<1> QED BY <1>1, HeldCarried

\* The worker's list.
LEMMA ListCarried ==
  ASSUME InstTypes, InstTypes', Carried, NEW todo,
         listOK(todo, clock, issue, secrets, events, excused)
  PROVE  listOK(todo, clock', issue', secrets', events', excused')
<1> SUFFICES ASSUME NEW e \in todo
             PROVE  /\ e \in Installations \X InstRows
                    /\ sound(e[1], e[2], clock', issue', secrets', events', excused')
  BY DEF listOK
<1>1. e \in Installations \X InstRows /\ sound(e[1], e[2], clock, issue, secrets, events, excused)
  BY DEF listOK
<1>2. e[1] \in Installations /\ e[2] \in InstRows
  BY <1>1
<1> QED BY <1>1, <1>2, SoundCarried

\* A shorter list.
LEMMA ListShrinks ==
  ASSUME NEW todo, NEW less, less \subseteq todo, NEW now, NEW iss, NEW sec, NEW evs, NEW exc,
         listOK(todo, now, iss, sec, evs, exc)
  PROVE  listOK(less, now, iss, sec, evs, exc)
BY DEF listOK

\* A poll whose answer is in.
LEMMA AnswerCarried ==
  ASSUME InstTypes, InstTypes', Carried, NEW p, answerOK(p, clock, issue, secrets),
         listOK(p.todo, clock, issue, secrets, events, excused)
  PROVE  answerOK(p, clock', issue', secrets')
<1>1. /\ p.e \in p.todo /\ ProviderOf[p.e[1]] = "jira" /\ secrets[p.e[1]] # {}
      /\ p.asked \in Nat /\ p.asked <= clock
  BY DEF answerOK
<1>2. p.e[1] \in Installations
  BY <1>1 DEF listOK
<1>3. secrets'[p.e[1]] # {}
  BY <1>1, <1>2 DEF Carried
<1>4. p.asked <= clock'
  BY <1>1 DEF Carried, InstTypes
<1>5. ASSUME NEW g \in p.got
      PROVE  g \in {p.e[1]} \X Issues \X Int /\ g[3] <= issue'[g[2]]
  <2>1. g \in {p.e[1]} \X Issues \X Int /\ g[3] <= issue[g[2]]
    BY DEF answerOK
  <2>2. g[2] \in Issues /\ g[3] \in Int
    BY <2>1
  <2>3. issue[g[2]] \in Int /\ issue'[g[2]] \in Int /\ issue'[g[2]] >= issue[g[2]]
    BY <2>2 DEF InstTypes, Carried
  <2> QED BY <2>1, <2>2, <2>3
<1>6. ASSUME NEW k \in Issues, issue'[k] < p.asked
      PROVE  \/ <<p.e[1], k, issue'[k]>> \in p.got
             \/ <<k, issue'[k]>> \in p.cut
             \/ issue'[k] < sinceOf(p.e[2])
  <2>1. issue'[k] \in Int /\ clock \in Nat
    BY DEF InstTypes
  <2>2. issue'[k] = issue[k]
    BY <1>1, <1>6, <2>1 DEF Carried
  <2> QED BY <1>6, <2>2 DEF answerOK
<1> QED BY <1>1, <1>3, <1>4, <1>5, <1>6 DEF answerOK

\* The worker, where it does not move.
LEMMA PollStays ==
  ASSUME InstTypes, InstTypes', Carried, PollIsSound, poll' = poll
  PROVE  PollIsSound'
<1>1. poll.pc # "asleep" => listOK(poll.todo, clock', issue', secrets', events', excused')
  BY ListCarried DEF PollIsSound
<1>2. poll.pc = "answered" => answerOK(poll, clock', issue', secrets')
  BY AnswerCarried DEF PollIsSound
<1> QED BY <1>1, <1>2 DEF PollIsSound

\* Events are added: no event of an issue becomes newer than the issue, and
\* none at the issue's own tick is displaced.
LEMMA EventsAdded ==
  ASSUME InstTypes, EventsAreOld, issue' = issue, NEW new, CreateConnectorEvents(new),
         \A e \in new : /\ e \in Installations \X (Issues \cup HookKinds) \X Int
                        /\ ProviderOf[e[1]] = "jira" => e[2] \in Issues /\ e[3] <= issue[e[2]]
  PROVE  /\ EventsAreOld'
         /\ \A id \in Installations, k \in Issues :
              (ProviderOf[id] = "jira" /\ <<id, k, issue[k]>> \in events \cup new)
                => <<id, k, issue[k]>> \in events'
<1> DEFINE all == events \cup new
<1>1. events' = {e \in all : ~ \E f \in all : f[1] = e[1] /\ f[2] = e[2] /\ f[3] > e[3]}
  BY DEF CreateConnectorEvents
<1>2. \A e \in all : /\ e \in Installations \X (Issues \cup HookKinds) \X Int
                     /\ ProviderOf[e[1]] = "jira" => e[2] \in Issues /\ e[3] <= issue[e[2]]
  BY DEF EventsAreOld
<1>3. EventsAreOld'
  BY <1>1, <1>2 DEF EventsAreOld
<1>4. ASSUME NEW id \in Installations, NEW k \in Issues, ProviderOf[id] = "jira",
             <<id, k, issue[k]>> \in all
      PROVE  <<id, k, issue[k]>> \in events'
  <2>1. ASSUME NEW f \in all, f[1] = id, f[2] = k, f[3] > issue[k]
        PROVE  FALSE
    <3>1. f[3] \in Int /\ f[3] <= issue[k]
      BY <1>2, <1>4, <2>1
    <3>2. issue[k] \in Int
      BY DEF InstTypes
    <3> QED BY <2>1, <3>1, <3>2
  <2> QED BY <1>1, <1>4, <2>1
<1> QED BY <1>3, <1>4

\* Nothing is lost where nothing changes.
LEMMA CarriedSame ==
  ASSUME InstTypes, UNCHANGED <<clock, issue, secrets, events, excused>>
  PROVE  Carried
BY DEF InstTypes, Carried

\* Nothing is lost where events are added.
LEMMA CarriedByEvents ==
  ASSUME InstTypes, EventsAreOld, UNCHANGED <<clock, issue, secrets>>,
         excused \subseteq excused', NEW new, CreateConnectorEvents(new),
         \A e \in new : /\ e \in Installations \X (Issues \cup HookKinds) \X Int
                        /\ ProviderOf[e[1]] = "jira" => e[2] \in Issues /\ e[3] <= issue[e[2]]
  PROVE  Carried /\ EventsAreOld'
<1>1. EventsAreOld' /\ \A id \in Installations, k \in Issues :
              (ProviderOf[id] = "jira" /\ <<id, k, issue[k]>> \in events)
                => <<id, k, issue[k]>> \in events'
  BY EventsAdded
<1>2. \A k \in Issues : issue'[k] \in Int /\ issue[k] \in Int
  BY DEF InstTypes
<1>3. \A id \in Installations, k \in Issues :
        (ProviderOf[id] = "jira" /\ covered(id, k, issue[k], events, excused))
          => covered(id, k, issue[k], events', excused')
  BY <1>1 DEF covered
<1>4. clock <= clock'
  BY DEF InstTypes
<1> QED BY <1>1, <1>2, <1>3, <1>4 DEF Carried

-----------------------------------------------------------------------------
(* The installation handlers *)

\* The secrets stay and the request goes to no point at which it stores some.
LEMMA SecretsStay ==
  ASSUME SecretsAreNew, UNCHANGED <<secrets, used>>, NEW c \in Callers,
         call'[c].pc # "secrets", \A d \in Callers \ {c} : call'[d] = call[d]
  PROVE  SecretsAreNew'
<1>1. storing(call'[c], secrets', used')
  BY DEF storing
<1>2. ASSUME NEW d \in Callers
      PROVE  storing(call'[d], secrets', used')
  BY <1>1 DEF SecretsAreNew
<1>3. \A d, e \in Callers :
        (call'[d].pc = "secrets" /\ call'[e].pc = "secrets" /\ call'[d].id = call'[e].id) => d = e
  BY DEF SecretsAreNew
<1>4. \A id \in Installations : secrets'[id] # {} => id \in used'
  BY DEF SecretsAreNew
<1> QED BY <1>2, <1>3, <1>4 DEF SecretsAreNew

\* Steps of the other components.
LEMMA OthersKeepInst ==
  ASSUME InstInv, UNCHANGED instVars, NEW c \in Callers, NEW pcs, goes(c, pcs),
         pcs \cap {"provider", "secrets"} = {}
  PROVE  InstInv'
<1>1. /\ UNCHANGED <<inst, secrets, used, events, issue, clock, poll, excused>>
      /\ call'[c].pc \notin {"provider", "secrets"}
      /\ \A d \in Callers \ {c} : call'[d] = call[d]
  BY DEF instVars, goes
<1>2. InstTypes /\ InstTypes' /\ Carried
  BY <1>1, CarriedSame DEF InstInv, InstTypes
<1>3. heldBy(call'[c], clock', issue', secrets', events', excused')
  BY <1>1 DEF heldBy
<1>4. CopiesAreSound'
  BY <1>1, <1>2, <1>3, CopiesCarried DEF InstInv
<1>5. SecretsAreNew'
  BY <1>1, SecretsStay DEF InstInv
<1>6. RowsAreSound' /\ PollIsSound'
  BY <1>1, <1>2, RowsCarried, PollStays DEF InstInv
<1>7. EventsAreOld'
  BY <1>1 DEF InstInv, EventsAreOld
<1> QED BY <1>2, <1>4, <1>5, <1>6, <1>7 DEF InstInv

\* POST /installations: the new row has not been synced and its id is new.
LEMMA InstallKeepsInst ==
  ASSUME scene \in Scenarios, AccessInv, InstInv, NEW c \in Callers, handleInstallations(c)
  PROVE  InstInv'
<1>0. DOMAIN call = Callers
  BY DEF AccessInv, CallsKnow
<1>1. UNCHANGED <<secrets, events, issue, clock, poll, excused>>
  BY DEF handleInstallations, unchangedPolling
<1> DEFINE row == [status |-> "created", enabled |-> TRUE, sync |-> None]
<1>a. PICK id \in scene.on \ used : \E given \in SUBSET Registry[ProviderOf[id]].secrets :
        \/ answer(c) /\ UNCHANGED <<inst, used>>
        \/ /\ CreateConnectorInstallation(id, row)
           /\ used' = used \cup {id}
           /\ call' = [call EXCEPT ![c] = [pc |-> "secrets", id |-> id, given |-> given]]
  BY DEF handleInstallations
<1>2. PICK given \in SUBSET Registry[ProviderOf[id]].secrets :
        \/ answer(c) /\ UNCHANGED <<inst, used>>
        \/ /\ CreateConnectorInstallation(id, row)
           /\ used' = used \cup {id}
           /\ call' = [call EXCEPT ![c] = [pc |-> "secrets", id |-> id, given |-> given]]
  BY <1>a
<1>3. CASE answer(c) /\ UNCHANGED <<inst, used>>
  <2>1. goes(c, {"idle"})
    BY <1>3, AnswerGoes
  <2> QED BY <1>1, <1>3, <2>1, OthersKeepInst DEF instVars
<1>4. CASE /\ CreateConnectorInstallation(id, row)
           /\ used' = used \cup {id}
           /\ call' = [call EXCEPT ![c] = [pc |-> "secrets", id |-> id, given |-> given]]
  <2>1. id \in Installations /\ id \notin used
    BY <1>a, InstallationsAreTyped
  <2>2. given \subseteq {"token", "webhook_secret"}
    BY <2>1, InstallationsAreTyped DEF Providers, Registry
  <2>3. row \in InstRows /\ row.sync = None
    BY DEF InstRows
  <2> HIDE DEF row
  <2>4. InstTypes
    BY DEF InstInv
  <2>5. Carried
    BY <1>1, <2>4, CarriedSame
  <2>6. inst' \in [Installations -> InstRows \cup {None}]
    BY <1>4, <2>1, <2>3, <2>4, RowWritten
  <2>7. InstTypes'
    BY <1>1, <2>4, <2>6 DEF InstTypes
  <2>8. sound(id, row, clock', issue', secrets', events', excused')
    BY <2>3 DEF sound
  <2>9. RowsAreSound'
    BY <1>4, <2>1, <2>3, <2>4, <2>5, <2>7, <2>8, RowsWritten DEF InstInv
  <2>10. /\ call'[c].pc = "secrets" /\ call'[c].id = id /\ call'[c].given = given
         /\ \A d \in Callers \ {c} : call'[d] = call[d]
    BY <1>0, <1>4
  <2>11. heldBy(call'[c], clock', issue', secrets', events', excused')
    BY <2>10 DEF heldBy
  <2>12. CopiesAreSound'
    BY <2>4, <2>5, <2>7, <2>10, <2>11, CopiesCarried DEF InstInv
  <2>13. PollIsSound' /\ EventsAreOld'
    BY <1>1, <2>4, <2>5, <2>7, PollStays DEF InstInv, EventsAreOld
  <2>14. SecretsAreNew'
    <3>1. secrets[id] = {}
      BY <2>1 DEF InstInv, SecretsAreNew
    <3>2. \A d \in Callers \ {c} : call[d].pc = "secrets" => call[d].id # id
      BY <2>1 DEF InstInv, SecretsAreNew, storing
    <3>3. storing(call'[c], secrets', used')
      BY <1>1, <1>4, <2>1, <2>2, <2>10, <3>1 DEF storing
    <3>4. \A d \in Callers \ {c} : storing(call'[d], secrets', used')
      BY <1>1, <1>4, <2>10 DEF InstInv, SecretsAreNew, storing
    <3>5. \A d, e \in Callers :
            (call'[d].pc = "secrets" /\ call'[e].pc = "secrets" /\ call'[d].id = call'[e].id) => d = e
      BY <2>10, <3>2 DEF InstInv, SecretsAreNew
    <3>6. \A j \in Installations : secrets'[j] # {} => j \in used'
      BY <1>1, <1>4 DEF InstInv, SecretsAreNew
    <3> QED BY <3>3, <3>4, <3>5, <3>6 DEF SecretsAreNew
  <2> QED BY <2>7, <2>9, <2>12, <2>13, <2>14 DEF InstInv
<1> QED BY <1>2, <1>3, <1>4

\* The secrets are stored, or the row is deleted: the installation had none
\* and so no synced copy of its row is anywhere.
LEMMA SecretsKeepInst ==
  ASSUME AccessInv, InstInv, NEW c \in Callers, PutInstallationSecrets(c)
  PROVE  InstInv'
<1> DEFINE id == call[c].id
<1>1. /\ UNCHANGED <<used, issue, clock, poll, excused>> /\ answer(c) /\ call[c].pc = "secrets"
  BY DEF PutInstallationSecrets, reply, unchangedPolling
<1>2. /\ id \in Installations /\ call[c].given \subseteq {"token", "webhook_secret"}
      /\ id \in used /\ secrets[id] = {}
  BY <1>1 DEF InstInv, SecretsAreNew, storing
<1>3. goes(c, {"idle"})
  BY <1>1, AnswerGoes
<1>4. call'[c].pc = "idle" /\ \A d \in Callers \ {c} : call'[d] = call[d]
  BY <1>3 DEF goes
<1>5. InstTypes
  BY DEF InstInv
<1>6. /\ \A j \in Installations \ {id} : secrets'[j] = secrets[j]
      /\ secrets' \in [Installations -> SUBSET {"token", "webhook_secret"}]
  BY <1>2, <1>5 DEF PutInstallationSecrets, DeleteConnectorInstallation, InstTypes
<1>7. /\ \/ inst' = inst
         \/ inst' = [inst EXCEPT ![id] = None]
      /\ events' \subseteq events /\ \A e \in events : e[1] # id => e \in events'
  BY DEF PutInstallationSecrets, DeleteConnectorInstallation
<1>8. inst' \in [Installations -> InstRows \cup {None}]
  BY <1>5, <1>7 DEF InstTypes
<1>9. InstTypes'
  BY <1>1, <1>5, <1>6, <1>8 DEF InstTypes
<1>10. Carried
  <2>1. \A j \in Installations : secrets[j] # {} => j # id /\ secrets'[j] # {}
    BY <1>2, <1>6
  <2>2. \A j \in Installations, k \in Issues : j # id /\ <<j, k, issue[k]>> \in events
          => <<j, k, issue[k]>> \in events'
    BY <1>7
  <2>3. /\ clock <= clock'
        /\ \A k \in Issues : issue'[k] >= issue[k] /\ issue'[k] = issue[k]
    BY <1>1, <1>5 DEF InstTypes
  <2>4. \A j \in Installations, k \in Issues :
          (secrets[j] # {} /\ covered(j, k, issue[k], events, excused))
            => covered(j, k, issue[k], events', excused')
    BY <1>1, <2>1, <2>2 DEF covered
  <2> QED BY <2>1, <2>3, <2>4 DEF Carried
<1>11. RowsAreSound'
  <2>1. CASE inst' = inst
    BY <1>5, <1>9, <1>10, <2>1, RowsCarried DEF InstInv
  <2>2. CASE inst' = [inst EXCEPT ![id] = None]
    <3> SUFFICES ASSUME NEW j \in Installations, inst'[j] # None
                 PROVE  sound(j, inst'[j], clock', issue', secrets', events', excused')
      BY DEF RowsAreSound
    <3>1. inst'[j] = inst[j] /\ inst[j] \in InstRows
      BY <1>5, <2>2 DEF InstTypes
    <3>2. sound(j, inst[j], clock, issue, secrets, events, excused)
      BY <3>1 DEF InstInv, RowsAreSound
    <3> QED BY <1>5, <1>9, <1>10, <3>1, <3>2, SoundCarried
  <2> QED BY <1>7, <2>1, <2>2
<1>12. CopiesAreSound'
  <2>1. heldBy(call'[c], clock', issue', secrets', events', excused')
    BY <1>4 DEF heldBy
  <2> QED BY <1>4, <1>5, <1>9, <1>10, <2>1, CopiesCarried DEF InstInv
<1>13. SecretsAreNew'
  <2>1. \A d \in Callers \ {c} : call[d].pc = "secrets" => call[d].id # id
    BY <1>1 DEF InstInv, SecretsAreNew
  <2>2. storing(call'[c], secrets', used')
    BY <1>4 DEF storing
  <2>3. \A d \in Callers \ {c} : storing(call'[d], secrets', used')
    BY <1>1, <1>4, <1>6, <2>1 DEF InstInv, SecretsAreNew, storing
  <2>4. \A d, e \in Callers :
          (call'[d].pc = "secrets" /\ call'[e].pc = "secrets" /\ call'[d].id = call'[e].id) => d = e
    BY <1>4 DEF InstInv, SecretsAreNew
  <2>5. \A j \in Installations : secrets'[j] # {} => j \in used'
    BY <1>1, <1>2, <1>6 DEF InstInv, SecretsAreNew
  <2> QED BY <2>2, <2>3, <2>4, <2>5 DEF SecretsAreNew
<1>14. PollIsSound'
  BY <1>1, <1>5, <1>9, <1>10, PollStays DEF InstInv
<1>15. EventsAreOld'
  BY <1>1, <1>7 DEF InstInv, EventsAreOld
<1> QED BY <1>9, <1>11, <1>12, <1>13, <1>14, <1>15 DEF InstInv

\* A handler reads the row it will write back.
LEMMA LoadKeepsInst ==
  ASSUME AccessInv, InstInv, NEW c \in Callers, loadInstallation(c) \/ receiveWebhook(c)
  PROVE  InstInv'
<1>0. DOMAIN call = Callers
  BY DEF AccessInv, CallsKnow
<1>1. UNCHANGED <<inst, secrets, used, events, issue, clock, poll, excused>>
  BY DEF loadInstallation, receiveWebhook, unchangedPolling
<1>2. PICK id \in Installations :
        \/ answer(c)
        \/ inst[id] # None /\ \E op : resolveInstallationConnector(c, op, id)
  <2>1. CASE loadInstallation(c)
    BY <2>1 DEF loadInstallation, GetConnectorInstallation
  <2>2. CASE receiveWebhook(c)
    BY <2>2 DEF receiveWebhook
  <2> QED BY <2>1, <2>2
<1>3. CASE answer(c)
  <2>1. goes(c, {"idle"})
    BY <1>3, AnswerGoes
  <2> QED BY <1>1, <2>1, OthersKeepInst DEF instVars
<1>4. CASE inst[id] # None /\ \E op : resolveInstallationConnector(c, op, id)
  <2>1. /\ call'[c].pc = "provider" /\ call'[c].id = id /\ call'[c].row = inst[id]
        /\ \A d \in Callers \ {c} : call'[d] = call[d]
    BY <1>0, <1>4 DEF resolveInstallationConnector, GetConnectorInstallation
  <2>2. InstTypes /\ InstTypes' /\ Carried
    BY <1>1, CarriedSame DEF InstInv, InstTypes
  <2>3. inst[id] \in InstRows /\ sound(id, inst[id], clock, issue, secrets, events, excused)
    BY <1>4, <2>2 DEF InstTypes, InstInv, RowsAreSound
  <2>4. heldBy(call'[c], clock', issue', secrets', events', excused')
    BY <1>1, <2>1, <2>3 DEF heldBy
  <2>5. CopiesAreSound'
    BY <2>1, <2>2, <2>4, CopiesCarried DEF InstInv
  <2>6. SecretsAreNew'
    BY <1>1, <2>1, SecretsStay DEF InstInv
  <2>7. RowsAreSound' /\ PollIsSound'
    BY <1>1, <2>2, RowsCarried, PollStays DEF InstInv
  <2>8. EventsAreOld'
    BY <1>1 DEF InstInv, EventsAreOld
  <2> QED BY <2>2, <2>5, <2>6, <2>7, <2>8 DEF InstInv
<1> QED BY <1>2, <1>3, <1>4

\* A handler writes its copy back, with the time of the last sync it read.
LEMMA ReturnKeepsInst ==
  ASSUME AccessInv, InstInv, NEW c \in Callers, call[c].pc = "provider",
         UNCHANGED <<secrets, used, issue, clock, poll, excused>>, answer(c),
         Carried, EventsAreOld',
         \/ inst' = inst
         \/ \E row \in InstRows : /\ row.sync = call[c].row.sync
                                  /\ CreateConnectorInstallation(call[c].id, row)
  PROVE  InstInv'
<1> DEFINE id == call[c].id
<1>1. /\ id \in Installations /\ call[c].row \in InstRows
      /\ sound(id, call[c].row, clock, issue, secrets, events, excused)
  BY DEF InstInv, CopiesAreSound, heldBy
<1>2. goes(c, {"idle"})
  BY AnswerGoes
<1>3. call'[c].pc = "idle" /\ \A d \in Callers \ {c} : call'[d] = call[d]
  BY <1>2 DEF goes
<1>4. InstTypes
  BY DEF InstInv
<1>5. InstTypes'
  <2>1. inst' \in [Installations -> InstRows \cup {None}]
    <3>1. CASE inst' = inst
      BY <1>4, <3>1 DEF InstTypes
    <3>2. CASE inst' # inst
      BY <1>1, <1>4, <3>2, RowWritten
    <3> QED BY <3>1, <3>2
  <2> QED BY <1>4, <2>1 DEF InstTypes
<1>6. RowsAreSound'
  <2>1. CASE inst' = inst
    BY <1>4, <1>5, <2>1, RowsCarried DEF InstInv
  <2>2. ASSUME NEW row \in InstRows, row.sync = call[c].row.sync, CreateConnectorInstallation(id, row)
        PROVE  RowsAreSound'
    <3>1. sound(id, row, clock, issue, secrets, events, excused)
      BY <1>1, <2>2 DEF sound
    <3>2. sound(id, row, clock', issue', secrets', events', excused')
      BY <1>1, <1>4, <1>5, <3>1, SoundCarried
    <3> QED BY <1>1, <1>4, <1>5, <2>2, <3>2, RowsWritten DEF InstInv
  <2> QED BY <2>1, <2>2
<1>7. CopiesAreSound'
  <2>1. heldBy(call'[c], clock', issue', secrets', events', excused')
    BY <1>3 DEF heldBy
  <2> QED BY <1>3, <1>4, <1>5, <2>1, CopiesCarried DEF InstInv
<1>8. SecretsAreNew'
  BY <1>3, SecretsStay DEF InstInv
<1>9. PollIsSound'
  BY <1>4, <1>5, PollStays DEF InstInv
<1> QED BY <1>5, <1>6, <1>7, <1>8, <1>9 DEF InstInv

\* The outcome of a call of the provider touches the status only.
LEMMA OutcomeKeepsSync ==
  ASSUME NEW row \in InstRows, NEW ok
  PROVE  outcome(row, ok) \in InstRows /\ outcome(row, ok).sync = row.sync
BY DEF outcome, InstRows

\* Validation, an action, and switching an installation on or off.
LEMMA ProviderKeepsInst ==
  ASSUME AccessInv, InstInv, NEW c \in Callers,
         \/ handleInstallationValidate(c) \/ handleInstallationAction(c)
         \/ handleInstallationEnableDisable(c)
  PROVE  InstInv'
<1>1. /\ call[c].pc = "provider" /\ answer(c)
      /\ UNCHANGED <<secrets, used, events, issue, clock, poll, excused>>
  BY DEF handleInstallationValidate, handleInstallationAction, handleInstallationEnableDisable,
       calls, reply, unchangedPolling
<1>2. call[c].row \in InstRows
  BY <1>1 DEF InstInv, CopiesAreSound, heldBy
<1>3. Carried /\ EventsAreOld'
  BY <1>1, CarriedSame DEF InstInv, EventsAreOld
<1>4. \E row \in InstRows : /\ row.sync = call[c].row.sync
                            /\ CreateConnectorInstallation(call[c].id, row)
  <2>1. CASE handleInstallationValidate(c)
    BY <1>2, <2>1, OutcomeKeepsSync DEF handleInstallationValidate
  <2>2. CASE handleInstallationAction(c)
    BY <1>2, <2>2, OutcomeKeepsSync DEF handleInstallationAction
  <2>3. CASE handleInstallationEnableDisable(c)
    <3> DEFINE row == call[c].row
               on  == call[c].op = "switchOn"
               new == [row EXCEPT !.enabled = on,
                                  !.status = IF ~on THEN "disabled"
                                             ELSE IF @ = "disabled" THEN "created" ELSE @]
    <3>1. on \in BOOLEAN
      OBVIOUS
    <3>2. CreateConnectorInstallation(call[c].id, new)
      BY <2>3 DEF handleInstallationEnableDisable
    <3> HIDE DEF on
    <3>3. new \in InstRows /\ new.sync = row.sync
      BY <1>2, <3>1 DEF InstRows
    <3> HIDE DEF new
    <3> QED BY <3>2, <3>3
  <2> QED BY <2>1, <2>2, <2>3
<1> QED BY <1>1, <1>3, <1>4, ReturnKeepsInst

\* A delivery: its event belongs to an installation that is not Jira's.
LEMMA WebhookKeepsInst ==
  ASSUME AccessInv, InstInv, NEW c \in Callers, handleInstallationWebhook(c)
  PROVE  InstInv'
<1> DEFINE id == call[c].id
           p  == ProviderOf[id]
<1>1. /\ call[c].pc = "provider" /\ answer(c)
      /\ UNCHANGED <<secrets, used, issue, clock, poll, excused>>
  BY DEF handleInstallationWebhook, calls, reply, unchangedPolling
<1>2. call[c].row \in InstRows /\ id \in Installations
  BY <1>1 DEF InstInv, CopiesAreSound, heldBy
<1>3. InstTypes /\ EventsAreOld
  BY DEF InstInv
<1>4. PICK kind \in HookKinds, signed \in BOOLEAN, stores \in BOOLEAN :
        \/ /\ CreateConnectorInstallation(id, outcome(call[c].row, FALSE))
           /\ UNCHANGED events
        \/ UNCHANGED <<inst, events>>
        \/ /\ VerifyWebhook(p, call[c].cfg, signed) = "verified"
           /\ CreateConnectorEvents(IF stores THEN {<<id, kind, clock>>} ELSE {})
           /\ CreateConnectorInstallation(id, outcome(call[c].row, stores))
  BY DEF handleInstallationWebhook
<1>5. \/ inst' = inst
      \/ \E row \in InstRows : /\ row.sync = call[c].row.sync
                               /\ CreateConnectorInstallation(id, row)
  BY <1>2, <1>4, OutcomeKeepsSync
<1>6. Carried /\ EventsAreOld'
  <2>1. CASE UNCHANGED events
    BY <1>1, <1>3, <2>1, CarriedSame DEF EventsAreOld
  <2>2. CASE /\ VerifyWebhook(p, call[c].cfg, signed) = "verified"
             /\ CreateConnectorEvents(IF stores THEN {<<id, kind, clock>>} ELSE {})
    <3> DEFINE new == IF stores THEN {<<id, kind, clock>>} ELSE {}
    <3>1. p # "jira"
      BY <2>2 DEF VerifyWebhook, jiraVerifyWebhook
    <3>2. \A e \in new : e = <<id, kind, clock>>
      OBVIOUS
    <3>3. CreateConnectorEvents(new)
      BY <2>2
    <3> HIDE DEF new
    <3>4. \A e \in new : /\ e \in Installations \X (Issues \cup HookKinds) \X Int
                         /\ e[1] = id
      BY <1>2, <1>3, <3>2 DEF InstTypes
    <3>5. excused \subseteq excused'
      BY <1>1
    <3> QED BY <1>1, <1>3, <3>1, <3>3, <3>4, <3>5, CarriedByEvents
  <2> QED BY <1>4, <2>1, <2>2
<1> QED BY <1>1, <1>5, <1>6, ReturnKeepsInst

\* Every installation handler.
LEMMA HandlersKeepInst ==
  ASSUME scene \in Scenarios, AccessInv, InstInv, NEW c \in Callers, handlerStep(c)
  PROVE  InstInv'
BY InstallKeepsInst, SecretsKeepInst, LoadKeepsInst, ProviderKeepsInst, WebhookKeepsInst
   DEF handlerStep

-----------------------------------------------------------------------------
(* The worker *)

\* A step of the worker touches no request and no secret.
LEMMA WorkerFrame ==
  ASSUME InstInv, UNCHANGED <<accessVars, secrets, used>>, InstTypes', Carried,
         RowsAreSound', EventsAreOld', PollIsSound'
  PROVE  InstInv'
<1>1. call' = call /\ secrets' = secrets /\ used' = used
  BY DEF accessVars
<1>2. CopiesAreSound'
  BY <1>1, CopiesStay DEF InstInv
<1>3. SecretsAreNew'
  BY <1>1 DEF InstInv, SecretsAreNew
<1> QED BY <1>2, <1>3 DEF InstInv

\* The same, where the worker changes nothing but its own state.
LEMMA WorkerMoves ==
  ASSUME InstInv, UNCHANGED <<accessVars, inst, secrets, used, events, issue, clock, excused>>,
         PollIsSound'
  PROVE  InstInv'
<1>1. InstTypes /\ InstTypes' /\ Carried
  BY CarriedSame DEF InstInv, InstTypes
<1>2. RowsAreSound' /\ EventsAreOld'
  BY <1>1, RowsCarried DEF InstInv, EventsAreOld
<1> QED BY <1>1, <1>2, WorkerFrame

\* The worker's states.
LEMMA AsleepIsSound ==
  ASSUME poll' = Asleep
  PROVE  PollIsSound'
BY DEF PollIsSound, Asleep

\* The list a poll works through.
LEMMA NextIsSound ==
  ASSUME NEW todo, poll' = [pc |-> "next", todo |-> todo],
         listOK(todo, clock', issue', secrets', events', excused')
  PROVE  PollIsSound'
<1>1. poll'.pc = "next" /\ poll'.todo = todo
  OBVIOUS
<1> QED BY <1>1 DEF PollIsSound

\* RunOnce lists the rows of the table.
LEMMA RunOnceKeepsInst ==
  ASSUME InstInv, RunOnce
  PROVE  InstInv'
<1> DEFINE todo == {e \in ListConnectorInstallations : e[2].enabled}
<1>1. /\ poll' = [pc |-> "next", todo |-> todo]
      /\ UNCHANGED <<accessVars, inst, secrets, used, events, issue, clock, excused>>
  BY DEF RunOnce
<1>2. ASSUME NEW e \in todo
      PROVE  /\ e \in Installations \X InstRows
             /\ sound(e[1], e[2], clock, issue, secrets, events, excused)
  <2>1. PICK id \in Installations : inst[id] # None /\ e = <<id, inst[id]>>
    BY DEF ListConnectorInstallations
  <2>2. inst[id] \in InstRows /\ sound(id, inst[id], clock, issue, secrets, events, excused)
    BY <2>1 DEF InstInv, InstTypes, RowsAreSound
  <2> QED BY <2>1, <2>2
<1> HIDE DEF todo
<1>3. listOK(todo, clock, issue, secrets, events, excused)
  BY <1>2 DEF listOK
<1>4. listOK(todo, clock', issue', secrets', events', excused')
  BY <1>1, <1>3
<1>5. PollIsSound'
  BY <1>1, <1>4, NextIsSound
<1> QED BY <1>1, <1>5, WorkerMoves

\* A provider without polling is crossed off.
LEMMA SyncKeepsInst ==
  ASSUME InstInv, syncInstallation
  PROVE  InstInv'
<1>1. /\ poll.pc = "next"
      /\ UNCHANGED <<accessVars, inst, secrets, used, events, issue, clock, excused>>
  BY DEF syncInstallation
<1>2. /\ poll = [pc |-> "next", todo |-> poll.todo]
      /\ listOK(poll.todo, clock, issue, secrets, events, excused)
  BY <1>1 DEF InstInv, PollIsSound
<1>3. PollIsSound'
  <2>1. CASE poll' = Asleep
    BY <2>1, AsleepIsSound
  <2>2. ASSUME NEW e, poll' = finished(e[1])
        PROVE  PollIsSound'
    <3> DEFINE less == {f \in poll.todo : f[1] # e[1]}
    <3>1. poll' = [poll EXCEPT !.todo = less]
      BY <2>2 DEF finished
    <3>2. less \subseteq poll.todo
      OBVIOUS
    <3> HIDE DEF less
    <3>3. poll' = [pc |-> "next", todo |-> less]
      BY <1>2, <3>1
    <3>4. listOK(less, clock, issue, secrets, events, excused)
      BY <1>2, <3>2, ListShrinks
    <3>5. listOK(less, clock', issue', secrets', events', excused')
      BY <1>1, <3>4
    <3> QED BY <3>3, <3>5, NextIsSound
  <2> QED BY <2>1, <2>2 DEF syncInstallation
<1> QED BY <1>1, <1>3, WorkerMoves

\* The worker writes a row of its list and crosses it off.
LEMMA RowIsWritten ==
  ASSUME InstInv, InstTypes', Carried, EventsAreOld', UNCHANGED <<accessVars, secrets, used>>,
         poll.pc # "asleep", NEW id \in Installations, NEW row \in InstRows,
         CreateConnectorInstallation(id, row),
         sound(id, row, clock', issue', secrets', events', excused'), polled(id)
  PROVE  InstInv'
<1>1. RowsAreSound'
  BY RowsWritten DEF InstInv
<1>2. listOK(poll.todo, clock', issue', secrets', events', excused')
  BY ListCarried DEF InstInv, PollIsSound
<1> DEFINE less == {f \in poll.todo : f[1] # id}
<1>3. poll' = [pc |-> "next", todo |-> less]
  BY DEF polled
<1>4. listOK(less, clock', issue', secrets', events', excused')
  BY <1>2, ListShrinks
<1> HIDE DEF less
<1>5. PollIsSound'
  BY <1>3, <1>4, NextIsSound
<1> QED BY <1>1, <1>5, WorkerFrame

\* A failed poll writes the listed copy back.
LEMMA FailKeepsInst ==
  ASSUME InstInv, Carried, EventsAreOld', UNCHANGED <<accessVars, secrets, used, issue, clock>>,
         poll.pc # "asleep", NEW e \in poll.todo, failInstallation(e)
  PROVE  InstInv'
<1>1. /\ e \in Installations \X InstRows
      /\ sound(e[1], e[2], clock, issue, secrets, events, excused)
  BY DEF InstInv, PollIsSound, listOK
<1>2. e[1] \in Installations /\ e[2] \in InstRows
  BY <1>1
<1> DEFINE row == outcome(e[2], FALSE)
<1>3. row \in InstRows /\ row.sync = e[2].sync
  BY <1>2, OutcomeKeepsSync
<1>4. CreateConnectorInstallation(e[1], row) /\ polled(e[1])
  BY DEF failInstallation
<1> HIDE DEF row
<1>5. InstTypes
  BY DEF InstInv
<1>6. InstTypes'
  <2>1. inst' \in [Installations -> InstRows \cup {None}]
    BY <1>2, <1>3, <1>4, <1>5, RowWritten
  <2> QED BY <1>5, <2>1 DEF InstTypes
<1>7. sound(e[1], row, clock, issue, secrets, events, excused)
  BY <1>1, <1>3 DEF sound
<1>8. sound(e[1], row, clock', issue', secrets', events', excused')
  BY <1>2, <1>3, <1>5, <1>6, <1>7, SoundCarried
<1> QED BY <1>2, <1>3, <1>4, <1>6, <1>8, RowIsWritten

\* No token, or the search fails.
LEMMA SyncFailsKeepsInst ==
  ASSUME InstInv, syncFails
  PROVE  InstInv'
<1>1. /\ poll.pc = "next"
      /\ UNCHANGED <<accessVars, secrets, used, events, issue, clock, excused>>
  BY DEF syncFails
<1>2. PICK e \in poll.todo : failInstallation(e)
  BY DEF syncFails
<1>3. Carried /\ EventsAreOld'
  BY <1>1, CarriedSame DEF InstInv, EventsAreOld
<1> QED BY <1>1, <1>2, <1>3, FailKeepsInst

\* The lower bound of a query is a number.
LEMMA SinceIsNumber ==
  ASSUME NEW row \in InstRows
  PROVE  sinceOf(row) \in Int
<1>1. CASE row.sync = None
  BY <1>1 DEF sinceOf
<1>2. CASE row.sync # None
  <2>1. row.sync \in Nat
    BY <1>2 DEF InstRows
  <2> QED BY <1>2, <2>1, FloorBelow DEF sinceOf
<1> QED BY <1>1, <1>2

\* The search: every issue it does not find was not asked for.
LEMMA SearchKeepsInst ==
  ASSUME InstInv, PollIssueSnapshots
  PROVE  InstInv'
<1>1. /\ poll.pc = "next"
      /\ UNCHANGED <<accessVars, inst, secrets, used, events, issue, clock, excused>>
  BY DEF PollIssueSnapshots
<1>a. PICK e \in poll.todo :
        /\ ProviderOf[e[1]] = "jira" /\ "token" \in secrets[e[1]]
        /\ LET found == {k \in Issues : issue[k] >= sinceOf(e[2])}
           IN  \E page \in pagesOf(found) :
                 poll' = [pc |-> "answered", todo |-> poll.todo, e |-> e, asked |-> clock,
                          cut |-> {<<k, issue[k]>> : k \in found \ page},
                          got |-> {<<e[1], k, issue[k]>> : k \in page}]
  BY DEF PollIssueSnapshots
<1> DEFINE found == {k \in Issues : issue[k] >= sinceOf(e[2])}
<1>2. PICK page \in pagesOf(found) :
        poll' = [pc |-> "answered", todo |-> poll.todo, e |-> e, asked |-> clock,
                 cut |-> {<<k, issue[k]>> : k \in found \ page},
                 got |-> {<<e[1], k, issue[k]>> : k \in page}]
  BY <1>a
<1>3. page \subseteq found
  BY DEF pagesOf
<1>4. listOK(poll.todo, clock, issue, secrets, events, excused)
  BY <1>1 DEF InstInv, PollIsSound
<1>5. e[2] \in InstRows
  BY <1>4 DEF listOK
<1>6. \A k \in Issues : issue[k] < sinceOf(e[2]) \/ k \in found
  BY <1>5, SinceIsNumber DEF InstInv, InstTypes
<1>7. \A k \in page : k \in Issues /\ issue[k] \in Int
  BY <1>3 DEF InstInv, InstTypes
<1> DEFINE got == {<<e[1], k, issue[k]>> : k \in page}
           cut == {<<k, issue[k]>> : k \in found \ page}
<1>8. \A g \in got : g \in {e[1]} \X Issues \X Int /\ g[3] <= issue[g[2]]
  BY <1>7
<1>9. \A k \in Issues : \/ <<e[1], k, issue[k]>> \in got
                        \/ <<k, issue[k]>> \in cut
                        \/ issue[k] < sinceOf(e[2])
  BY <1>6
<1>10. poll' = [pc |-> "answered", todo |-> poll.todo, e |-> e, asked |-> clock,
                cut |-> cut, got |-> got]
  BY <1>2
<1> HIDE DEF got, cut, found
<1>11. /\ poll'.pc = "answered" /\ poll'.todo = poll.todo /\ poll'.e = e
       /\ poll'.asked = clock /\ poll'.cut = cut /\ poll'.got = got
  BY <1>10
<1>12. clock \in Nat /\ clock <= clock
  BY DEF InstInv, InstTypes
<1>13. answerOK(poll', clock, issue, secrets)
  BY <1>a, <1>8, <1>9, <1>11, <1>12 DEF answerOK
<1>14. PollIsSound'
  BY <1>1, <1>4, <1>11, <1>13 DEF PollIsSound
<1> QED BY <1>1, <1>14, WorkerMoves

\* What a poll under way may store.
LEMMA GotMayBeStored ==
  ASSUME InstInv, poll.pc = "answered", NEW g \in poll.got
  PROVE  /\ g \in Installations \X (Issues \cup HookKinds) \X Int
         /\ ProviderOf[g[1]] = "jira" => g[2] \in Issues /\ g[3] <= issue[g[2]]
<1>1. answerOK(poll, clock, issue, secrets) /\ listOK(poll.todo, clock, issue, secrets, events, excused)
  BY DEF InstInv, PollIsSound
<1>2. g \in {poll.e[1]} \X Issues \X Int /\ g[3] <= issue[g[2]]
  BY <1>1 DEF answerOK
<1>3. poll.e[1] \in Installations
  BY <1>1 DEF answerOK, listOK
<1> QED BY <1>2, <1>3

\* The answer is stored, and the row with the time at which it was in: what the
\* next query leaves out has been stored now, had been before, or is excused.
LEMMA StoreKeepsInst ==
  ASSUME InstInv, syncJiraInstallation
  PROVE  InstInv'
<1> DEFINE e == poll.e
           id == e[1]
           late == {<<k, issue[k]>> : k \in {j \in Issues : issue[j] >= poll.asked}}
<1>1. /\ poll.pc = "answered"
      /\ UNCHANGED <<accessVars, secrets, used, issue, clock>>
  BY DEF syncJiraInstallation
<1>2. /\ answerOK(poll, clock, issue, secrets)
      /\ listOK(poll.todo, clock, issue, secrets, events, excused)
      /\ InstTypes /\ EventsAreOld
  BY <1>1 DEF InstInv, PollIsSound
<1>3. /\ e \in poll.todo /\ ProviderOf[id] = "jira" /\ secrets[id] # {}
      /\ poll.asked \in Nat
  BY <1>2 DEF answerOK
<1>4. /\ id \in Installations /\ e[2] \in InstRows
      /\ sound(id, e[2], clock, issue, secrets, events, excused)
  BY <1>2, <1>3 DEF listOK
<1>5. CASE /\ CreateConnectorEvents(poll.got)
           /\ CreateConnectorInstallation(id, syncedRow(e[2]))
           /\ excused' = excused \cup {u \in poll.cut \cup late : u[2] < floorToMinute(clock)}
           /\ polled(id)
  <2>1. excused \subseteq excused'
    BY <1>5
  <2>2. Carried /\ EventsAreOld'
    BY <1>1, <1>2, <1>5, <2>1, GotMayBeStored, CarriedByEvents
  <2>3. \A j \in Installations, k \in Issues :
          (ProviderOf[j] = "jira" /\ <<j, k, issue[k]>> \in events \cup poll.got)
            => <<j, k, issue[k]>> \in events'
    BY <1>1, <1>2, <1>5, GotMayBeStored, EventsAdded
  <2> DEFINE row == syncedRow(e[2])
  <2>4. clock \in Nat
    BY <1>2 DEF InstTypes
  <2>5. row \in InstRows /\ row.sync = clock
    BY <1>4, <2>4 DEF syncedRow, InstRows
  <2>6. CreateConnectorInstallation(id, row)
    BY <1>5
  <2> HIDE DEF row
  <2>7. InstTypes'
    <3>1. inst' \in [Installations -> InstRows \cup {None}]
      BY <1>2, <1>4, <2>5, <2>6, RowWritten
    <3> QED BY <1>1, <1>2, <3>1 DEF InstTypes
  <2>8. ASSUME NEW k \in Issues, issue[k] < floorToMinute(clock)
        PROVE  covered(id, k, issue[k], events', excused')
    <3> DEFINE u == <<k, issue[k]>>
    <3>0. issue[k] \in Int /\ u[2] = issue[k]
      BY <1>2 DEF InstTypes
    <3>1. CASE issue[k] >= poll.asked
      <4>1. u \in late
        BY <3>1
      <4> QED BY <1>5, <2>8, <3>0, <4>1 DEF covered
    <3>2. CASE u \in poll.cut
      BY <1>5, <2>8, <3>0, <3>2 DEF covered
    <3>3. CASE <<id, k, issue[k]>> \in poll.got
      BY <1>3, <1>4, <2>3, <3>3 DEF covered
    <3>4. CASE issue[k] < sinceOf(e[2])
      <4>1. e[2].sync # None /\ issue[k] < floorToMinute(e[2].sync)
        <5>1. issue[k] >= -1
          BY <1>2 DEF InstTypes
        <5> QED BY <3>0, <3>4, <5>1 DEF sinceOf
      <4>2. covered(id, k, issue[k], events, excused)
        BY <1>4, <4>1 DEF sound
      <4> QED BY <1>1, <1>3, <1>4, <2>2, <4>2 DEF Carried
    <3>5. issue[k] < poll.asked => \/ <<id, k, issue[k]>> \in poll.got
                                   \/ u \in poll.cut
                                   \/ issue[k] < sinceOf(e[2])
      BY <1>2 DEF answerOK
    <3> QED BY <1>3, <3>0, <3>1, <3>2, <3>3, <3>4, <3>5
  <2>9. sound(id, row, clock', issue', secrets', events', excused')
    BY <1>1, <1>3, <2>4, <2>5, <2>8 DEF sound
  <2> QED BY <1>1, <1>4, <1>5, <2>2, <2>5, <2>6, <2>7, <2>9, RowIsWritten
<1>6. CASE /\ \E some \in SUBSET poll.got : CreateConnectorEvents(some)
           /\ failInstallation(e)
           /\ UNCHANGED excused
  <2>1. PICK some \in SUBSET poll.got : CreateConnectorEvents(some)
    BY <1>6
  <2>2. excused \subseteq excused'
    BY <1>6
  <2>3. Carried /\ EventsAreOld'
    BY <1>1, <1>2, <2>1, <2>2, GotMayBeStored, CarriedByEvents
  <2> QED BY <1>1, <1>3, <1>6, <2>3, FailKeepsInst
<1> QED BY <1>5, <1>6 DEF syncJiraInstallation

\* The worker dies and starts again.
LEMMA RestartKeepsInst ==
  ASSUME InstInv, workerRestarts
  PROVE  InstInv'
<1>1. /\ poll' = Asleep
      /\ UNCHANGED <<accessVars, inst, secrets, used, issue, clock, excused>>
  BY DEF workerRestarts
<1>2. PollIsSound'
  BY <1>1, AsleepIsSound
<1>3. InstTypes /\ InstTypes' /\ EventsAreOld
  BY <1>1 DEF InstInv, InstTypes
<1>4. Carried /\ EventsAreOld'
  <2>1. CASE UNCHANGED events
    BY <1>1, <1>3, <2>1, CarriedSame DEF EventsAreOld
  <2>2. CASE poll.pc = "answered" /\ \E some \in SUBSET poll.got : CreateConnectorEvents(some)
    <3>1. PICK some \in SUBSET poll.got : CreateConnectorEvents(some)
      BY <2>2
    <3>2. excused \subseteq excused'
      BY <1>1
    <3> QED BY <1>1, <1>3, <2>2, <3>1, <3>2, GotMayBeStored, CarriedByEvents
  <2> QED BY <2>1, <2>2 DEF workerRestarts
<1>5. RowsAreSound'
  BY <1>1, <1>3, <1>4, RowsCarried DEF InstInv
<1> QED BY <1>1, <1>2, <1>3, <1>4, <1>5, WorkerFrame

\* An issue is updated at Jira: no query starts after the present.
LEMMA UpdateKeepsInst ==
  ASSUME InstInv, NEW k \in Issues, updateIssue(k)
  PROVE  InstInv'
<1>1. /\ issue[k] < clock /\ issue' = [issue EXCEPT ![k] = clock]
      /\ excused' = {u \in excused : u[1] # k}
      /\ UNCHANGED <<accessVars, inst, secrets, used, events, clock, poll>>
  BY DEF updateIssue
<1>2. InstTypes
  BY DEF InstInv
<1>3. clock \in Nat /\ issue \in [Issues -> Int] /\ \A j \in Issues : issue[j] >= -1
  BY <1>2 DEF InstTypes
<1>4. issue'[k] = clock /\ \A j \in Issues \ {k} : issue'[j] = issue[j]
  BY <1>1, <1>3
<1>5. issue' \in [Issues -> Int] /\ \A j \in Issues : issue'[j] >= -1 /\ issue'[j] >= issue[j]
  BY <1>1, <1>3, <1>4
<1>6. InstTypes'
  BY <1>1, <1>2, <1>5 DEF InstTypes
<1>7. Carried
  <2>1. ASSUME NEW id \in Installations, NEW j \in Issues,
               covered(id, j, issue[j], events, excused), issue'[j] = issue[j]
        PROVE  covered(id, j, issue[j], events', excused')
    <3>1. j # k
      BY <1>1, <1>3, <1>4, <2>1
    <3> QED BY <1>1, <2>1, <3>1 DEF covered
  <2>2. clock <= clock' /\ clock >= clock
    BY <1>1, <1>3
  <2>3. \A j \in Issues : issue'[j] >= issue[j] /\ (issue'[j] = issue[j] \/ issue'[j] >= clock)
    BY <1>3, <1>4, <1>5, <2>2
  <2> QED BY <1>1, <2>1, <2>2, <2>3 DEF Carried
<1>8. RowsAreSound' /\ PollIsSound'
  BY <1>1, <1>2, <1>6, <1>7, RowsCarried, PollStays DEF InstInv
<1>9. EventsAreOld'
  <2> SUFFICES ASSUME NEW e \in events
               PROVE  /\ e \in Installations \X (Issues \cup HookKinds) \X Int
                      /\ ProviderOf[e[1]] = "jira" => e[2] \in Issues /\ e[3] <= issue'[e[2]]
    BY <1>1 DEF EventsAreOld
  <2>1. /\ e \in Installations \X (Issues \cup HookKinds) \X Int
        /\ ProviderOf[e[1]] = "jira" => e[2] \in Issues /\ e[3] <= issue[e[2]]
    BY DEF InstInv, EventsAreOld
  <2>2. e[3] \in Int
    BY <2>1
  <2> QED BY <1>3, <1>5, <2>1, <2>2
<1> QED BY <1>1, <1>6, <1>7, <1>8, <1>9, WorkerFrame

\* Time passes.
LEMMA TickKeepsInst ==
  ASSUME InstInv, tick
  PROVE  InstInv'
<1>1. /\ clock' = clock + 1
      /\ UNCHANGED <<accessVars, inst, secrets, used, events, issue, poll, excused>>
  BY DEF tick
<1>2. InstTypes /\ InstTypes'
  BY <1>1 DEF InstInv, InstTypes
<1>3. Carried
  BY <1>1, <1>2 DEF Carried, InstTypes
<1>4. RowsAreSound' /\ PollIsSound' /\ EventsAreOld'
  BY <1>1, <1>2, <1>3, RowsCarried, PollStays DEF InstInv, EventsAreOld
<1> QED BY <1>1, <1>2, <1>3, <1>4, WorkerFrame

-----------------------------------------------------------------------------
(* The invariant *)

\* Every step keeps the copies of installation rows sound.
LEMMA InstStep ==
  ASSUME IInv, [Next]_vars
  PROVE  InstInv'
<1>0. scene \in Scenarios /\ AccessInv /\ RuntimeInv /\ InstInv
  BY DEF IInv
<1>1. ASSUME NEW c \in Callers, authStep(c) \/ accessStep(c), UNCHANGED instVars
      PROVE  InstInv'
  <2>1. goes(c, {"idle", "member", "authed", "rewrite"})
    BY <1>0, <1>1, AccessGoes
  <2> QED BY <1>0, <1>1, <2>1, OthersKeepInst
<1>2. ASSUME NEW c \in Callers, runtimeStep(c), UNCHANGED instVars
      PROVE  InstInv'
  <2>1. CASE ~ serveRelayProxy(c)
    <3>1. goes(c, {"idle", "refresh", "list", "write"})
      BY <1>0, <1>2, <2>1, RuntimeGoes
    <3> QED BY <1>0, <1>2, <3>1, OthersKeepInst
  <2>2. CASE serveRelayProxy(c)
    <3>1. goes(c, {"idle", "served"})
      <4>1. CASE answer(c)
        BY <1>0, <4>1, AnswerGoes
      <4>2. CASE call' = [call EXCEPT ![c] = [pc |-> "served", i |-> call[c].i]]
        BY <1>0, <4>2 DEF goes, AccessInv, CallsKnow
      <4> QED BY <2>2, <4>1, <4>2 DEF serveRelayProxy
    <3> QED BY <1>0, <1>2, <3>1, OthersKeepInst
  <2> QED BY <2>1, <2>2
<1>3. CASE workerStep
  BY <1>0, <1>3, RunOnceKeepsInst, SyncKeepsInst, SyncFailsKeepsInst, SearchKeepsInst,
     StoreKeepsInst, RestartKeepsInst, TickKeepsInst, UpdateKeepsInst DEF workerStep
<1>4. CASE UNCHANGED <<call, instVars>>
  <2>1. /\ UNCHANGED <<inst, secrets, used, events, issue, clock, poll, excused>>
        /\ call' = call
    BY <1>4 DEF instVars
  <2> QED BY <1>0, <2>1 DEF InstInv, InstTypes, RowsAreSound, CopiesAreSound, SecretsAreNew,
            PollIsSound, EventsAreOld
<1>5. ASSUME NEW i \in Instances, advertise(i), UNCHANGED instVars
      PROVE  InstInv'
  BY <1>4, <1>5 DEF advertise, accessVars
<1>6. CASE UNCHANGED vars
  BY <1>4, <1>6 DEF vars, accessVars
<1> QED BY <1>0, <1>1, <1>2, <1>3, <1>5, <1>6, HandlersKeepInst DEF Next

\* The scenario of a behaviour is fixed.
LEMMA SceneStays ==
  ASSUME [Next]_vars
  PROVE  scene' = scene
<1>1. ASSUME NEW c \in Callers, authStep(c) \/ accessStep(c)
      PROVE  scene' = scene
  BY <1>1 DEF authStep, accessStep, LookupAPIToken, GetMembership, handleTokens, handleTokenByID,
     handleMemberships, loadMembership, handleMembershipByID
<1>2. ASSUME NEW c \in Callers, handlerStep(c)
      PROVE  scene' = scene
  BY <1>2 DEF handlerStep, handleInstallations, PutInstallationSecrets, loadInstallation,
     receiveWebhook, handleInstallationValidate, handleInstallationAction,
     handleInstallationEnableDisable, handleInstallationWebhook, reply
<1>3. ASSUME NEW c \in Callers, runtimeStep(c)
      PROVE  scene' = scene
  BY <1>3 DEF runtimeStep, refreshStep, handleRuntimeConnectors, handleRuntimeConnectorByID,
     loadAuthorizedRuntimeInstance, persistRuntimeConnectorInstallation, ListInstancesByConnector,
     persistRuntimeInstance, answerRefresh, serveRelayProxy, returnAnswer, rest
<1>4. CASE UNCHANGED accessVars
  BY <1>4 DEF accessVars
<1>5. CASE workerStep
  BY <1>4, <1>5 DEF workerStep, RunOnce, syncInstallation, syncFails, PollIssueSnapshots,
     syncJiraInstallation, workerRestarts, tick, updateIssue
<1>6. ASSUME NEW i \in Instances, advertise(i)
      PROVE  scene' = scene
  BY <1>4, <1>6 DEF advertise
<1>7. CASE UNCHANGED vars
  BY <1>4, <1>7 DEF vars
<1> QED BY <1>1, <1>2, <1>3, <1>5, <1>6, <1>7 DEF Next

\* The inductive invariant holds of every behaviour of the control plane.
THEOREM Invariance == Spec => []IInv
<1>1. Init => IInv
  <2> SUFFICES ASSUME Init PROVE IInv
    OBVIOUS
  <2>1. scene \in Scenarios /\ AccessInv
    BY AccessBegins DEF Init, accessInit
  <2>2. RuntimeInv
    BY DEF Init, runtimeInit, RuntimeInv
  <2>3. /\ inst = [id \in Installations |-> None]
        /\ secrets = [id \in Installations |-> {}]
        /\ used = {} /\ events = {} /\ clock = 0 /\ poll = Asleep /\ excused = {}
        /\ issue = [k \in Issues |-> -1]
        /\ call = [c \in Callers |-> Idle]
    BY DEF Init, instInit, accessInit
  <2>4. InstTypes
    BY <2>3 DEF InstTypes
  <2>5. \A c \in Callers : call[c].pc = "idle"
    BY <2>3 DEF Idle
  <2>6. RowsAreSound /\ EventsAreOld
    BY <2>3 DEF RowsAreSound, EventsAreOld
  <2>7. CopiesAreSound /\ SecretsAreNew
    BY <2>3, <2>5 DEF CopiesAreSound, SecretsAreNew, heldBy, storing
  <2>8. PollIsSound
    BY <2>3 DEF PollIsSound, Asleep
  <2> QED BY <2>1, <2>2, <2>4, <2>6, <2>7, <2>8 DEF IInv, InstInv
<1>2. IInv /\ [Next]_vars => IInv'
  BY SceneStays, AccessStep, RuntimeStep, InstStep DEF IInv
<1> QED BY <1>1, <1>2, PTL DEF Spec

\* No update of an issue is passed over by the worker's polls, however many
\* requests hold older copies of the row, and whenever polls fail or the worker
\* restarts, but for the two exceptions that the property names.
THEOREM NoUpdateIsPassedOver == Spec => []UpdatesAreSeen
<1>1. IInv => UpdatesAreSeen
  <2> SUFFICES ASSUME IInv, NEW id \in Installations, NEW k \in Issues,
                      inst[id] # None, issue[k] < sinceOf(inst[id])
               PROVE  <<id, k, issue[k]>> \in events \/ <<k, issue[k]>> \in excused
    BY DEF UpdatesAreSeen
  <2>1. sound(id, inst[id], clock, issue, secrets, events, excused)
    BY DEF IInv, InstInv, RowsAreSound
  <2>2. issue[k] \in Int /\ issue[k] >= -1
    BY DEF IInv, InstInv, InstTypes
  <2>3. inst[id].sync # None /\ issue[k] < floorToMinute(inst[id].sync)
    BY <2>2 DEF sinceOf
  <2> QED BY <2>1, <2>3 DEF sound, covered
<1> QED BY <1>1, Invariance, PTL

=============================================================================
