---- MODULE CloudAccess ----
(***************************************************************************)
(* The cloud control plane's accounts: memberships with a role and a       *)
(* place in the org/workspace/project tree, API tokens bound to them, and  *)
(* the authentication every request of the other cloud modules starts      *)
(* with.  A request is a caller that moves through the program counter     *)
(* call[c].pc; between two of its database calls the others run.           *)
(* Source: src/internal/cloud/auth.go, membership_api.go, router.go.       *)
(*                                                                         *)
(* Left out: the audit table (written last by every handler and read only  *)
(* by its listing), names, e-mail addresses and timestamps of use, and the *)
(* creation of orgs, workspaces and projects, whose rows never change.     *)
(***************************************************************************)
EXTENDS Integers, FiniteSets

CONSTANTS
    Callers,     \* requests that may be in flight together
    TokenIds,    \* ids of API tokens
    MemberIds,   \* ids of memberships
    Targets,     \* places: records [org, ws, prj], "" where unset
    Bootstrap,   \* tokens left by cloudctl bootstrap: id -> [at, member]
    Requested,   \* the sets of scopes a caller asks for
    Scenarios,   \* bound: [ops, from, on], operations that run against each
                 \* other, their callers and the installations they are on
    None

ASSUME PlacesAreRecords == Targets \subseteq [org : STRING, ws : STRING, prj : STRING]
ASSUME BootstrapIsKnown == /\ DOMAIN Bootstrap \subseteq TokenIds
                           /\ \A t \in DOMAIN Bootstrap : /\ Bootstrap[t].at \in Targets
                                                         /\ Bootstrap[t].member \in MemberIds \cup {None}

VARIABLES
    members,  \* MemberIds -> [at, role, active] or None
    tokens,   \* TokenIds -> [at, member, scopes, revoked, by] or None; by is
              \* the token whose request made it, a history value
    call,     \* Callers -> the request's local state
    scene     \* the scenario of this behaviour

accessVars == <<members, tokens, call, scene>>

Idle == [pc |-> "idle"]

\* The scopes the modelled operations ask for, per role.
roleScopeAllowlist ==
    LET operate == {"tokens:write", "installations:write", "runtime_connectors:write",
                    "runtime_instances:read", "runs:write"}
    IN  [org_owner        |-> {"*"},
         org_admin        |-> operate \cup {"memberships:write"},
         workspace_admin  |-> operate \cup {"memberships:write"},
         project_operator |-> operate,
         project_viewer   |-> {"runtime_instances:read"}]

Roles == DOMAIN roleScopeAllowlist

\* The rows of the two tables; None is none of them.
MemberRows == [at : Targets, role : Roles, active : BOOLEAN]
TokenRows == [at : Targets, member : MemberIds \cup {None},
              scopes : Requested \cup {roleScopeAllowlist[r] : r \in Roles},
              revoked : BOOLEAN, by : TokenIds \cup {None}]

ASSUME NoneIsNoRow == None \notin MemberRows \cup TokenRows

scopeAllowed(scopes, s) == "*" \in scopes \/ s \in scopes

\* The scope each operation of the API asks its token for.
requiredScope ==
    [token    |-> "tokens:write",       revoke  |-> "tokens:write",
     member   |-> "memberships:write",  suspend |-> "memberships:write",
     resume   |-> "memberships:write",
     install  |-> "installations:write", validate  |-> "installations:write",
     switchOn |-> "installations:write", switchOff |-> "installations:write",
     action   |-> "installations:write",
     claim    |-> "runtime_connectors:write", enable  |-> "runtime_connectors:write",
     sync     |-> "runtime_connectors:write", disable |-> "runtime_connectors:write",
     start    |-> "runs:write",          startByTool |-> "runs:write"]

-----------------------------------------------------------------------------
(* What a token may reach *)

\* A principal p is a token joined with its membership; None has no say.
within(p, at) ==
    LET free(f) == p[f] = ""
    IN  /\ p.org = "" \/ at.org = "" \/ p.org = at.org
        /\ p.ws = "" \/ at.ws = "" \/ p.ws = at.ws
        /\ p.prj = "" \/ at.prj = "" \/ p.prj = at.prj
        /\ free("ws") \/ at.ws # "" \/ at.prj # ""
        /\ free("prj") \/ at.prj # ""

MembershipAllowsTarget(m, at) == within(m.at, at)

TokenAllowsTarget(p, at) ==
    /\ within(p.at, at)
    /\ p.home.ws = "" \/ at.ws = "" \/ p.home.ws = at.ws
    /\ p.home.ws = "" \/ at.ws # "" \/ at.prj # ""
    /\ p.home.prj = "" \/ p.home.prj = at.prj

TokenHasScope(p, s) ==
    /\ p.role = "" \/ scopeAllowed(roleScopeAllowlist[p.role], s)
    /\ {"*", "cloud:admin", s} \cap p.scopes # {}

\* The scopes a token of this role gets, None when the request is refused.
ClampScopesForRole(role, want) ==
    LET allowed == roleScopeAllowlist[role]
    IN  IF want = {} THEN allowed
        ELSE IF \A s \in want : scopeAllowed(allowed, s) THEN want ELSE None

canManageMembershipRole(p, role, at) ==
    CASE p.role = ""                -> TokenHasScope(p, "cloud:admin")
      [] p.role = "org_owner"       -> TRUE
      [] p.role = "org_admin"       -> role # "org_owner"
      [] p.role = "workspace_admin" -> /\ at.ws # "" /\ at.prj # ""
                                       /\ role \in {"project_operator", "project_viewer"}
      [] OTHER                      -> FALSE

-----------------------------------------------------------------------------
(* Authentication: two reads, the token and then its membership *)

Anywhere == [org |-> "", ws |-> "", prj |-> ""]

principal(t, row, m) ==
    [id |-> t, at |-> row.at, member |-> row.member, scopes |-> row.scopes,
     role |-> IF m = None THEN "" ELSE m.role,
     home |-> IF m = None THEN Anywhere ELSE m.at]

admitted(c, op, p) ==
    IF TokenHasScope(p, requiredScope[op])
    THEN call' = [call EXCEPT ![c] = [pc |-> "authed", op |-> op, who |-> p]]
    ELSE call' = [call EXCEPT ![c] = Idle]

\* LookupAPIToken; a revoked or unknown token is refused and leaves no trace.
LookupAPIToken(c, t, op) ==
    /\ call[c] = Idle /\ c \in scene.from /\ op \in scene.ops \cap DOMAIN requiredScope
    /\ tokens[t] # None /\ ~tokens[t].revoked
    /\ IF tokens[t].member = None
       THEN admitted(c, op, principal(t, tokens[t], None))
       ELSE call' = [call EXCEPT ![c] = [pc |-> "member", op |-> op, t |-> t, row |-> tokens[t]]]
    /\ UNCHANGED <<members, tokens, scene>>

\* The second half of authenticateToken, with the token row read before.
GetMembership(c) ==
    /\ call[c].pc = "member"
    /\ LET m == members[call[c].row.member]
       IN  IF m # None /\ m.active
           THEN admitted(c, call[c].op, principal(call[c].t, call[c].row, m))
           ELSE call' = [call EXCEPT ![c] = Idle]
    /\ UNCHANGED <<members, tokens, scene>>

authed(c, op) == call[c].pc = "authed" /\ call[c].op = op
answer(c) == call' = [call EXCEPT ![c] = Idle]

\* Ids are random: which unused one a row gets does not matter.
fresh(table) == {id \in DOMAIN table : table[id] = None}
newId(table) == CHOOSE id \in fresh(table) : TRUE

-----------------------------------------------------------------------------
(* Tokens *)

\* Mutant: a token made without naming a membership is bound to none.
boundMemberMutant(p, m) == m

\* The membership a new token is bound to: the one asked for, else the caller's own.
boundMember(p, m) == IF m = None THEN p.member ELSE m

\* The row CreateAPIToken inserts, None when the request is refused.
newToken(p, at, m, want) ==
    LET id == boundMember(p, m)
        row(scopes) == [at |-> at, member |-> id, scopes |-> scopes, revoked |-> FALSE, by |-> p.id]
    IN  IF ~TokenAllowsTarget(p, at) \/ at.org = "" THEN None
        ELSE IF id = None THEN row(want)
        ELSE IF \/ members[id] = None \/ ~members[id].active
                \/ ~TokenAllowsTarget(p, members[id].at)
                \/ ~MembershipAllowsTarget(members[id], at)
                \/ ClampScopesForRole(members[id].role, want) = None
        THEN None
        ELSE row(ClampScopesForRole(members[id].role, want))

CreateAPIToken(row) == fresh(tokens) # {} /\ tokens' = [tokens EXCEPT ![newId(tokens)] = row]

handleTokens(c) ==
    /\ authed(c, "token")
    /\ \E at \in Targets, m \in MemberIds \cup {None}, want \in Requested :
         LET row == newToken(call[c].who, at, m, want)
         IN  IF row = None THEN UNCHANGED tokens
             ELSE CreateAPIToken(row)
    /\ answer(c) /\ UNCHANGED <<members, scene>>

\* Touches its own columns only, so no stale copy undoes it.
RevokeAPIToken(t) == tokens' = [tokens EXCEPT ![t].revoked = TRUE]

\* The row as the store reads it.
GetAPIToken(t) == tokens[t]

handleTokenByID(c) ==
    /\ authed(c, "revoke")
    /\ \E t \in TokenIds :
         /\ GetAPIToken(t) # None
         /\ IF TokenAllowsTarget(call[c].who, GetAPIToken(t).at)
            THEN RevokeAPIToken(t)
            ELSE UNCHANGED tokens
    /\ answer(c) /\ UNCHANGED <<members, scene>>

-----------------------------------------------------------------------------
(* Memberships *)

CreateMembership(id, row) == members' = [members EXCEPT ![id] = row]

handleMemberships(c) ==
    /\ authed(c, "member")
    /\ \E at \in Targets, role \in Roles :
         /\ at.org # ""
         /\ IF /\ TokenAllowsTarget(call[c].who, at)
               /\ canManageMembershipRole(call[c].who, role, at)
            THEN /\ fresh(members) # {}
                 /\ CreateMembership(newId(members), [at |-> at, role |-> role, active |-> TRUE])
            ELSE UNCHANGED members
    /\ answer(c) /\ UNCHANGED <<tokens, scene>>

\* enable and disable read the row, then write all of it back.
loadMembership(c) ==
    /\ call[c].pc = "authed" /\ call[c].op \in {"suspend", "resume"}
    /\ \E id \in MemberIds :
         /\ members[id] # None
         /\ call' = [call EXCEPT ![c] =
              IF /\ TokenAllowsTarget(call[c].who, members[id].at)
                 /\ canManageMembershipRole(call[c].who, members[id].role, members[id].at)
              THEN [pc |-> "rewrite", op |-> call[c].op, id |-> id, row |-> members[id]]
              ELSE Idle]
    /\ UNCHANGED <<members, tokens, scene>>

handleMembershipByID(c) ==
    /\ call[c].pc = "rewrite"
    /\ CreateMembership(call[c].id, [call[c].row EXCEPT !.active = (call[c].op = "resume")])
    /\ answer(c) /\ UNCHANGED <<tokens, scene>>

-----------------------------------------------------------------------------

\* cloudctl bootstrap leaves an owner's membership and a token bound to it; a
\* token without a membership stems from a database older than memberships.
runBootstrap ==
    /\ members = [m \in MemberIds |->
         IF \E t \in DOMAIN Bootstrap : Bootstrap[t].member = m
         THEN [at |-> Bootstrap[CHOOSE t \in DOMAIN Bootstrap : Bootstrap[t].member = m].at,
               role |-> "org_owner", active |-> TRUE]
         ELSE None]
    /\ tokens = [t \in TokenIds |->
         IF t \in DOMAIN Bootstrap
         THEN [at |-> Bootstrap[t].at, member |-> Bootstrap[t].member, scopes |-> {"*"},
               revoked |-> FALSE, by |-> None]
         ELSE None]

accessInit ==
    /\ runBootstrap
    /\ call = [c \in Callers |-> Idle]
    /\ scene \in Scenarios

accessStep(c) ==
    \/ handleTokens(c) \/ handleTokenByID(c)
    \/ handleMemberships(c) \/ loadMembership(c) \/ handleMembershipByID(c)

authStep(c) ==
    \/ \E t \in TokenIds, op \in scene.ops : LookupAPIToken(c, t, op)
    \/ GetMembership(c)

-----------------------------------------------------------------------------

\* A member cannot shed his membership: whatever is made, over any number of
\* requests, with a token bound to a membership is bound to one itself and
\* holds no scope that membership's role does not grant, so that disabling
\* members stops every token they ever handed out.
MemberTokensStayBound ==
    \A t \in TokenIds :
      LET row == tokens[t]
      IN  (row # None /\ row.by # None /\ tokens[row.by].member # None)
            => /\ row.member # None
               /\ \A s \in row.scopes : scopeAllowed(roleScopeAllowlist[members[row.member].role], s)

====
