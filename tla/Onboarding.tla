------------------------------ MODULE Onboarding ------------------------------
(***************************************************************************)
(* From a login to a connected machine: the command line client           *)
(* (cmd/codencer/main.go, internal/connectorops), the gateway's accounts   *)
(* (internal/gateway/api.go, store.go) and the relay's enrollment          *)
(* (internal/relay/enrollment_service.go, store/store.go).                 *)
(*                                                                         *)
(* The client asks the gateway for a device code, a person approves it, a  *)
(* poll turns it into an access token; with the token the client gets a    *)
(* binding and a one-time secret, enrolls at the relay, and completes the  *)
(* binding; the connector then opens its session with a signed challenge.  *)
(* Each action is one statement of a store or one file that is written;    *)
(* a request that fails between two of them leaves what was done. Ids are  *)
(* numbered in the order in which rows are inserted.                       *)
(***************************************************************************)
EXTENDS Naturals, Sequences, FiniteSets

CONSTANTS
  Machines, Approvals, Sockets, None,
  EmailOf,         \* EmailOf[m]: the address the person at m logs in with
  Profiles,        \* relay profiles, "default" among them
  Budgets          \* bounds on the rows of each table and on the approvals at a
                   \* time, as alternatives

Emails == {EmailOf[m] : m \in Machines}

ASSUME OnboardingConstants ==
  /\ "default" \in Profiles
  /\ \A b \in Budgets :
       b \in [codes : Nat, approvals : Nat, tokens : Nat, bindings : Nat, secrets : Nat,
              connectors : Nat, challenges : Nat, toggles : Nat]

VARIABLES
  code,       \* table device_codes: [status, email, ws]
  users,      \* table users, by email
  workspace,  \* table workspaces: the owner's email, kind personal
  profile,    \* table relay_profiles: workspace and id
  token,      \* table access_tokens: [ws, email, revoked]
  machine,    \* table machines: the workspace a machine is in
  binding,    \* table connector_bindings: [ws, machine, connector]
  secret,     \* table enrollment_tokens of the relay: TRUE once consumed
  connector,  \* table connectors of the relay: [machine, secret, disabled, seen]
  challenge,  \* table connector_challenges: [connector, live, admitted]
  session,    \* session.json of a machine: a token
  config,     \* connector config of a machine: a connector
  cli,        \* the command that runs at a machine
  approval,   \* the approvals under way
  hello,      \* the websockets whose hello is being verified
  toggles,    \* codes that expired and connectors that were switched
  budget      \* the bounds of this behaviour

gatewayVars == <<code, users, workspace, profile, token, machine, binding>>
relayVars == <<secret, connector, challenge>>
files == <<session, config>>
vars == <<gatewayVars, relayVars, files, cli, approval, hello, toggles, budget>>

NoCommand == [pc |-> "idle", code |-> None, token |-> None, binding |-> None,
              secret |-> None, connector |-> None]
NoApproval == [pc |-> "idle", code |-> None, ws |-> None]
NoHello == [pc |-> "idle", connector |-> None, challenge |-> None]

\* The secret of the relay's configuration, which is never consumed.
EnrollmentSecret == 0

-----------------------------------------------------------------------------
(* codencer login *)

\* runLogin, handleDeviceAuthorize, CreateDeviceAuthorization.
CreateDeviceAuthorization(m) ==
  /\ cli[m].pc = "idle"
  /\ Len(code) < budget.codes
  /\ code' = Append(code, [status |-> "pending", email |-> EmailOf[m], ws |-> None])
  /\ cli' = [cli EXCEPT ![m] = [NoCommand EXCEPT !.pc = "polling", !.code = Len(code) + 1]]
  /\ UNCHANGED <<users, workspace, profile, token, machine, binding, relayVars, files,
                 approval, hello, toggles>>

\* handleDeviceApprove, handleDevicePage: ApproveDeviceCode reads the code.
ApproveDeviceCode(a) ==
  \E c \in DOMAIN code :
    /\ approval[a].pc = "idle"
    /\ Cardinality({other \in Approvals : approval[other].pc # "idle"}) < budget.approvals
    /\ code[c].status = "pending"
    /\ approval' = [approval EXCEPT ![a] = [NoApproval EXCEPT !.pc = "user", !.code = c]]
    /\ UNCHANGED <<gatewayVars, relayVars, files, cli, hello, toggles>>

approves(a) == code[approval[a].code].email

stepTo(a, pc) == approval' = [approval EXCEPT ![a].pc = pc]

\* EnsureUserWorkspace: the user is looked up by email.
EnsureUserWorkspace(a) ==
  /\ approval[a].pc = "user"
  /\ stepTo(a, IF approves(a) \in users THEN "workspace" ELSE "newUser")
  /\ UNCHANGED <<gatewayVars, relayVars, files, cli, hello, toggles>>

\* The email of a user is unique: a second insert fails, and the approval.
insertUser(a) ==
  /\ approval[a].pc = "newUser"
  /\ users' = users \cup {approves(a)}
  /\ IF approves(a) \in users THEN approval' = [approval EXCEPT ![a] = NoApproval]
     ELSE stepTo(a, "workspace")
  /\ UNCHANGED <<code, workspace, profile, token, machine, binding, relayVars, files,
                 cli, hello, toggles>>

\* ensurePersonalWorkspace: any one workspace of the user, if there is one.
ensurePersonalWorkspace(a) ==
  LET own == {w \in DOMAIN workspace : workspace[w] = approves(a)} IN
  /\ approval[a].pc = "workspace"
  /\ IF own = {} THEN stepTo(a, "newWorkspace")
     ELSE \E w \in own : approval' = [approval EXCEPT ![a].pc = "profile", ![a].ws = w]
  /\ UNCHANGED <<gatewayVars, relayVars, files, cli, hello, toggles>>

\* Nothing keeps an owner from having two.
insertWorkspace(a) ==
  /\ approval[a].pc = "newWorkspace"
  /\ workspace' = Append(workspace, approves(a))
  /\ approval' = [approval EXCEPT ![a].pc = "profile", ![a].ws = Len(workspace) + 1]
  /\ UNCHANGED <<code, users, profile, token, machine, binding, relayVars, files,
                 cli, hello, toggles>>

\* Mutant: a failure to store the profile is not noticed.
EnsureDefaultRelayProfileTried(a) ==
  /\ approval[a].pc = "profile"
  /\ profile' \in {profile, profile \cup {<<approval[a].ws, "default">>}}
  /\ stepTo(a, "mark")
  /\ UNCHANGED <<code, users, workspace, token, machine, binding, relayVars, files,
                 cli, hello, toggles>>

\* EnsureDefaultRelayProfile
EnsureDefaultRelayProfile(a) ==
  /\ approval[a].pc = "profile"
  /\ profile' = profile \cup {<<approval[a].ws, "default">>}
  /\ stepTo(a, "mark")
  /\ UNCHANGED <<code, users, workspace, token, machine, binding, relayVars, files,
                 cli, hello, toggles>>

\* The code is marked approved whatever its state is by now.
markApproved(a) ==
  /\ approval[a].pc = "mark"
  /\ code' = [code EXCEPT ![approval[a].code] =
               [@ EXCEPT !.status = "approved", !.ws = approval[a].ws]]
  /\ approval' = [approval EXCEPT ![a] = NoApproval]
  /\ UNCHANGED <<users, workspace, profile, token, machine, binding, relayVars, files,
                 cli, hello, toggles>>

\* A statement fails or the browser goes away.
approvalFails(a) ==
  /\ approval[a].pc # "idle"
  /\ approval' = [approval EXCEPT ![a] = NoApproval]
  /\ UNCHANGED <<gatewayVars, relayVars, files, cli, hello, toggles>>

\* A code that nobody used in time; whoever looks at it next marks it.
codeExpires(c) ==
  /\ code[c].status \in {"pending", "approved"}
  /\ toggles < budget.toggles
  /\ toggles' = toggles + 1
  /\ code' = [code EXCEPT ![c].status = "expired"]
  /\ UNCHANGED <<users, workspace, profile, token, machine, binding, relayVars, files,
                 cli, approval, hello>>

\* handleDeviceToken, PollDeviceToken: a token for an approved code, which is
\* not used up; the answer may be lost.
PollDeviceToken(m) ==
  LET c == cli[m].code IN
  /\ cli[m].pc = "polling"
  /\ code[c].status # "pending"
  /\ IF code[c].status = "approved"
     THEN /\ Len(token) < budget.tokens
          /\ token' = Append(token, [ws |-> code[c].ws, email |-> code[c].email, revoked |-> FALSE])
          /\ \/ cli' = [cli EXCEPT ![m] = [NoCommand EXCEPT !.pc = "granted", !.token = Len(token) + 1]]
             \/ cli' = [cli EXCEPT ![m] = NoCommand]
     ELSE /\ cli' = [cli EXCEPT ![m] = NoCommand]
          /\ UNCHANGED token
  /\ UNCHANGED <<code, users, workspace, profile, machine, binding, relayVars, files,
                 approval, hello, toggles>>

\* SaveSession: written beside and renamed over the old file.
SaveSession(m) ==
  /\ cli[m].pc = "granted"
  /\ session' = [session EXCEPT ![m] = cli[m].token]
  /\ cli' = [cli EXCEPT ![m] = NoCommand]
  /\ UNCHANGED <<gatewayVars, relayVars, config, approval, hello, toggles>>

\* LookupAccessToken, authenticate
LookupAccessToken(t) == t # None /\ ~token[t].revoked

\* runLogout: the token is revoked if the gateway can be reached...
RevokeAccessToken(m) ==
  /\ cli[m].pc = "idle"
  /\ session[m] # None
  /\ \/ token' = [token EXCEPT ![session[m]].revoked = TRUE]
     \/ UNCHANGED token
  /\ cli' = [cli EXCEPT ![m].pc = "leaving"]
  /\ UNCHANGED <<code, users, workspace, profile, machine, binding, relayVars, files,
                 approval, hello, toggles>>

\* ... and the session is removed in any case.
RemoveSession(m) ==
  /\ cli[m].pc = "leaving"
  /\ session' = [session EXCEPT ![m] = None]
  /\ cli' = [cli EXCEPT ![m] = NoCommand]
  /\ UNCHANGED <<gatewayVars, relayVars, config, approval, hello, toggles>>

\* handleRelays: a profile is added to the workspace of the caller.
UpsertRelayProfile(m) ==
  \E id \in Profiles :
    /\ cli[m].pc = "idle"
    /\ LookupAccessToken(session[m])
    /\ profile' = profile \cup {<<token[session[m]].ws, id>>}
    /\ UNCHANGED <<code, users, workspace, token, machine, binding, relayVars, files, cli,
                   approval, hello, toggles>>

\* handleRelayByID: one is removed, never the default one.
RemoveRelayProfile(m) ==
  \E id \in Profiles \ {"default"} :
    /\ cli[m].pc = "idle"
    /\ LookupAccessToken(session[m])
    /\ profile' = profile \ {<<token[session[m]].ws, id>>}
    /\ UNCHANGED <<code, users, workspace, token, machine, binding, relayVars, files, cli,
                   approval, hello, toggles>>

-----------------------------------------------------------------------------
(* codencer connector login *)

cliTo(m, pc) == cli' = [cli EXCEPT ![m].pc = pc]
cliFails(m) == cli' = [cli EXCEPT ![m] = NoCommand]

\* runConnectorLogin, handleConnectorLogin, UpsertMachine: the machine moves
\* to the workspace of the caller.
UpsertMachine(m) ==
  /\ cli[m].pc = "idle"
  /\ session[m] # None
  /\ IF LookupAccessToken(session[m])
     THEN /\ machine' = [machine EXCEPT ![m] = token[session[m]].ws]
          /\ cli' = [cli EXCEPT ![m] = [NoCommand EXCEPT !.pc = "binding", !.token = session[m]]]
     ELSE UNCHANGED <<machine, cli>>
  /\ UNCHANGED <<code, users, workspace, profile, token, binding, relayVars, files,
                 approval, hello, toggles>>

\* GetRelayProfile, CreateConnectorBinding
CreateConnectorBinding(m) ==
  LET ws == token[cli[m].token].ws IN
  /\ cli[m].pc = "binding"
  /\ IF <<ws, "default">> \in profile
     THEN /\ Len(binding) < budget.bindings
          /\ binding' = Append(binding, [ws |-> ws, machine |-> m, connector |-> None])
          /\ cli' = [cli EXCEPT ![m].pc = "secret", ![m].binding = Len(binding) + 1]
     ELSE UNCHANGED binding /\ cliFails(m)
  /\ UNCHANGED <<code, users, workspace, profile, token, machine, relayVars, files,
                 approval, hello, toggles>>

\* The relay's new row, unconsumed.
CreateEnrollmentToken == secret' = Append(secret, FALSE)

\* createRelayEnrollmentToken: the relay may be down, and then the binding
\* stays pending.
createRelayEnrollmentToken(m) ==
  /\ cli[m].pc = "secret"
  /\ \/ /\ Len(secret) < budget.secrets
        /\ CreateEnrollmentToken
        /\ cli' = [cli EXCEPT ![m].pc = "select", ![m].secret = Len(secret) + 1]
     \/ UNCHANGED secret /\ cliFails(m)
  /\ UNCHANGED <<gatewayVars, connector, challenge, files, approval, hello, toggles>>

\* connectorops.Enroll with a token that was handed over by other means.
Enroll(m) ==
  \E s \in {EnrollmentSecret} \cup DOMAIN secret :
    /\ cli[m].pc = "idle"
    /\ Len(connector) < budget.connectors
    /\ cli' = [cli EXCEPT ![m] = [NoCommand EXCEPT
                !.pc = IF s = EnrollmentSecret THEN "save" ELSE "select", !.secret = s]]
    /\ UNCHANGED <<gatewayVars, relayVars, files, approval, hello, toggles>>

\* ConsumeEnrollmentToken reads the token in a transaction...
selectEnrollmentToken(m) ==
  /\ cli[m].pc = "select"
  /\ IF secret[cli[m].secret] THEN cliFails(m) ELSE cliTo(m, "consume")
  /\ UNCHANGED <<gatewayVars, relayVars, files, approval, hello, toggles>>

\* Mutant: the update does not belong to the transaction that read.
ConsumeEnrollmentTokenBlindly(m) ==
  /\ cli[m].pc = "consume"
  /\ secret' = [secret EXCEPT ![cli[m].secret] = TRUE]
  /\ cliTo(m, "save")
  /\ UNCHANGED <<gatewayVars, connector, challenge, files, approval, hello, toggles>>

\* ... whose update fails if the token was written since then.
ConsumeEnrollmentToken(m) ==
  /\ cli[m].pc = "consume"
  /\ secret' = [secret EXCEPT ![cli[m].secret] = TRUE]
  /\ IF secret[cli[m].secret] THEN cliFails(m) ELSE cliTo(m, "save")
  /\ UNCHANGED <<gatewayVars, connector, challenge, files, approval, hello, toggles>>

\* SaveConnectorRecord, in a statement of its own.
SaveConnectorRecord(m) ==
  /\ cli[m].pc = "save"
  /\ Len(connector) < budget.connectors
  /\ connector' = Append(connector, [machine |-> m, secret |-> cli[m].secret,
                                     disabled |-> FALSE, seen |-> FALSE])
  /\ cli' = [cli EXCEPT ![m].pc = "enrolled", ![m].connector = Len(connector) + 1]
  /\ UNCHANGED <<gatewayVars, secret, challenge, files, approval, hello, toggles>>

\* SaveConfig: the identity the relay has assigned.
SaveConfig(m) ==
  /\ cli[m].pc = "enrolled"
  /\ config' = [config EXCEPT ![m] = cli[m].connector]
  /\ IF cli[m].binding = None THEN cliFails(m) ELSE cliTo(m, "complete")
  /\ UNCHANGED <<gatewayVars, relayVars, session, approval, hello, toggles>>

\* Mutant: the binding that was made last is completed.
CompleteLastBinding(m) ==
  LET b == Len(binding) IN
  /\ cli[m].pc = "complete"
  /\ IF LookupAccessToken(cli[m].token) /\ binding[b].ws = token[cli[m].token].ws
     THEN binding' = [binding EXCEPT ![b].connector = cli[m].connector]
     ELSE UNCHANGED binding
  /\ cliFails(m)
  /\ UNCHANGED <<code, users, workspace, profile, token, machine, relayVars, files,
                 approval, hello, toggles>>

\* handleConnectorComplete, CompleteConnectorBinding
CompleteConnectorBinding(m) ==
  LET b == cli[m].binding IN
  /\ cli[m].pc = "complete"
  /\ IF LookupAccessToken(cli[m].token) /\ binding[b].ws = token[cli[m].token].ws
     THEN binding' = [binding EXCEPT ![b].connector = cli[m].connector]
     ELSE UNCHANGED binding
  /\ cliFails(m)
  /\ UNCHANGED <<code, users, workspace, profile, token, machine, relayVars, files,
                 approval, hello, toggles>>

\* The command is interrupted or an answer does not come.
commandFails(m) ==
  /\ cli[m].pc # "idle"
  /\ cliFails(m)
  /\ UNCHANGED <<gatewayVars, relayVars, files, approval, hello, toggles>>

-----------------------------------------------------------------------------
(* The connector's session *)

\* CreateChallenge for the identity of a machine's config.
CreateChallenge(m) ==
  LET k == config[m] IN
  /\ k # None
  /\ ~connector[k].disabled
  /\ Len(challenge) < budget.challenges
  /\ challenge' = Append(challenge, [connector |-> k, live |-> TRUE, admitted |-> 0])
  /\ UNCHANGED <<gatewayVars, secret, connector, files, cli, approval, hello, toggles>>

\* A hello arrives, the first one for its challenge or one more: VerifyHello
\* reads the connector.
VerifyHello(k) ==
  \E x \in DOMAIN challenge :
    /\ hello[k].pc = "idle"
    /\ ~connector[challenge[x].connector].disabled
    /\ hello' = [hello EXCEPT ![k] =
         [pc |-> "read", connector |-> challenge[x].connector, challenge |-> x]]
    /\ UNCHANGED <<gatewayVars, relayVars, files, cli, approval, toggles>>

\* ConsumeChallenge reads the challenge in a transaction...
selectChallenge(k) ==
  /\ hello[k].pc = "read"
  /\ hello' = IF challenge[hello[k].challenge].live
              THEN [hello EXCEPT ![k].pc = "consume"]
              ELSE [hello EXCEPT ![k] = NoHello]
  /\ UNCHANGED <<gatewayVars, relayVars, files, cli, approval, toggles>>

\* Mutant: the delete does not belong to the transaction that read.
ConsumeChallengeBlindly(k) ==
  /\ hello[k].pc = "consume"
  /\ challenge' = [challenge EXCEPT ![hello[k].challenge].live = FALSE]
  /\ hello' = [hello EXCEPT ![k].pc = "check"]
  /\ UNCHANGED <<gatewayVars, secret, connector, files, cli, approval, toggles>>

\* ... whose delete fails if the challenge has gone since then.
ConsumeChallenge(k) ==
  /\ hello[k].pc = "consume"
  /\ challenge' = [challenge EXCEPT ![hello[k].challenge].live = FALSE]
  /\ hello' = IF challenge[hello[k].challenge].live
              THEN [hello EXCEPT ![k].pc = "check"]
              ELSE [hello EXCEPT ![k] = NoHello]
  /\ UNCHANGED <<gatewayVars, secret, connector, files, cli, approval, toggles>>

\* The time limit and the signature are right or not; MarkConnectorSeen.
MarkConnectorSeen(k) ==
  /\ hello[k].pc = "check"
  /\ \/ /\ challenge' = [challenge EXCEPT ![hello[k].challenge].admitted = @ + 1]
        /\ connector' = [connector EXCEPT ![hello[k].connector].seen = TRUE]
     \/ UNCHANGED <<challenge, connector>>
  /\ hello' = [hello EXCEPT ![k] = NoHello]
  /\ UNCHANGED <<gatewayVars, secret, files, cli, approval, toggles>>

\* SetConnectorDisabled, by the operator of the relay.
SetConnectorDisabled(k) ==
  /\ toggles < budget.toggles
  /\ toggles' = toggles + 1
  /\ connector' = [connector EXCEPT ![k].disabled = ~@]
  /\ UNCHANGED <<gatewayVars, secret, challenge, files, cli, approval, hello>>

-----------------------------------------------------------------------------
Init ==
  /\ code = <<>> /\ users = {} /\ workspace = <<>> /\ profile = {} /\ token = <<>>
  /\ machine = [m \in Machines |-> None]
  /\ binding = <<>> /\ secret = <<>> /\ connector = <<>> /\ challenge = <<>>
  /\ session = [m \in Machines |-> None]
  /\ config = [m \in Machines |-> None]
  /\ cli = [m \in Machines |-> NoCommand]
  /\ approval = [a \in Approvals |-> NoApproval]
  /\ hello = [k \in Sockets |-> NoHello]
  /\ toggles = 0
  /\ budget \in Budgets

Login(m) ==
  \/ CreateDeviceAuthorization(m) \/ PollDeviceToken(m) \/ SaveSession(m)
  \/ RevokeAccessToken(m) \/ RemoveSession(m)
  \/ UpsertRelayProfile(m) \/ RemoveRelayProfile(m)

Connect(m) ==
  \/ UpsertMachine(m) \/ CreateConnectorBinding(m) \/ createRelayEnrollmentToken(m)
  \/ Enroll(m) \/ selectEnrollmentToken(m) \/ ConsumeEnrollmentToken(m)
  \/ SaveConnectorRecord(m) \/ SaveConfig(m) \/ CompleteConnectorBinding(m)
  \/ CreateChallenge(m)

Approve(a) ==
  \/ ApproveDeviceCode(a) \/ EnsureUserWorkspace(a) \/ insertUser(a)
  \/ ensurePersonalWorkspace(a) \/ insertWorkspace(a) \/ EnsureDefaultRelayProfile(a)
  \/ markApproved(a) \/ approvalFails(a)

Open(k) ==
  \/ VerifyHello(k) \/ selectChallenge(k) \/ ConsumeChallenge(k) \/ MarkConnectorSeen(k)

Next ==
  /\ budget' = budget
  /\ \/ \E m \in Machines : Login(m) \/ Connect(m) \/ commandFails(m)
     \/ \E a \in Approvals : Approve(a)
     \/ \E k \in Sockets : Open(k)
     \/ \E c \in DOMAIN code : codeExpires(c)
     \/ \E k \in DOMAIN connector : SetConnectorDisabled(k)

Spec == Init /\ [][Next]_vars

-----------------------------------------------------------------------------
\* Every token opens a workspace of the person who was approved, and that
\* workspace has the relay a connector login needs, although approvals of one
\* person overlap, fail half-way and are repeated (ApproveDeviceCode,
\* EnsureUserWorkspace, PollDeviceToken, RemoveRelayProfile).
TokenReachesRelay ==
  \A t \in DOMAIN token :
    /\ token[t].ws \in DOMAIN workspace
    /\ workspace[token[t].ws] = token[t].email
    /\ <<token[t].ws, "default">> \in profile

\* A one-time secret enrolls one connector, whoever presents it at the same
\* time (Enroll, ConsumeEnrollmentToken).
OneConnectorPerToken ==
  \A i, j \in DOMAIN connector :
    (connector[i].secret = connector[j].secret /\ i # j) => connector[i].secret = EnrollmentSecret

\* A challenge admits one hello (VerifyHello, ConsumeChallenge).
ChallengeAdmitsOnce == \A x \in DOMAIN challenge : challenge[x].admitted <= 1

\* A binding that is complete names a connector the relay knows, with the
\* key of the machine the binding was made for, and the secret of no other
\* binding (handleConnectorLogin, Enroll, handleConnectorComplete).
BindingNamesItsConnector ==
  \A b \in DOMAIN binding : LET k == binding[b].connector IN
    k # None =>
      /\ k \in DOMAIN connector
      /\ connector[k].machine = binding[b].machine
      /\ \A b2 \in DOMAIN binding \ {b} : binding[b2].connector # k
=============================================================================
