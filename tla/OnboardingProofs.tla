-------------------------- MODULE OnboardingProofs --------------------------
(***************************************************************************)
(* Theorems about Onboarding for any number of machines, people, approvals *)
(* and sockets, and for tables of any size.                                *)
(*                                                                         *)
(* The invariants of the specification speak of the tables; what keeps     *)
(* them is what the requests under way have read and not yet written.  A   *)
(* request is therefore described by what is true at its program counter:  *)
(* an approval that is about to mark its code has a workspace with a       *)
(* relay, an enrollment that is about to store a connector is the only one *)
(* that consumed its secret, a hello that is about to be admitted is the   *)
(* only one that consumed its challenge, and a command that is about to    *)
(* complete its binding has a connector no binding names.                  *)
(***************************************************************************)
EXTENDS Onboarding, SequenceTheorems, TLAPS

-----------------------------------------------------------------------------
(* Types.  An id is a position of its table or None. *)

Ids == Nat \cup {None}

CodeRows == [status : {"pending", "approved", "expired"}, email : Emails, ws : Ids]
TokenRows == [ws : Ids, email : Emails, revoked : BOOLEAN]
BindingRows == [ws : Ids, machine : Machines, connector : Ids]
ConnectorRows == [machine : Machines, secret : Ids, disabled : BOOLEAN, seen : BOOLEAN]
ChallengeRows == [connector : Ids, live : BOOLEAN, admitted : Nat]

Commands ==
  [pc : {"idle", "polling", "granted", "leaving", "binding", "secret", "select",
         "consume", "save", "enrolled", "complete"},
   code : Ids, token : Ids, binding : Ids, secret : Ids, connector : Ids]
ApprovalStates ==
  [pc : {"idle", "user", "newUser", "workspace", "newWorkspace", "profile", "mark"},
   code : Ids, ws : Ids]
HelloStates == [pc : {"idle", "read", "consume", "check"}, connector : Ids, challenge : Ids]

CommandsTyped == cli \in [Machines -> Commands]
AccountsTyped == /\ code \in Seq(CodeRows)
                 /\ workspace \in Seq(Emails)
                 /\ token \in Seq(TokenRows)
                 /\ session \in [Machines -> Ids]
                 /\ approval \in [Approvals -> ApprovalStates]
BindingsTyped == binding \in Seq(BindingRows)
EnrollmentTyped == /\ secret \in Seq(BOOLEAN)
                   /\ connector \in Seq(ConnectorRows)
                   /\ config \in [Machines -> Ids]
ChallengesTyped == /\ challenge \in Seq(ChallengeRows)
                   /\ hello \in [Sockets -> HelloStates]

-----------------------------------------------------------------------------
(* What the requests under way rely on *)

\* Workspace ws is one of the person's own and has a relay to connect to.
Reaches(ws, email) ==
  /\ ws \in DOMAIN workspace
  /\ workspace[ws] = email
  /\ <<ws, "default">> \in profile

ApprovalKnows(a) ==
  /\ approval[a].pc # "idle" => approval[a].code \in DOMAIN code
  /\ approval[a].pc \in {"profile", "mark"} =>
       /\ approval[a].ws \in DOMAIN workspace
       /\ workspace[approval[a].ws] = approves(a)
  /\ approval[a].pc = "mark" => <<approval[a].ws, "default">> \in profile

\* A command polls a code that exists and holds a token that exists.
LoginKnows(m) ==
  /\ cli[m].pc = "polling" => cli[m].code \in DOMAIN code
  /\ cli[m].pc \in {"granted", "binding"} => cli[m].token \in DOMAIN token
  /\ session[m] # None => session[m] \in DOMAIN token

AccountsInv ==
  /\ \A a \in Approvals : ApprovalKnows(a)
  /\ \A m \in Machines : LoginKnows(m)
  /\ \A c \in DOMAIN code : code[c].status = "approved" => Reaches(code[c].ws, code[c].email)
  /\ \A t \in DOMAIN token : Reaches(token[t].ws, token[t].email)

\* The one-time secret that machine m has consumed and not yet used.
Paid(m, s) == cli[m].pc = "save" /\ cli[m].secret = s /\ s # EnrollmentSecret

SecretsInv ==
  /\ \A m \in Machines : cli[m].pc \in {"select", "consume"} => cli[m].secret \in DOMAIN secret
  /\ \A m \in Machines, s \in Ids : Paid(m, s) =>
       /\ s \in DOMAIN secret /\ secret[s] = TRUE
       /\ \A k \in DOMAIN connector : connector[k].secret # s
       /\ \A other \in Machines : Paid(other, s) => other = m
  /\ \A k \in DOMAIN connector : connector[k].secret # EnrollmentSecret =>
       connector[k].secret \in DOMAIN secret /\ secret[connector[k].secret] = TRUE
  /\ OneConnectorPerToken

\* Connector k is the one the command of machine m has just enrolled.
Enrolled(m, k) == cli[m].pc \in {"enrolled", "complete"} /\ cli[m].connector = k

BindingsInv ==
  /\ \A m \in Machines : cli[m].binding # None =>
       /\ cli[m].binding \in DOMAIN binding
       /\ binding[cli[m].binding].machine = m
  /\ \A m \in Machines : cli[m].pc = "complete" => cli[m].binding # None
  /\ \A m \in Machines, k \in Ids : Enrolled(m, k) =>
       /\ k \in DOMAIN connector
       /\ connector[k].machine = m
       /\ \A b \in DOMAIN binding : binding[b].connector = k => k = None
  /\ BindingNamesItsConnector

\* The challenge that socket k has consumed and whose hello is not answered yet.
Checking(k, x) == hello[k].pc = "check" /\ hello[k].challenge = x

ChallengesInv ==
  /\ \A k \in Sockets, x \in Ids : Checking(k, x) =>
       /\ x \in DOMAIN challenge
       /\ challenge[x].live = FALSE /\ challenge[x].admitted = 0
       /\ \A other \in Sockets : Checking(other, x) => other = k
  /\ \A k \in Sockets : hello[k].pc = "consume" => hello[k].challenge \in DOMAIN challenge
  /\ \A k \in Sockets : hello[k].pc = "read" => hello[k].challenge \in DOMAIN challenge
  /\ \A x \in DOMAIN challenge : challenge[x].live = TRUE => challenge[x].admitted = 0
  /\ ChallengeAdmitsOnce

-----------------------------------------------------------------------------
(* Rows of a table *)

\* A row that is written over leaves the others, and the table's ids, alone.
LEMMA RowUpdate ==
  ASSUME NEW S, NEW s \in Seq(S), NEW i, NEW v, i \in DOMAIN s => v \in S,
         NEW t, t = [s EXCEPT ![i] = v]
  PROVE  /\ t \in Seq(S)
         /\ DOMAIN t = DOMAIN s
         /\ Len(t) = Len(s)
         /\ \A j \in DOMAIN s : t[j] = IF j = i THEN v ELSE s[j]
<1>1. Len(s) \in Nat /\ s \in [1..Len(s) -> S]
  BY LenProperties
<1>2. /\ DOMAIN t = 1..Len(s)
      /\ \A j \in 1..Len(s) : t[j] = IF j = i THEN v ELSE s[j]
  BY <1>1
<1>3. t \in [1..Len(s) -> S]
  BY <1>1, <1>2
<1>4. t \in Seq(S)
  BY <1>1, <1>3, IsASeq
<1> QED BY <1>1, <1>2, <1>4, LenProperties

\* A row that is inserted has the next id.
LEMMA RowAppend ==
  ASSUME NEW S, NEW s \in Seq(S), NEW v \in S, NEW t, t = Append(s, v)
  PROVE  /\ t \in Seq(S)
         /\ Len(s) + 1 \in Nat
         /\ DOMAIN t = DOMAIN s \cup {Len(s) + 1}
         /\ Len(s) + 1 \notin DOMAIN s
         /\ t[Len(s) + 1] = v
         /\ \A j \in DOMAIN s : t[j] = s[j]
OBVIOUS

\* Rows are numbered from 1.
LEMMA RowIds == ASSUME NEW S, NEW s \in Seq(S) PROVE DOMAIN s \subseteq Nat
OBVIOUS

-----------------------------------------------------------------------------
(* The command of one machine *)

Others(m) == \A other \in Machines \ {m} : cli'[other] = cli[other]

\* A step of one command leaves the others alone.
LEMMA CommandStep ==
  ASSUME CommandsTyped, NEW m \in Machines, NEW c \in Commands,
         cli' = [cli EXCEPT ![m] = c]
  PROVE  CommandsTyped' /\ cli'[m] = c /\ Others(m)
BY DEF CommandsTyped, Others

\* The records of what is not under way are typed.
LEMMA NoCommandTyped ==
  /\ NoCommand \in Commands
  /\ NoApproval \in ApprovalStates
  /\ NoHello \in HelloStates
BY DEF NoCommand, Commands, NoApproval, ApprovalStates, NoHello, HelloStates, Ids

-----------------------------------------------------------------------------
(* Challenges and hellos *)

HelloInv == ChallengesTyped /\ ChallengesInv

\* A step of one hello leaves the others alone.
LEMMA HelloStep ==
  ASSUME ChallengesTyped, NEW k \in Sockets, NEW h \in HelloStates,
         hello' = [hello EXCEPT ![k] = h]
  PROVE  /\ hello' \in [Sockets -> HelloStates]
         /\ hello'[k] = h
         /\ \A other \in Sockets \ {k} : hello'[other] = hello[other]
BY DEF ChallengesTyped

\* A challenge that is issued has admitted nobody.
LEMMA HelloCreateChallenge ==
  ASSUME HelloInv, EnrollmentTyped, NEW m \in Machines, CreateChallenge(m)
  PROVE  HelloInv'
<1> DEFINE new == [connector |-> config[m], live |-> TRUE, admitted |-> 0]
<1>1. new \in ChallengeRows
  BY DEF EnrollmentTyped, ChallengeRows
<1>2. challenge' = Append(challenge, new) /\ hello' = hello
  BY DEF CreateChallenge
<1>3. challenge \in Seq(ChallengeRows)
  BY DEF HelloInv, ChallengesTyped
<1>4. /\ challenge' \in Seq(ChallengeRows)
      /\ DOMAIN challenge' = DOMAIN challenge \cup {Len(challenge) + 1}
      /\ Len(challenge) + 1 \notin DOMAIN challenge
      /\ challenge'[Len(challenge) + 1] = new
      /\ \A j \in DOMAIN challenge : challenge'[j] = challenge[j]
  BY <1>1, <1>2, <1>3, RowAppend
<1>5. new.live = TRUE /\ new.admitted = 0
  OBVIOUS
<1> HIDE DEF new
<1>6. ChallengesTyped'
  BY <1>2, <1>4 DEF HelloInv, ChallengesTyped
<1>7. ChallengesInv'
  BY <1>2, <1>4, <1>5 DEF HelloInv, ChallengesInv, Checking, ChallengeAdmitsOnce
<1> QED BY <1>6, <1>7 DEF HelloInv

\* A hello that is taken up names a challenge that was issued.
LEMMA HelloVerify ==
  ASSUME HelloInv, NEW k \in Sockets, VerifyHello(k)
  PROVE  HelloInv'
<1>1. PICK x \in DOMAIN challenge :
        hello' = [hello EXCEPT ![k] =
          [pc |-> "read", connector |-> challenge[x].connector, challenge |-> x]]
  BY DEF VerifyHello
<1> DEFINE h == [pc |-> "read", connector |-> challenge[x].connector, challenge |-> x]
<1>2. challenge \in Seq(ChallengeRows) /\ challenge' = challenge
  BY DEF HelloInv, ChallengesTyped, VerifyHello, relayVars
<1>3. h \in HelloStates
  <2>1. x \in Nat
    BY <1>2, RowIds
  <2>2. challenge[x] \in ChallengeRows
    BY <1>2
  <2>3. challenge[x].connector \in Ids
    BY <2>2 DEF ChallengeRows
  <2> QED BY <2>1, <2>3 DEF HelloStates, Ids
<1>4. h.pc = "read" /\ h.challenge = x
  OBVIOUS
<1>5. /\ hello' \in [Sockets -> HelloStates]
      /\ hello'[k] = h
      /\ \A other \in Sockets \ {k} : hello'[other] = hello[other]
  BY <1>1, <1>3, HelloStep DEF HelloInv
<1> HIDE DEF h
<1>6. ChallengesTyped'
  BY <1>2, <1>5 DEF ChallengesTyped
<1>7. ChallengesInv'
  BY <1>2, <1>4, <1>5 DEF HelloInv, ChallengesInv, Checking, ChallengeAdmitsOnce
<1> QED BY <1>6, <1>7 DEF HelloInv

\* A socket that gives up, or goes on to a step before the consumption.
LEMMA HelloMoves ==
  ASSUME HelloInv, NEW k \in Sockets, NEW h \in HelloStates,
         hello' = [hello EXCEPT ![k] = h], challenge' = challenge,
         \/ h.pc = "idle"
         \/ h.pc = "consume" /\ h.challenge = hello[k].challenge /\ hello[k].pc = "read"
  PROVE  HelloInv'
<1>1. /\ hello' \in [Sockets -> HelloStates]
      /\ hello'[k] = h
      /\ \A other \in Sockets \ {k} : hello'[other] = hello[other]
  BY HelloStep DEF HelloInv
<1>2. ChallengesTyped'
  BY <1>1 DEF HelloInv, ChallengesTyped
<1>3. ChallengesInv'
  BY <1>1 DEF HelloInv, ChallengesInv, Checking, ChallengeAdmitsOnce
<1> QED BY <1>2, <1>3 DEF HelloInv

\* Reading a challenge preserves the invariant.
LEMMA HelloSelect ==
  ASSUME HelloInv, NEW k \in Sockets, selectChallenge(k)
  PROVE  HelloInv'
<1>1. challenge' = challenge /\ hello[k].pc = "read" /\ hello[k] \in HelloStates
  BY DEF selectChallenge, relayVars, HelloInv, ChallengesTyped
<1>2. CASE hello' = [hello EXCEPT ![k] = NoHello]
  BY <1>1, <1>2, NoCommandTyped, HelloMoves DEF NoHello
<1>3. CASE hello' = [hello EXCEPT ![k].pc = "consume"]
  <2> DEFINE h == [hello[k] EXCEPT !.pc = "consume"]
  <2>1. h \in HelloStates /\ h.pc = "consume" /\ h.challenge = hello[k].challenge
    BY <1>1 DEF HelloStates
  <2>2. hello' = [hello EXCEPT ![k] = h]
    BY <1>3
  <2> HIDE DEF h
  <2> QED BY <1>1, <2>1, <2>2, HelloMoves
<1> QED BY <1>2, <1>3 DEF selectChallenge

\* Consuming a challenge preserves the invariant: of two hellos that have read it
\* unused, the second finds it used and is refused.
LEMMA HelloConsume ==
  ASSUME HelloInv, NEW k \in Sockets, ConsumeChallenge(k)
  PROVE  HelloInv'
<1> DEFINE x == hello[k].challenge
           row == [challenge[x] EXCEPT !.live = FALSE]
<1>1. /\ hello[k].pc = "consume" /\ hello[k] \in HelloStates
      /\ x \in DOMAIN challenge /\ x \in Ids
      /\ challenge \in Seq(ChallengeRows)
      /\ challenge[x] \in ChallengeRows
  BY DEF ConsumeChallenge, HelloInv, ChallengesTyped, ChallengesInv, HelloStates
<1>2. /\ row \in ChallengeRows
      /\ row.live = FALSE
      /\ row.admitted = challenge[x].admitted
  BY <1>1 DEF ChallengeRows
<1>3. challenge' = [challenge EXCEPT ![x] = row]
  BY <1>1 DEF ConsumeChallenge
<1> HIDE DEF row
<1>4. /\ challenge' \in Seq(ChallengeRows)
      /\ DOMAIN challenge' = DOMAIN challenge
      /\ \A j \in DOMAIN challenge : challenge'[j] = IF j = x THEN row ELSE challenge[j]
  BY <1>1, <1>2, <1>3, RowUpdate
<1>5. CASE challenge[x].live
  <2> DEFINE h == [hello[k] EXCEPT !.pc = "check"]
  <2>1. h \in HelloStates /\ h.pc = "check" /\ h.challenge = x
    BY <1>1 DEF HelloStates
  <2>2. hello' = [hello EXCEPT ![k] = h]
    BY <1>5 DEF ConsumeChallenge
  <2> HIDE DEF h
  <2>3. /\ hello' \in [Sockets -> HelloStates]
        /\ hello'[k] = h
        /\ \A other \in Sockets \ {k} : hello'[other] = hello[other]
    BY <2>1, <2>2, HelloStep DEF HelloInv
  <2>4. challenge[x].live = TRUE /\ challenge[x].admitted = 0
    BY <1>1, <1>5 DEF ChallengeRows, HelloInv, ChallengesInv
  <2>5. \A other \in Sockets : ~Checking(other, x)
    BY <1>1, <2>4 DEF HelloInv, ChallengesInv
  <2> HIDE DEF x
  <2>6. ChallengesTyped'
    BY <1>4, <2>3 DEF ChallengesTyped
  <2>7. ChallengesInv'
    <3>1. \A other \in Sockets, y \in Ids : Checking(other, y)' =>
            \/ other = k /\ y = x
            \/ other # k /\ y # x /\ Checking(other, y)
      BY <2>1, <2>3, <2>5 DEF Checking
    <3>2. ASSUME NEW other \in Sockets, NEW y \in Ids, Checking(other, y)'
          PROVE  /\ y \in DOMAIN challenge'
                 /\ challenge'[y].live = FALSE /\ challenge'[y].admitted = 0
                 /\ \A third \in Sockets : Checking(third, y)' => third = other
      <4>1. CASE other = k /\ y = x
        BY <1>1, <1>2, <1>4, <2>4, <3>1, <4>1
      <4>2. CASE other # k /\ y # x /\ Checking(other, y)
        <5>1. /\ y \in DOMAIN challenge
              /\ challenge[y].live = FALSE /\ challenge[y].admitted = 0
              /\ \A third \in Sockets : Checking(third, y) => third = other
          BY <4>2 DEF HelloInv, ChallengesInv
        <5>2. \A third \in Sockets : Checking(third, y)' => Checking(third, y)
          BY <3>1, <4>2
        <5> QED BY <1>4, <4>2, <5>1, <5>2
      <4> QED BY <3>1, <3>2, <4>1, <4>2
    <3>3. \A other \in Sockets : hello'[other].pc \in {"consume", "read"} =>
            hello'[other].challenge \in DOMAIN challenge'
      BY <1>4, <2>1, <2>3 DEF HelloInv, ChallengesInv
    <3>4. ASSUME NEW y \in DOMAIN challenge'
          PROVE  /\ challenge'[y].live = TRUE => challenge'[y].admitted = 0
                 /\ challenge'[y].admitted <= 1
      <4>1. CASE y = x
        BY <1>1, <1>2, <1>4, <2>4, <4>1
      <4>2. CASE y # x
        BY <1>4, <4>2 DEF HelloInv, ChallengesInv, ChallengeAdmitsOnce
      <4> QED BY <4>1, <4>2
    <3> QED BY <3>2, <3>3, <3>4 DEF ChallengesInv, ChallengeAdmitsOnce
  <2> QED BY <2>6, <2>7 DEF HelloInv
<1>6. CASE ~challenge[x].live
  <2>1. hello' = [hello EXCEPT ![k] = NoHello]
    BY <1>6 DEF ConsumeChallenge
  <2>2. row = challenge[x]
    BY <1>1, <1>6 DEF row, ChallengeRows
  <2>3. challenge' = challenge
    <3>1. /\ Len(challenge') = Len(challenge)
          /\ DOMAIN challenge = 1..Len(challenge)
          /\ \A j \in 1..Len(challenge) : challenge'[j] = challenge[j]
      BY <1>1, <1>2, <1>3, <1>4, <2>2, RowUpdate
    <3> QED BY <1>1, <1>4, <3>1, SeqEqual
  <2> QED BY <2>1, <2>3, NoCommandTyped, HelloMoves DEF NoHello
<1> QED BY <1>5, <1>6

\* The hello that is answered, admitted or not, was the only one to hold its
\* challenge.
LEMMA HelloSeen ==
  ASSUME HelloInv, NEW k \in Sockets, MarkConnectorSeen(k)
  PROVE  HelloInv'
<1> DEFINE x == hello[k].challenge
           row == [challenge[x] EXCEPT !.admitted = challenge[x].admitted + 1]
<1>1. /\ hello[k].pc = "check" /\ hello[k] \in HelloStates
      /\ hello' = [hello EXCEPT ![k] = NoHello]
  BY DEF MarkConnectorSeen, HelloInv, ChallengesTyped
<1>2. CASE challenge' = challenge
  BY <1>1, <1>2, NoCommandTyped, HelloMoves DEF NoHello
<1>3. CASE challenge' = [challenge EXCEPT ![x].admitted = @ + 1]
  <2>1. /\ x \in DOMAIN challenge /\ x \in Ids
        /\ Checking(k, x)
        /\ challenge \in Seq(ChallengeRows)
        /\ challenge[x] \in ChallengeRows
        /\ challenge[x].live = FALSE /\ challenge[x].admitted = 0
        /\ \A other \in Sockets : Checking(other, x) => other = k
    BY <1>1 DEF HelloInv, ChallengesTyped, ChallengesInv, HelloStates, Checking
  <2>2. row \in ChallengeRows /\ row.live = FALSE /\ row.admitted = 1
    BY <2>1 DEF ChallengeRows
  <2>3. challenge' = [challenge EXCEPT ![x] = row]
    BY <1>3, <2>1
  <2> HIDE DEF row
  <2>4. /\ challenge' \in Seq(ChallengeRows)
        /\ DOMAIN challenge' = DOMAIN challenge
        /\ \A j \in DOMAIN challenge : challenge'[j] = IF j = x THEN row ELSE challenge[j]
    BY <2>1, <2>2, <2>3, RowUpdate
  <2>5. /\ hello' \in [Sockets -> HelloStates]
        /\ hello'[k] = NoHello
        /\ \A other \in Sockets \ {k} : hello'[other] = hello[other]
    BY <1>1, NoCommandTyped, HelloStep DEF HelloInv
  <2>6. NoHello.pc = "idle"
    BY DEF NoHello
  <2> HIDE DEF x
  <2>7. ChallengesTyped'
    BY <2>4, <2>5 DEF ChallengesTyped
  <2>8. ChallengesInv'
    <3>1. \A other \in Sockets : hello'[other].pc # "idle" =>
            other # k /\ hello'[other] = hello[other]
      BY <2>5, <2>6
    <3>2. ASSUME NEW other \in Sockets, NEW y \in Ids, Checking(other, y)'
          PROVE  /\ y \in DOMAIN challenge'
                 /\ challenge'[y].live = FALSE /\ challenge'[y].admitted = 0
                 /\ \A third \in Sockets : Checking(third, y)' => third = other
      <4>1. other # k /\ Checking(other, y)
        BY <3>1, <3>2 DEF Checking
      <4>2. y # x
        BY <2>1, <4>1
      <4>3. /\ y \in DOMAIN challenge
            /\ challenge[y].live = FALSE /\ challenge[y].admitted = 0
            /\ \A third \in Sockets : Checking(third, y) => third = other
        BY <4>1 DEF HelloInv, ChallengesInv
      <4>4. \A third \in Sockets : Checking(third, y)' => Checking(third, y)
        BY <3>1 DEF Checking
      <4> QED BY <2>4, <4>2, <4>3, <4>4
    <3>3. \A other \in Sockets : hello'[other].pc \in {"consume", "read"} =>
            hello'[other].challenge \in DOMAIN challenge'
      BY <2>4, <3>1 DEF HelloInv, ChallengesInv
    <3>4. ASSUME NEW y \in DOMAIN challenge'
          PROVE  /\ challenge'[y].live = TRUE => challenge'[y].admitted = 0
                 /\ challenge'[y].admitted <= 1
      <4>1. CASE y = x
        BY <2>1, <2>2, <2>4, <4>1
      <4>2. CASE y # x
        BY <2>4, <4>2 DEF HelloInv, ChallengesInv, ChallengeAdmitsOnce
      <4> QED BY <4>1, <4>2
    <3> QED BY <3>2, <3>3, <3>4 DEF ChallengesInv, ChallengeAdmitsOnce
  <2> QED BY <2>7, <2>8 DEF HelloInv
<1> QED BY <1>2, <1>3 DEF MarkConnectorSeen

-----------------------------------------------------------------------------
(* Secrets, connectors and bindings *)

EnrollInv == /\ CommandsTyped /\ EnrollmentTyped /\ BindingsTyped
             /\ SecretsInv /\ BindingsInv

\* A command that goes on keeps what it has; one that fails has nothing.
LEMMA CliTo ==
  ASSUME CommandsTyped, NEW m \in Machines, NEW pc,
         [cli[m] EXCEPT !.pc = pc] \in Commands,
         cli' = [cli EXCEPT ![m].pc = pc]
  PROVE  /\ CommandsTyped' /\ Others(m)
         /\ cli'[m].pc = pc
         /\ cli'[m].code = cli[m].code /\ cli'[m].token = cli[m].token
         /\ cli'[m].binding = cli[m].binding /\ cli'[m].secret = cli[m].secret
         /\ cli'[m].connector = cli[m].connector
<1>1. cli[m] \in Commands
  BY DEF CommandsTyped
<1> DEFINE c == [cli[m] EXCEPT !.pc = pc]
<1>2. /\ c.pc = pc /\ c.code = cli[m].code /\ c.token = cli[m].token
      /\ c.binding = cli[m].binding /\ c.secret = cli[m].secret
      /\ c.connector = cli[m].connector
  BY <1>1 DEF Commands
<1>3. cli' = [cli EXCEPT ![m] = c] /\ c \in Commands
  OBVIOUS
<1> HIDE DEF c
<1> QED BY <1>2, <1>3, CommandStep

\* A command that fails gives up its binding.
LEMMA CliFails ==
  ASSUME CommandsTyped, NEW m \in Machines, cliFails(m)
  PROVE  /\ CommandsTyped' /\ Others(m)
         /\ cli'[m].pc = "idle" /\ cli'[m].binding = None
<1>1. cli' = [cli EXCEPT ![m] = NoCommand] /\ NoCommand \in Commands
  BY NoCommandTyped DEF cliFails
<1>2. CommandsTyped' /\ cli'[m] = NoCommand /\ Others(m)
  BY <1>1, CommandStep
<1> QED BY <1>2 DEF NoCommand

\* A command that is elsewhere than in an enrollment changes nothing here.
LEMMA EnrollQuiet ==
  ASSUME EnrollInv, NEW m \in Machines, CommandsTyped', Others(m),
         UNCHANGED <<secret, connector, binding>>, config' \in [Machines -> Ids],
         cli'[m].pc \notin {"select", "consume", "save", "enrolled", "complete"},
         cli'[m].binding \in {None, cli[m].binding}
  PROVE  EnrollInv'
<1>1. EnrollmentTyped' /\ BindingsTyped'
  BY DEF EnrollInv, EnrollmentTyped, BindingsTyped
<1>2. SecretsInv'
  BY DEF EnrollInv, SecretsInv, Paid, OneConnectorPerToken, Others
<1>3. BindingsInv'
  BY DEF EnrollInv, BindingsInv, Enrolled, BindingNamesItsConnector, Others
<1> QED BY <1>1, <1>2, <1>3 DEF EnrollInv

\* Steps that leave its variables alone preserve the invariant of enrollment.
LEMMA EnrollFrame ==
  ASSUME EnrollInv, UNCHANGED <<cli, secret, connector, binding, config>>
  PROVE  EnrollInv'
BY DEF EnrollInv, CommandsTyped, EnrollmentTyped, BindingsTyped, SecretsInv, BindingsInv,
       Paid, OneConnectorPerToken, Enrolled, BindingNamesItsConnector

\* What the relay notes about a connector is neither its machine nor its secret.
LEMMA EnrollNoted ==
  ASSUME EnrollInv, UNCHANGED <<cli, secret, binding, config>>,
         connector' \in Seq(ConnectorRows), DOMAIN connector' = DOMAIN connector,
         \A k \in DOMAIN connector : /\ connector'[k].machine = connector[k].machine
                                     /\ connector'[k].secret = connector[k].secret
  PROVE  EnrollInv'
<1>1. CommandsTyped' /\ EnrollmentTyped' /\ BindingsTyped'
  BY DEF EnrollInv, CommandsTyped, EnrollmentTyped, BindingsTyped
<1>2. SecretsInv'
  BY DEF EnrollInv, SecretsInv, Paid, OneConnectorPerToken
<1>3. BindingsInv'
  BY DEF EnrollInv, BindingsInv, Enrolled, BindingNamesItsConnector
<1> QED BY <1>1, <1>2, <1>3 DEF EnrollInv

\* Marking a connector as seen does not change who it belongs to.
LEMMA EnrollSeen ==
  ASSUME EnrollInv, NEW k \in Sockets, MarkConnectorSeen(k)
  PROVE  EnrollInv'
<1>1. UNCHANGED <<cli, secret, binding, config>>
  BY DEF MarkConnectorSeen, gatewayVars, files
<1>2. CASE UNCHANGED connector
  BY <1>1, <1>2, EnrollFrame
<1>3. CASE connector' = [connector EXCEPT ![hello[k].connector].seen = TRUE]
  <2> DEFINE i == hello[k].connector
             row == [connector[i] EXCEPT !.seen = TRUE]
  <2>1. connector \in Seq(ConnectorRows)
    BY DEF EnrollInv, EnrollmentTyped
  <2>2. i \in DOMAIN connector =>
          row \in ConnectorRows /\ row.machine = connector[i].machine
                                /\ row.secret = connector[i].secret
    <3> HAVE i \in DOMAIN connector
    <3>1. connector[i] \in ConnectorRows
      BY <2>1
    <3> QED BY <3>1 DEF ConnectorRows
  <2>3. connector' = [connector EXCEPT ![i] = row]
    BY <1>3
  <2> HIDE DEF row
  <2>4. /\ connector' \in Seq(ConnectorRows)
        /\ DOMAIN connector' = DOMAIN connector
        /\ \A j \in DOMAIN connector : connector'[j] = IF j = i THEN row ELSE connector[j]
    BY <2>1, <2>2, <2>3, RowUpdate
  <2> HIDE DEF i
  <2>5. \A j \in DOMAIN connector : /\ connector'[j].machine = connector[j].machine
                                    /\ connector'[j].secret = connector[j].secret
    BY <2>2, <2>4
  <2> QED BY <1>1, <2>4, <2>5, EnrollNoted
<1> QED BY <1>2, <1>3 DEF MarkConnectorSeen

\* Nor does disabling it.
LEMMA EnrollDisabled ==
  ASSUME EnrollInv, NEW k \in DOMAIN connector, SetConnectorDisabled(k)
  PROVE  EnrollInv'
<1>1. UNCHANGED <<cli, secret, binding, config>>
  BY DEF SetConnectorDisabled, gatewayVars, files
<1> DEFINE row == [connector[k] EXCEPT !.disabled = ~connector[k].disabled]
<1>2. connector \in Seq(ConnectorRows)
  BY DEF EnrollInv, EnrollmentTyped
<1>3. connector[k] \in ConnectorRows
  BY <1>2
<1>4. row \in ConnectorRows /\ row.machine = connector[k].machine
                            /\ row.secret = connector[k].secret
  BY <1>3 DEF ConnectorRows
<1>5. connector' = [connector EXCEPT ![k] = row]
  BY DEF SetConnectorDisabled
<1> HIDE DEF row
<1>6. /\ connector' \in Seq(ConnectorRows)
      /\ DOMAIN connector' = DOMAIN connector
      /\ \A j \in DOMAIN connector : connector'[j] = IF j = k THEN row ELSE connector[j]
  BY <1>2, <1>4, <1>5, RowUpdate
<1>7. \A j \in DOMAIN connector : /\ connector'[j].machine = connector[j].machine
                                  /\ connector'[j].secret = connector[j].secret
  BY <1>4, <1>6
<1> QED BY <1>1, <1>6, <1>7, EnrollNoted

\* The secrets a new row may add to, seen from a machine that has just moved.
LEMMA SecretsMoved ==
  ASSUME EnrollInv, NEW m \in Machines, CommandsTyped', Others(m),
         connector' = connector,
         secret' \in Seq(BOOLEAN), DOMAIN secret \subseteq DOMAIN secret',
         \A s \in DOMAIN secret : secret'[s] = secret[s],
         \/ cli'[m].pc \in {"select", "consume"} /\ cli'[m].secret \in DOMAIN secret'
         \/ cli'[m].pc = "save" /\ cli'[m].secret = EnrollmentSecret
         \/ cli'[m].pc \notin {"select", "consume", "save"}
  PROVE  SecretsInv'
BY DEF EnrollInv, SecretsInv, Paid, OneConnectorPerToken, Others

\* The command is not at the end of an enrollment, and has no other binding.
LEMMA BindingsMoved ==
  ASSUME EnrollInv, NEW m \in Machines, CommandsTyped', Others(m),
         connector' = connector, binding' = binding,
         cli'[m].pc \notin {"enrolled", "complete"},
         cli'[m].binding \in {None, cli[m].binding}
  PROVE  BindingsInv'
BY DEF EnrollInv, BindingsInv, Enrolled, BindingNamesItsConnector, Others

\* The start of an enrollment preserves the invariant.
LEMMA EnrollStart ==
  ASSUME EnrollInv, NEW m \in Machines, Enroll(m)
  PROVE  EnrollInv'
<1>1. PICK s \in {EnrollmentSecret} \cup DOMAIN secret :
        cli' = [cli EXCEPT ![m] = [NoCommand EXCEPT
                  !.pc = IF s = EnrollmentSecret THEN "save" ELSE "select", !.secret = s]]
  BY DEF Enroll
<1>2. UNCHANGED <<secret, connector, binding, config>>
  BY DEF Enroll, gatewayVars, relayVars, files
<1> DEFINE c == [NoCommand EXCEPT
                  !.pc = IF s = EnrollmentSecret THEN "save" ELSE "select", !.secret = s]
<1>3. s \in Nat
  BY RowIds DEF EnrollInv, EnrollmentTyped, EnrollmentSecret
<1>4. /\ c \in Commands /\ c.secret = s /\ c.binding = None
      /\ c.pc = IF s = EnrollmentSecret THEN "save" ELSE "select"
  BY <1>3 DEF NoCommand, Commands, Ids
<1> HIDE DEF c
<1>5. CommandsTyped' /\ cli'[m] = c /\ Others(m)
  BY <1>1, <1>4, CommandStep DEF EnrollInv, c
<1>6. EnrollmentTyped' /\ BindingsTyped'
  BY <1>2 DEF EnrollInv, EnrollmentTyped, BindingsTyped
<1>7. SecretsInv'
  BY <1>2, <1>4, <1>5, <1>6, SecretsMoved DEF EnrollmentTyped
<1>8. BindingsInv'
  BY <1>2, <1>4, <1>5, BindingsMoved
<1> QED BY <1>5, <1>6, <1>7, <1>8 DEF EnrollInv

\* The secret the relay issues is new and has enrolled nobody.
LEMMA EnrollCreateSecret ==
  ASSUME EnrollInv, NEW m \in Machines, createRelayEnrollmentToken(m)
  PROVE  EnrollInv'
<1>1. UNCHANGED <<connector, binding, config>>
  BY DEF createRelayEnrollmentToken, gatewayVars, files
<1>2. /\ secret \in Seq(BOOLEAN) /\ config \in [Machines -> Ids]
      /\ CommandsTyped /\ cli[m] \in Commands
  BY DEF EnrollInv, EnrollmentTyped, CommandsTyped
<1>3. CASE UNCHANGED secret /\ cliFails(m)
  BY <1>1, <1>2, <1>3, CliFails, EnrollQuiet
<1>4. CASE /\ secret' = Append(secret, FALSE)
           /\ cli' = [cli EXCEPT ![m].pc = "select", ![m].secret = Len(secret) + 1]
  <2> DEFINE c == [cli[m] EXCEPT !.pc = "select", !.secret = Len(secret) + 1]
  <2>1. /\ secret' \in Seq(BOOLEAN)
        /\ Len(secret) + 1 \in Nat
        /\ DOMAIN secret' = DOMAIN secret \cup {Len(secret) + 1}
        /\ \A j \in DOMAIN secret : secret'[j] = secret[j]
    <3> DEFINE unconsumed == FALSE
    <3>1. unconsumed \in BOOLEAN /\ secret' = Append(secret, unconsumed)
      BY <1>4
    <3> HIDE DEF unconsumed
    <3> QED BY <1>2, <3>1, RowAppend
  <2>2. /\ c \in Commands /\ c.pc = "select" /\ c.secret = Len(secret) + 1
        /\ c.binding = cli[m].binding
    BY <1>2, <2>1 DEF Commands, Ids
  <2>3. cli' = [cli EXCEPT ![m] = c]
    BY <1>2, <1>4 DEF CommandsTyped
  <2> HIDE DEF c
  <2>4. CommandsTyped' /\ cli'[m] = c /\ Others(m)
    BY <1>2, <2>2, <2>3, CommandStep
  <2>5. EnrollmentTyped' /\ BindingsTyped'
    BY <1>1, <2>1 DEF EnrollInv, EnrollmentTyped, BindingsTyped
  <2>6. SecretsInv'
    BY <1>1, <2>1, <2>2, <2>4, SecretsMoved
  <2>7. BindingsInv'
    BY <1>1, <2>2, <2>4, BindingsMoved
  <2> QED BY <2>4, <2>5, <2>6, <2>7 DEF EnrollInv
<1> QED BY <1>3, <1>4 DEF createRelayEnrollmentToken, CreateEnrollmentToken

\* Reading the secret preserves the invariant.
LEMMA EnrollSelect ==
  ASSUME EnrollInv, NEW m \in Machines, selectEnrollmentToken(m)
  PROVE  EnrollInv'
<1>1. UNCHANGED <<secret, connector, binding, config>>
  BY DEF selectEnrollmentToken, gatewayVars, relayVars, files
<1>2. /\ secret \in Seq(BOOLEAN) /\ config \in [Machines -> Ids]
      /\ CommandsTyped /\ cli[m] \in Commands /\ cli[m].pc = "select"
  BY DEF EnrollInv, EnrollmentTyped, CommandsTyped, selectEnrollmentToken
<1>3. CASE cliFails(m)
  BY <1>1, <1>2, <1>3, CliFails, EnrollQuiet
<1>4. CASE cliTo(m, "consume")
  <2>1. [cli[m] EXCEPT !.pc = "consume"] \in Commands
    BY <1>2 DEF Commands
  <2>2. /\ CommandsTyped' /\ Others(m) /\ cli'[m].pc = "consume"
        /\ cli'[m].secret = cli[m].secret /\ cli'[m].binding = cli[m].binding
    BY <1>2, <1>4, <2>1, CliTo DEF cliTo
  <2>3. EnrollmentTyped' /\ BindingsTyped'
    BY <1>1 DEF EnrollInv, EnrollmentTyped, BindingsTyped
  <2>4. cli[m].secret \in DOMAIN secret
    BY <1>2 DEF EnrollInv, SecretsInv
  <2>5. SecretsInv'
    BY <1>1, <1>2, <2>2, <2>4, SecretsMoved
  <2>6. BindingsInv'
    BY <1>1, <2>2, BindingsMoved
  <2> QED BY <2>2, <2>3, <2>5, <2>6 DEF EnrollInv
<1> QED BY <1>3, <1>4 DEF selectEnrollmentToken

\* The one that finds the secret unconsumed is the one that has paid for it.
LEMMA EnrollConsume ==
  ASSUME EnrollInv, NEW m \in Machines, ConsumeEnrollmentToken(m)
  PROVE  EnrollInv'
<1> DEFINE s == cli[m].secret
<1>1. UNCHANGED <<connector, binding, config>>
  BY DEF ConsumeEnrollmentToken, gatewayVars, files
<1>2. /\ secret \in Seq(BOOLEAN) /\ CommandsTyped /\ cli[m] \in Commands
      /\ cli[m].pc = "consume" /\ s \in DOMAIN secret /\ s \in Ids
      /\ secret' = [secret EXCEPT ![s] = TRUE]
  BY DEF EnrollInv, EnrollmentTyped, CommandsTyped, ConsumeEnrollmentToken, SecretsInv, Commands
<1>3. /\ secret' \in Seq(BOOLEAN)
      /\ DOMAIN secret' = DOMAIN secret
      /\ \A j \in DOMAIN secret : secret'[j] = IF j = s THEN TRUE ELSE secret[j]
  BY <1>2, RowUpdate
<1>4. EnrollmentTyped' /\ BindingsTyped'
  BY <1>1, <1>3 DEF EnrollInv, EnrollmentTyped, BindingsTyped
<1>5. CASE secret[s]
  <2>1. cliFails(m)
    BY <1>5 DEF ConsumeEnrollmentToken
  <2>2. CommandsTyped' /\ Others(m) /\ cli'[m].pc = "idle" /\ cli'[m].binding = None
    BY <1>2, <2>1, CliFails
  <2>3. \A j \in DOMAIN secret : secret'[j] = secret[j]
    BY <1>2, <1>3, <1>5
  <2>4. SecretsInv'
    BY <1>1, <1>3, <2>2, <2>3, SecretsMoved
  <2>5. BindingsInv'
    BY <1>1, <2>2, BindingsMoved
  <2> QED BY <1>4, <2>2, <2>4, <2>5 DEF EnrollInv
<1>6. CASE ~secret[s]
  <2>1. cliTo(m, "save") /\ [cli[m] EXCEPT !.pc = "save"] \in Commands
    BY <1>2, <1>6 DEF ConsumeEnrollmentToken, Commands
  <2>2. /\ CommandsTyped' /\ Others(m) /\ cli'[m].pc = "save"
        /\ cli'[m].secret = s /\ cli'[m].binding = cli[m].binding
    BY <1>2, <2>1, CliTo DEF cliTo
  <2>3. /\ \A other \in Machines : ~Paid(other, s)
        /\ \A k \in DOMAIN connector :
             connector[k].secret = s => connector[k].secret = EnrollmentSecret
    BY <1>2, <1>6 DEF EnrollInv, SecretsInv
  <2> HIDE DEF s
  <2>4. SecretsInv'
    <3>1. \A n \in Machines : cli'[n].pc \in {"select", "consume"} => cli'[n].secret \in DOMAIN secret'
      BY <1>3, <2>2 DEF EnrollInv, SecretsInv, Others
    <3>2. ASSUME NEW n \in Machines, NEW x \in Ids, Paid(n, x)'
          PROVE  /\ x \in DOMAIN secret' /\ secret'[x] = TRUE
                 /\ \A k \in DOMAIN connector' : connector'[k].secret # x
                 /\ \A other \in Machines : Paid(other, x)' => other = n
      <4>1. CASE n = m
        <5>1. x = s /\ s # EnrollmentSecret
          BY <2>2, <3>2, <4>1 DEF Paid
        <5>2. /\ x \in DOMAIN secret' /\ secret'[x] = TRUE
              /\ \A k \in DOMAIN connector' : connector'[k].secret # x
          BY <1>1, <1>2, <1>3, <2>3, <5>1
        <5>3. \A other \in Machines : Paid(other, x)' => other = n
          BY <2>2, <2>3, <4>1, <5>1 DEF Paid, Others
        <5> QED BY <5>2, <5>3
      <4>2. CASE n # m
        <5>1. Paid(n, x) /\ x # s
          BY <2>2, <2>3, <3>2, <4>2 DEF Paid, Others
        <5>2. /\ x \in DOMAIN secret /\ secret[x] = TRUE
              /\ \A k \in DOMAIN connector : connector[k].secret # x
              /\ \A other \in Machines : Paid(other, x) => other = n
          BY <5>1 DEF EnrollInv, SecretsInv
        <5>3. \A other \in Machines : Paid(other, x)' => Paid(other, x)
          BY <2>2, <5>1 DEF Paid, Others
        <5>4. x \in DOMAIN secret' /\ secret'[x] = TRUE
          BY <1>3, <5>1, <5>2
        <5>5. \A k \in DOMAIN connector' : connector'[k].secret # x
          BY <1>1, <5>2
        <5> QED BY <5>2, <5>3, <5>4, <5>5
      <4> QED BY <4>1, <4>2
    <3>3. \A k \in DOMAIN connector' : connector'[k].secret # EnrollmentSecret =>
            connector'[k].secret \in DOMAIN secret' /\ secret'[connector'[k].secret] = TRUE
      BY <1>1, <1>3 DEF EnrollInv, SecretsInv
    <3>4. OneConnectorPerToken'
      BY <1>1 DEF EnrollInv, SecretsInv, OneConnectorPerToken
    <3> QED BY <3>1, <3>2, <3>3, <3>4 DEF SecretsInv
  <2>5. BindingsInv'
    BY <1>1, <2>2, BindingsMoved
  <2> QED BY <1>4, <2>2, <2>4, <2>5 DEF EnrollInv
<1> QED BY <1>2, <1>5, <1>6

\* A new connector has a secret no other has, and no binding names it yet.
LEMMA EnrollSave ==
  ASSUME EnrollInv, NEW m \in Machines, SaveConnectorRecord(m)
  PROVE  EnrollInv'
<1> DEFINE s == cli[m].secret
           new == Len(connector) + 1
           row == [machine |-> m, secret |-> s, disabled |-> FALSE, seen |-> FALSE]
           c == [cli[m] EXCEPT !.pc = "enrolled", !.connector = new]
<1>1. UNCHANGED <<secret, binding, config>>
  BY DEF SaveConnectorRecord, gatewayVars, files
<1>2. /\ connector \in Seq(ConnectorRows) /\ CommandsTyped /\ cli[m] \in Commands
      /\ cli[m].pc = "save" /\ s \in Ids
      /\ connector' = Append(connector, row)
      /\ cli' = [cli EXCEPT ![m].pc = "enrolled", ![m].connector = new]
  BY DEF EnrollInv, EnrollmentTyped, CommandsTyped, SaveConnectorRecord, Commands
<1>3. row \in ConnectorRows /\ row.machine = m /\ row.secret = s
  BY <1>2 DEF ConnectorRows
<1>4. cli' = [cli EXCEPT ![m] = c]
  BY <1>2 DEF CommandsTyped
<1> HIDE DEF row
<1>5. /\ connector' \in Seq(ConnectorRows)
      /\ new \in Nat
      /\ DOMAIN connector' = DOMAIN connector \cup {new}
      /\ new \notin DOMAIN connector
      /\ connector'[new] = row
      /\ \A j \in DOMAIN connector : connector'[j] = connector[j]
  BY <1>2, <1>3, RowAppend
<1> HIDE DEF new
<1>6. /\ c \in Commands /\ c.pc = "enrolled" /\ c.connector = new
      /\ c.binding = cli[m].binding
  BY <1>2, <1>5 DEF Commands, Ids
<1> HIDE DEF c
<1>7. CommandsTyped' /\ cli'[m] = c /\ Others(m)
  BY <1>2, <1>4, <1>6, CommandStep
<1>8. EnrollmentTyped' /\ BindingsTyped'
  BY <1>1, <1>5 DEF EnrollInv, EnrollmentTyped, BindingsTyped
<1> HIDE DEF s
<1>9. s # EnrollmentSecret => Paid(m, s)
  BY <1>2 DEF Paid, s
<1>10. s # EnrollmentSecret =>
         /\ s \in DOMAIN secret /\ secret[s] = TRUE
         /\ \A k \in DOMAIN connector : connector[k].secret # s
         /\ \A other \in Machines : Paid(other, s) => other = m
  BY <1>2, <1>9 DEF EnrollInv, SecretsInv
<1>11. SecretsInv'
  <2>1. \A n \in Machines : cli'[n].pc \in {"select", "consume"} => cli'[n].secret \in DOMAIN secret'
    BY <1>1, <1>6, <1>7 DEF EnrollInv, SecretsInv, Others
  <2>2. ASSUME NEW n \in Machines, NEW x \in Ids, Paid(n, x)'
        PROVE  /\ x \in DOMAIN secret' /\ secret'[x] = TRUE
               /\ \A k \in DOMAIN connector' : connector'[k].secret # x
               /\ \A other \in Machines : Paid(other, x)' => other = n
    <3>1. Paid(n, x) /\ n # m
      BY <1>6, <1>7, <2>2 DEF Paid, Others
    <3>2. /\ x \in DOMAIN secret /\ secret[x] = TRUE
          /\ \A k \in DOMAIN connector : connector[k].secret # x
          /\ \A other \in Machines : Paid(other, x) => other = n
      BY <3>1 DEF EnrollInv, SecretsInv
    <3>3. x # s
      BY <1>10, <3>1 DEF Paid
    <3>4. \A other \in Machines : Paid(other, x)' => Paid(other, x)
      BY <1>6, <1>7 DEF Paid, Others
    <3> QED BY <1>1, <1>3, <1>5, <3>2, <3>3, <3>4
  <2>3. \A k \in DOMAIN connector' : connector'[k].secret # EnrollmentSecret =>
          connector'[k].secret \in DOMAIN secret' /\ secret'[connector'[k].secret] = TRUE
    BY <1>1, <1>3, <1>5, <1>10 DEF EnrollInv, SecretsInv
  <2>4. OneConnectorPerToken'
    BY <1>3, <1>5, <1>10 DEF EnrollInv, SecretsInv, OneConnectorPerToken
  <2> QED BY <2>1, <2>2, <2>3, <2>4 DEF SecretsInv
<1>12. BindingsInv'
  <2>1. \A b \in DOMAIN binding : binding[b].connector = new => new = None
    BY <1>5 DEF EnrollInv, BindingsInv, BindingNamesItsConnector
  <2>2. \A n \in Machines : cli'[n].binding = cli[n].binding
    BY <1>6, <1>7 DEF Others
  <2>3. \A n \in Machines : cli'[n].pc = "complete" => cli[n].pc = "complete"
    BY <1>6, <1>7 DEF Others
  <2>4. ASSUME NEW n \in Machines, NEW k \in Ids, Enrolled(n, k)'
        PROVE  /\ k \in DOMAIN connector'
               /\ connector'[k].machine = n
               /\ \A b \in DOMAIN binding : binding[b].connector = k => k = None
    <3>1. CASE n = m
      BY <1>3, <1>5, <1>6, <1>7, <2>1, <2>4, <3>1 DEF Enrolled
    <3>2. CASE n # m
      BY <1>5, <1>7, <2>4, <3>2 DEF Enrolled, Others, EnrollInv, BindingsInv
    <3> QED BY <3>1, <3>2
  <2>5. BindingNamesItsConnector'
    BY <1>1, <1>5 DEF EnrollInv, BindingsInv, BindingNamesItsConnector
  <2> QED BY <1>1, <2>2, <2>3, <2>4, <2>5 DEF EnrollInv, BindingsInv
<1> QED BY <1>7, <1>8, <1>11, <1>12 DEF EnrollInv

\* The connector that the command writes to its file is the one enrolled.
LEMMA EnrollSaveConfig ==
  ASSUME EnrollInv, NEW m \in Machines, SaveConfig(m)
  PROVE  EnrollInv'
<1>1. UNCHANGED <<secret, connector, binding>>
  BY DEF SaveConfig, gatewayVars, relayVars
<1>2. /\ secret \in Seq(BOOLEAN) /\ CommandsTyped /\ cli[m] \in Commands
      /\ cli[m].connector \in Ids /\ config \in [Machines -> Ids]
      /\ cli[m].pc = "enrolled"
  BY DEF EnrollInv, EnrollmentTyped, CommandsTyped, Commands, SaveConfig
<1>3. config' \in [Machines -> Ids]
  BY <1>2 DEF SaveConfig
<1>4. CASE cliFails(m)
  BY <1>1, <1>2, <1>3, <1>4, CliFails, EnrollQuiet
<1>5. CASE cliTo(m, "complete") /\ cli[m].binding # None
  <2>1. [cli[m] EXCEPT !.pc = "complete"] \in Commands
    BY <1>2 DEF Commands
  <2>2. /\ CommandsTyped' /\ Others(m) /\ cli'[m].pc = "complete"
        /\ cli'[m].binding = cli[m].binding /\ cli'[m].connector = cli[m].connector
    BY <1>2, <1>5, <2>1, CliTo DEF cliTo
  <2>3. EnrollmentTyped' /\ BindingsTyped'
    BY <1>1, <1>3 DEF EnrollInv, EnrollmentTyped, BindingsTyped
  <2>4. SecretsInv'
    BY <1>1, <1>2, <2>2, SecretsMoved
  <2>5. \A n \in Machines, k \in Ids : Enrolled(n, k)' => Enrolled(n, k)
    BY <1>2, <2>2 DEF Enrolled, Others
  <2>6. BindingsInv'
    BY <1>1, <1>5, <2>2, <2>5 DEF EnrollInv, BindingsInv, BindingNamesItsConnector, Others
  <2> QED BY <2>2, <2>3, <2>4, <2>6 DEF EnrollInv
<1> QED BY <1>4, <1>5 DEF SaveConfig

\* The connector that completes a binding was enrolled on its machine.
LEMMA EnrollComplete ==
  ASSUME EnrollInv, NEW m \in Machines, CompleteConnectorBinding(m)
  PROVE  EnrollInv'
<1> DEFINE b == cli[m].binding
           k == cli[m].connector
           row == [binding[b] EXCEPT !.connector = k]
<1>1. UNCHANGED <<secret, connector, config>>
  BY DEF CompleteConnectorBinding, relayVars, files
<1>2. /\ CommandsTyped /\ cli[m] \in Commands /\ config \in [Machines -> Ids]
      /\ secret \in Seq(BOOLEAN)
      /\ cli[m].pc = "complete" /\ k \in Ids /\ cliFails(m)
      /\ binding \in Seq(BindingRows)
  BY DEF EnrollInv, EnrollmentTyped, BindingsTyped, CommandsTyped, Commands,
         CompleteConnectorBinding
<1>3. /\ b \in DOMAIN binding /\ binding[b].machine = m
      /\ k \in DOMAIN connector /\ connector[k].machine = m
      /\ \A a \in DOMAIN binding : binding[a].connector = k => k = None
  BY <1>2 DEF EnrollInv, BindingsInv, Enrolled
<1>4. /\ CommandsTyped' /\ Others(m) /\ cli'[m].pc = "idle" /\ cli'[m].binding = None
  BY <1>2, CliFails
<1>5. CASE UNCHANGED binding
  BY <1>1, <1>2, <1>4, <1>5, EnrollQuiet
<1>6. CASE binding' = [binding EXCEPT ![b].connector = k]
  <2>1. binding[b] \in BindingRows
    BY <1>2, <1>3
  <2>2. row \in BindingRows /\ row.machine = m /\ row.connector = k
    BY <1>2, <1>3, <2>1 DEF BindingRows
  <2>3. binding' = [binding EXCEPT ![b] = row]
    BY <1>6
  <2> HIDE DEF row
  <2>4. /\ binding' \in Seq(BindingRows)
        /\ DOMAIN binding' = DOMAIN binding
        /\ \A j \in DOMAIN binding : binding'[j] = IF j = b THEN row ELSE binding[j]
    BY <1>2, <2>2, <2>3, RowUpdate
  <2>5. EnrollmentTyped' /\ BindingsTyped'
    BY <1>1, <2>4 DEF EnrollInv, EnrollmentTyped, BindingsTyped
  <2>6. SecretsInv'
    BY <1>1, <1>2, <1>4, SecretsMoved
  <2> HIDE DEF b, k
  <2>7. \A j \in DOMAIN binding : binding'[j].machine = binding[j].machine
    BY <1>3, <2>2, <2>4
  <2>8. ASSUME NEW n \in Machines, NEW i \in Ids, Enrolled(n, i)'
        PROVE  /\ i \in DOMAIN connector
               /\ connector[i].machine = n
               /\ \A a \in DOMAIN binding' : binding'[a].connector = i => i = None
    <3>1. n # m /\ Enrolled(n, i)
      BY <1>4, <2>8 DEF Enrolled, Others
    <3>2. /\ i \in DOMAIN connector
          /\ connector[i].machine = n
          /\ \A a \in DOMAIN binding : binding[a].connector = i => i = None
      BY <3>1 DEF EnrollInv, BindingsInv
    <3>3. i # k
      BY <1>3, <3>1, <3>2
    <3> QED BY <2>2, <2>4, <3>2, <3>3
  <2>9. BindingNamesItsConnector'
    BY <1>1, <1>3, <2>2, <2>4, <2>7 DEF EnrollInv, BindingsInv, BindingNamesItsConnector
  <2>10. /\ \A n \in Machines : cli'[n].binding # None =>
              /\ cli'[n].binding \in DOMAIN binding'
              /\ binding'[cli'[n].binding].machine = n
         /\ \A n \in Machines : cli'[n].pc = "complete" => cli'[n].binding # None
    BY <1>4, <2>4, <2>7 DEF EnrollInv, BindingsInv, Others
  <2>11. BindingsInv'
    BY <1>1, <2>8, <2>9, <2>10 DEF BindingsInv
  <2> QED BY <1>4, <2>5, <2>6, <2>11 DEF EnrollInv
<1> QED BY <1>5, <1>6 DEF CompleteConnectorBinding

-----------------------------------------------------------------------------
(* Accounts: codes, approvals, workspaces, tokens and sessions *)

LoginInv == AccountsTyped /\ AccountsInv

\* The binding the gateway inserts is new and names no connector.
LEMMA EnrollCreateBinding ==
  ASSUME EnrollInv, LoginInv, NEW m \in Machines, CreateConnectorBinding(m)
  PROVE  EnrollInv'
<1> DEFINE ws == token[cli[m].token].ws
           new == Len(binding) + 1
           row == [ws |-> ws, machine |-> m, connector |-> None]
           c == [cli[m] EXCEPT !.pc = "secret", !.binding = new]
<1>1. UNCHANGED <<secret, connector, config>>
  BY DEF CreateConnectorBinding, relayVars, files
<1>2. /\ CommandsTyped /\ cli[m] \in Commands /\ config \in [Machines -> Ids]
      /\ secret \in Seq(BOOLEAN) /\ binding \in Seq(BindingRows)
      /\ cli[m].pc = "binding" /\ token \in Seq(TokenRows)
      /\ cli[m].token \in DOMAIN token
  BY DEF EnrollInv, EnrollmentTyped, BindingsTyped, CommandsTyped,
         LoginInv, AccountsTyped, AccountsInv, LoginKnows, CreateConnectorBinding
<1>3. CASE UNCHANGED binding /\ cliFails(m)
  BY <1>1, <1>2, <1>3, CliFails, EnrollQuiet
<1>4. CASE /\ binding' = Append(binding, row)
           /\ cli' = [cli EXCEPT ![m].pc = "secret", ![m].binding = new]
  <2>1. token[cli[m].token] \in TokenRows
    BY <1>2
  <2>2. row \in BindingRows /\ row.machine = m /\ row.connector = None
    BY <2>1 DEF TokenRows, BindingRows, Ids
  <2>3. cli' = [cli EXCEPT ![m] = c]
    BY <1>2, <1>4 DEF CommandsTyped
  <2> HIDE DEF row
  <2>4. /\ binding' \in Seq(BindingRows)
        /\ new \in Nat
        /\ DOMAIN binding' = DOMAIN binding \cup {new}
        /\ new \notin DOMAIN binding
        /\ binding'[new] = row
        /\ \A j \in DOMAIN binding : binding'[j] = binding[j]
    BY <1>2, <1>4, <2>2, RowAppend
  <2> HIDE DEF new
  <2>5. c \in Commands /\ c.pc = "secret" /\ c.binding = new
    BY <1>2, <2>4 DEF Commands, Ids
  <2> HIDE DEF c
  <2>6. CommandsTyped' /\ cli'[m] = c /\ Others(m)
    BY <1>2, <2>3, <2>5, CommandStep
  <2>7. EnrollmentTyped' /\ BindingsTyped'
    BY <1>1, <2>4 DEF EnrollInv, EnrollmentTyped, BindingsTyped
  <2>8. SecretsInv'
    BY <1>1, <1>2, <2>5, <2>6, SecretsMoved
  <2>9. \A n \in Machines, k \in Ids : Enrolled(n, k)' => Enrolled(n, k)
    BY <2>5, <2>6 DEF Enrolled, Others
  <2>10. /\ \A n \in Machines : cli'[n].binding # None =>
              /\ cli'[n].binding \in DOMAIN binding'
              /\ binding'[cli'[n].binding].machine = n
         /\ \A n \in Machines : cli'[n].pc = "complete" => cli'[n].binding # None
    BY <2>2, <2>4, <2>5, <2>6 DEF EnrollInv, BindingsInv, Others
  <2>11. BindingNamesItsConnector'
    BY <1>1, <2>2, <2>4 DEF EnrollInv, BindingsInv, BindingNamesItsConnector
  <2>12. BindingsInv'
    BY <1>1, <2>2, <2>4, <2>9, <2>10, <2>11 DEF EnrollInv, BindingsInv
  <2> QED BY <2>6, <2>7, <2>8, <2>12 DEF EnrollInv
<1> QED BY <1>3, <1>4 DEF CreateConnectorBinding

\* What a workspace reaches it reaches as long as workspaces and default relays stay.
LEMMA ReachesStays ==
  ASSUME NEW ws, NEW email, Reaches(ws, email),
         DOMAIN workspace \subseteq DOMAIN workspace',
         \A w \in DOMAIN workspace : workspace'[w] = workspace[w],
         \A w : <<w, "default">> \in profile => <<w, "default">> \in profile'
  PROVE  Reaches(ws, email)'
BY DEF Reaches

\* A command that neither polls nor was just given a token changes nothing here.
LEMMA LoginQuiet ==
  ASSUME LoginInv, NEW m \in Machines, Others(m),
         UNCHANGED <<code, workspace, profile, token, session, approval>>,
         cli'[m].pc \notin {"polling", "granted"},
         cli'[m].pc = "binding" => cli'[m].token \in DOMAIN token
  PROVE  LoginInv'
<1>1. AccountsTyped'
  BY DEF LoginInv, AccountsTyped
<1>2. \A a \in Approvals : ApprovalKnows(a)'
  BY DEF LoginInv, AccountsInv, ApprovalKnows, approves
<1>3. \A n \in Machines : LoginKnows(n)'
  BY DEF LoginInv, AccountsInv, LoginKnows, Others
<1> QED BY <1>1, <1>2, <1>3 DEF LoginInv, AccountsInv, Reaches

\* Steps that leave its variables alone preserve the invariant of the login.
LEMMA LoginFrame ==
  ASSUME LoginInv, UNCHANGED <<cli, code, workspace, profile, token, session, approval>>
  PROVE  LoginInv'
BY DEF LoginInv, AccountsTyped, AccountsInv, ApprovalKnows, approves, LoginKnows, Reaches

\* Relay profiles come and go, the default ones stay.
LEMMA LoginProfiles ==
  ASSUME LoginInv, UNCHANGED <<cli, code, workspace, token, session, approval>>,
         \A w : <<w, "default">> \in profile => <<w, "default">> \in profile'
  PROVE  LoginInv'
<1>1. AccountsTyped'
  BY DEF LoginInv, AccountsTyped
<1>2. \A a \in Approvals : ApprovalKnows(a)'
  BY DEF LoginInv, AccountsInv, ApprovalKnows, approves
<1>3. \A n \in Machines : LoginKnows(n)'
  BY DEF LoginInv, AccountsInv, LoginKnows
<1>4. \A ws, email : Reaches(ws, email) => Reaches(ws, email)'
  BY ReachesStays
<1> QED BY <1>1, <1>2, <1>3, <1>4 DEF LoginInv, AccountsInv

\* Adding a relay profile keeps a relay in every workspace that had one.
LEMMA LoginUpsertProfile ==
  ASSUME LoginInv, NEW m \in Machines, UpsertRelayProfile(m)
  PROVE  LoginInv'
<1>1. PICK id \in Profiles : profile' = profile \cup {<<token[session[m]].ws, id>>}
  BY DEF UpsertRelayProfile
<1>2. UNCHANGED <<cli, code, workspace, token, session, approval>>
  BY DEF UpsertRelayProfile, files
<1> QED BY <1>1, <1>2, LoginProfiles

\* Removing one does too: it is never the default one.
LEMMA LoginRemoveProfile ==
  ASSUME LoginInv, NEW m \in Machines, RemoveRelayProfile(m)
  PROVE  LoginInv'
<1>1. PICK id \in Profiles \ {"default"} :
        profile' = profile \ {<<token[session[m]].ws, id>>}
  BY DEF RemoveRelayProfile
<1>2. UNCHANGED <<cli, code, workspace, token, session, approval>>
  BY DEF RemoveRelayProfile, files
<1>3. \A w : <<w, "default">> \in profile => <<w, "default">> \in profile'
  BY <1>1
<1> QED BY <1>2, <1>3, LoginProfiles

\* An approval goes on, or gives up: workspaces and default relays only grow.
LEMMA ApprovalMoves ==
  ASSUME LoginInv, NEW a \in Approvals, NEW r \in ApprovalStates,
         approval' = [approval EXCEPT ![a] = r],
         UNCHANGED <<cli, code, token, session>>,
         workspace' \in Seq(Emails),
         DOMAIN workspace \subseteq DOMAIN workspace',
         \A w \in DOMAIN workspace : workspace'[w] = workspace[w],
         \A w : <<w, "default">> \in profile => <<w, "default">> \in profile',
         r.pc # "idle" => r.code \in DOMAIN code,
         r.pc \in {"profile", "mark"} =>
           r.ws \in DOMAIN workspace' /\ workspace'[r.ws] = code[r.code].email,
         r.pc = "mark" => <<r.ws, "default">> \in profile'
  PROVE  LoginInv'
<1>1. /\ approval' \in [Approvals -> ApprovalStates]
      /\ approval'[a] = r
      /\ \A other \in Approvals \ {a} : approval'[other] = approval[other]
  BY DEF LoginInv, AccountsTyped
<1>2. AccountsTyped'
  BY <1>1 DEF LoginInv, AccountsTyped
<1>3. ASSUME NEW other \in Approvals PROVE ApprovalKnows(other)'
  <2>1. CASE other = a
    BY <1>1, <2>1 DEF ApprovalKnows, approves
  <2>2. CASE other # a
    <3>1. ApprovalKnows(other)
      BY DEF LoginInv, AccountsInv
    <3> QED BY <1>1, <2>2, <3>1 DEF ApprovalKnows, approves
  <2> QED BY <2>1, <2>2
<1>4. \A n \in Machines : LoginKnows(n)'
  BY DEF LoginInv, AccountsInv, LoginKnows
<1>5. \A ws, email : Reaches(ws, email) => Reaches(ws, email)'
  BY ReachesStays
<1> QED BY <1>2, <1>3, <1>4, <1>5 DEF LoginInv, AccountsInv

\* An approval that ends preserves the invariant.
LEMMA ApprovalGivesUp ==
  ASSUME LoginInv, NEW a \in Approvals,
         approval' = [approval EXCEPT ![a] = NoApproval],
         UNCHANGED <<cli, code, token, session, workspace, profile>>
  PROVE  LoginInv'
<1>1. NoApproval \in ApprovalStates /\ NoApproval.pc = "idle"
  BY NoCommandTyped DEF NoApproval
<1>2. workspace \in Seq(Emails)
  BY DEF LoginInv, AccountsTyped
<1> QED BY <1>1, <1>2, ApprovalMoves

\* A step that only looks something up.
LEMMA ApprovalLooks ==
  ASSUME LoginInv, NEW a \in Approvals, approval[a].pc # "idle",
         NEW pc \in {"newUser", "workspace", "newWorkspace"}, stepTo(a, pc),
         UNCHANGED <<cli, code, token, session, workspace, profile>>
  PROVE  LoginInv'
<1> DEFINE r == [approval[a] EXCEPT !.pc = pc]
<1>1. approval[a] \in ApprovalStates /\ workspace \in Seq(Emails)
  BY DEF LoginInv, AccountsTyped
<1>2. r \in ApprovalStates /\ r.pc = pc /\ r.code = approval[a].code
  BY <1>1 DEF ApprovalStates
<1>3. approval' = [approval EXCEPT ![a] = r]
  BY DEF stepTo
<1>4. approval[a].code \in DOMAIN code
  BY DEF LoginInv, AccountsInv, ApprovalKnows
<1> HIDE DEF r
<1> QED BY <1>1, <1>2, <1>3, <1>4, ApprovalMoves

\* An approval that reads its code preserves the invariant.
LEMMA ApprovalReadsCode ==
  ASSUME LoginInv, NEW a \in Approvals, ApproveDeviceCode(a)
  PROVE  LoginInv'
<1>1. PICK c \in DOMAIN code :
        approval' = [approval EXCEPT ![a] = [NoApproval EXCEPT !.pc = "user", !.code = c]]
  BY DEF ApproveDeviceCode
<1>2. UNCHANGED <<cli, code, token, session, workspace, profile>>
  BY DEF ApproveDeviceCode, gatewayVars, files
<1> DEFINE r == [NoApproval EXCEPT !.pc = "user", !.code = c]
<1>3. workspace \in Seq(Emails) /\ code \in Seq(CodeRows)
  BY DEF LoginInv, AccountsTyped
<1>4. c \in Nat
  BY <1>3, RowIds
<1>5. r \in ApprovalStates /\ r.pc = "user" /\ r.code = c
  BY <1>4 DEF NoApproval, ApprovalStates, Ids
<1> HIDE DEF r
<1>6. approval' = [approval EXCEPT ![a] = r]
  BY <1>1 DEF r
<1> QED BY <1>2, <1>3, <1>5, <1>6, ApprovalMoves

\* So does one that looks its user up,
LEMMA ApprovalLooksUpUser ==
  ASSUME LoginInv, NEW a \in Approvals, EnsureUserWorkspace(a)
  PROVE  LoginInv'
<1>1. UNCHANGED <<cli, code, token, session, workspace, profile>> /\ approval[a].pc = "user"
  BY DEF EnsureUserWorkspace, gatewayVars, files
<1>2. PICK pc \in {"newUser", "workspace"} : stepTo(a, pc)
  BY DEF EnsureUserWorkspace
<1> QED BY <1>1, <1>2, ApprovalLooks

\* inserts it,
LEMMA ApprovalInsertsUser ==
  ASSUME LoginInv, NEW a \in Approvals, insertUser(a)
  PROVE  LoginInv'
<1>1. UNCHANGED <<cli, code, token, session, workspace, profile>> /\ approval[a].pc = "newUser"
  BY DEF insertUser, files
<1>2. CASE approval' = [approval EXCEPT ![a] = NoApproval]
  BY <1>1, <1>2, ApprovalGivesUp
<1>3. CASE stepTo(a, "workspace")
  BY <1>1, <1>3, ApprovalLooks
<1> QED BY <1>2, <1>3 DEF insertUser

\* finds the workspace,
LEMMA ApprovalFindsWorkspace ==
  ASSUME LoginInv, NEW a \in Approvals, ensurePersonalWorkspace(a)
  PROVE  LoginInv'
<1>1. /\ UNCHANGED <<cli, code, token, session, workspace, profile>>
      /\ approval[a].pc = "workspace"
  BY DEF ensurePersonalWorkspace, gatewayVars, files
<1>2. CASE stepTo(a, "newWorkspace")
  BY <1>1, <1>2, ApprovalLooks
<1>3. CASE \E w \in {w \in DOMAIN workspace : workspace[w] = approves(a)} :
             approval' = [approval EXCEPT ![a].pc = "profile", ![a].ws = w]
  <2>1. PICK w \in DOMAIN workspace :
          /\ workspace[w] = approves(a)
          /\ approval' = [approval EXCEPT ![a].pc = "profile", ![a].ws = w]
    BY <1>3
  <2> DEFINE r == [approval[a] EXCEPT !.pc = "profile", !.ws = w]
  <2>2. /\ approval \in [Approvals -> ApprovalStates] /\ approval[a] \in ApprovalStates
        /\ workspace \in Seq(Emails)
    BY DEF LoginInv, AccountsTyped
  <2>3. w \in Nat
    BY <2>2, RowIds
  <2>4. /\ r \in ApprovalStates /\ r.pc = "profile" /\ r.ws = w
        /\ r.code = approval[a].code
    BY <2>2, <2>3 DEF ApprovalStates, Ids
  <2>5. approval' = [approval EXCEPT ![a] = r]
    BY <2>1, <2>2
  <2>6. approval[a].code \in DOMAIN code
    BY <1>1 DEF LoginInv, AccountsInv, ApprovalKnows
  <2>7. workspace[r.ws] = code[r.code].email
    BY <2>1, <2>4 DEF approves
  <2> HIDE DEF r
  <2> QED BY <1>1, <2>1, <2>2, <2>4, <2>5, <2>6, <2>7, ApprovalMoves
<1> QED BY <1>2, <1>3 DEF ensurePersonalWorkspace

\* inserts it without a relay as yet,
LEMMA ApprovalInsertsWorkspace ==
  ASSUME LoginInv, NEW a \in Approvals, insertWorkspace(a)
  PROVE  LoginInv'
<1> DEFINE new == Len(workspace) + 1
           r == [approval[a] EXCEPT !.pc = "profile", !.ws = new]
<1>1. /\ UNCHANGED <<cli, code, token, session, profile>>
      /\ approval[a].pc = "newWorkspace"
      /\ workspace' = Append(workspace, approves(a))
      /\ approval' = [approval EXCEPT ![a].pc = "profile", ![a].ws = new]
  BY DEF insertWorkspace, files
<1>2. /\ approval \in [Approvals -> ApprovalStates] /\ approval[a] \in ApprovalStates
      /\ workspace \in Seq(Emails) /\ code \in Seq(CodeRows)
  BY DEF LoginInv, AccountsTyped
<1>3. approval[a].code \in DOMAIN code
  BY <1>1 DEF LoginInv, AccountsInv, ApprovalKnows
<1>4. code[approval[a].code] \in CodeRows
  BY <1>2, <1>3
<1>5. approves(a) \in Emails
  BY <1>4 DEF approves, CodeRows
<1>6. approval' = [approval EXCEPT ![a] = r]
  BY <1>1, <1>2
<1>7. /\ workspace' \in Seq(Emails)
      /\ new \in Nat
      /\ DOMAIN workspace' = DOMAIN workspace \cup {new}
      /\ workspace'[new] = approves(a)
      /\ \A w \in DOMAIN workspace : workspace'[w] = workspace[w]
  BY <1>1, <1>2, <1>5, RowAppend
<1> HIDE DEF new
<1>8. /\ r \in ApprovalStates /\ r.pc = "profile" /\ r.ws = new
      /\ r.code = approval[a].code
  BY <1>2, <1>7 DEF ApprovalStates, Ids
<1> HIDE DEF r
<1>9. workspace'[r.ws] = code[r.code].email
  BY <1>7, <1>8 DEF approves
<1>10. /\ DOMAIN workspace \subseteq DOMAIN workspace'
       /\ \A w : <<w, "default">> \in profile => <<w, "default">> \in profile'
  BY <1>1, <1>7
<1> QED BY <1>1, <1>3, <1>6, <1>7, <1>8, <1>9, <1>10, ApprovalMoves

\* and gives it its relay, on which the approval of the code relies.
LEMMA ApprovalAddsRelay ==
  ASSUME LoginInv, NEW a \in Approvals, EnsureDefaultRelayProfile(a)
  PROVE  LoginInv'
<1> DEFINE r == [approval[a] EXCEPT !.pc = "mark"]
<1>1. /\ UNCHANGED <<cli, code, token, session, workspace>>
      /\ approval[a].pc = "profile"
      /\ profile' = profile \cup {<<approval[a].ws, "default">>}
      /\ approval' = [approval EXCEPT ![a].pc = "mark"]
  BY DEF EnsureDefaultRelayProfile, stepTo, files
<1>2. /\ approval \in [Approvals -> ApprovalStates] /\ approval[a] \in ApprovalStates
      /\ workspace \in Seq(Emails)
  BY DEF LoginInv, AccountsTyped
<1>3. /\ approval[a].code \in DOMAIN code
      /\ approval[a].ws \in DOMAIN workspace
      /\ workspace[approval[a].ws] = code[approval[a].code].email
  BY <1>1 DEF LoginInv, AccountsInv, ApprovalKnows, approves
<1>4. approval' = [approval EXCEPT ![a] = r]
  BY <1>1, <1>2
<1>5. /\ r \in ApprovalStates /\ r.pc = "mark" /\ r.ws = approval[a].ws
      /\ r.code = approval[a].code
  BY <1>2 DEF ApprovalStates
<1> HIDE DEF r
<1>6. /\ \A w : <<w, "default">> \in profile => <<w, "default">> \in profile'
      /\ <<r.ws, "default">> \in profile'
  BY <1>1, <1>5
<1> QED BY <1>1, <1>2, <1>3, <1>4, <1>5, <1>6, ApprovalMoves

\* A code changes its state; whom it is for stays, and it is approved only
\* with a workspace that has a relay.
LEMMA CodeRewritten ==
  ASSUME LoginInv, NEW c \in DOMAIN code, NEW row \in CodeRows,
         code' = [code EXCEPT ![c] = row],
         row.email = code[c].email,
         row.status = "approved" => Reaches(row.ws, row.email),
         UNCHANGED <<cli, workspace, profile, token, session, approval>>
  PROVE  LoginInv'
<1>1. code \in Seq(CodeRows)
  BY DEF LoginInv, AccountsTyped
<1>2. /\ code' \in Seq(CodeRows)
      /\ DOMAIN code' = DOMAIN code
      /\ \A j \in DOMAIN code : code'[j] = IF j = c THEN row ELSE code[j]
  BY <1>1, RowUpdate
<1>3. AccountsTyped'
  BY <1>2 DEF LoginInv, AccountsTyped
<1>4. ASSUME NEW a \in Approvals PROVE ApprovalKnows(a)'
  <2>1. ApprovalKnows(a)
    BY DEF LoginInv, AccountsInv
  <2>2. approval[a].code \in DOMAIN code =>
          code'[approval[a].code].email = code[approval[a].code].email
    BY <1>2
  <2>3. approval'[a] = approval[a]
    OBVIOUS
  <2> QED BY <1>2, <2>1, <2>2, <2>3 DEF ApprovalKnows, approves, ApprovalStates
<1>5. \A n \in Machines : LoginKnows(n)'
  BY <1>2 DEF LoginInv, AccountsInv, LoginKnows
<1>6. \A x \in DOMAIN code' :
        code'[x].status = "approved" => Reaches(code[x].ws, code[x].email)'
  BY <1>2 DEF LoginInv, AccountsInv, Reaches
<1>7. \A t \in DOMAIN token' : Reaches(token[t].ws, token[t].email)'
  BY DEF LoginInv, AccountsInv, Reaches
<1> QED BY <1>3, <1>4, <1>5, <1>6, <1>7 DEF LoginInv, AccountsInv

\* An expired code is approved no more.
LEMMA CodeExpires ==
  ASSUME LoginInv, NEW c \in DOMAIN code, codeExpires(c)
  PROVE  LoginInv'
<1> DEFINE row == [code[c] EXCEPT !.status = "expired"]
<1>1. code \in Seq(CodeRows)
  BY DEF LoginInv, AccountsTyped
<1>2. code[c] \in CodeRows
  BY <1>1
<1>3. row \in CodeRows /\ row.status = "expired" /\ row.email = code[c].email
  BY <1>2 DEF CodeRows
<1>4. code' = [code EXCEPT ![c] = row]
  BY DEF codeExpires
<1>5. UNCHANGED <<cli, workspace, profile, token, session, approval>>
  BY DEF codeExpires, files
<1> HIDE DEF row
<1> QED BY <1>3, <1>4, <1>5, CodeRewritten

\* The mark is the approval's last step: the code is written as above, and
\* what the approval knew is not needed any more.
LEMMA ApprovalMarks ==
  ASSUME LoginInv, NEW a \in Approvals, markApproved(a)
  PROVE  LoginInv'
<1> DEFINE c == approval[a].code
           row == [code[c] EXCEPT !.status = "approved", !.ws = approval[a].ws]
<1>1. /\ approval[a].pc = "mark"
      /\ UNCHANGED <<cli, workspace, profile, token, session>>
      /\ approval' = [approval EXCEPT ![a] = NoApproval]
  BY DEF markApproved, files
<1>2. /\ code \in Seq(CodeRows) /\ approval \in [Approvals -> ApprovalStates]
      /\ approval[a].ws \in Ids
  BY DEF LoginInv, AccountsTyped, ApprovalStates
<1>3. c \in DOMAIN code /\ Reaches(approval[a].ws, code[c].email)
  BY <1>1 DEF LoginInv, AccountsInv, ApprovalKnows, approves, Reaches
<1>4. code[c] \in CodeRows
  BY <1>2, <1>3
<1>5. /\ row \in CodeRows /\ row.status = "approved" /\ row.email = code[c].email
      /\ row.ws = approval[a].ws
  BY <1>2, <1>4 DEF CodeRows
<1>6. code' = [code EXCEPT ![c] = row]
  BY DEF markApproved
<1> HIDE DEF row
<1>7. /\ code' \in Seq(CodeRows)
      /\ DOMAIN code' = DOMAIN code
      /\ \A j \in DOMAIN code : code'[j] = IF j = c THEN row ELSE code[j]
  BY <1>2, <1>5, <1>6, RowUpdate
<1>8. /\ approval' \in [Approvals -> ApprovalStates]
      /\ approval'[a] = NoApproval
      /\ \A other \in Approvals \ {a} : approval'[other] = approval[other]
  BY <1>1, <1>2, NoCommandTyped
<1>9. AccountsTyped'
  BY <1>1, <1>7, <1>8 DEF LoginInv, AccountsTyped
<1>10. ASSUME NEW other \in Approvals PROVE ApprovalKnows(other)'
  <2>1. CASE other = a
    BY <1>8, <2>1 DEF ApprovalKnows, NoApproval
  <2>2. CASE other # a
    <3>1. ApprovalKnows(other) /\ approval'[other] = approval[other]
      BY <1>8, <2>2 DEF LoginInv, AccountsInv
    <3>2. \A j \in DOMAIN code : code'[j].email = code[j].email
      BY <1>5, <1>7
    <3> QED BY <1>1, <1>7, <3>1, <3>2 DEF ApprovalKnows, approves
  <2> QED BY <2>1, <2>2
<1>11. \A n \in Machines : LoginKnows(n)'
  BY <1>1, <1>7 DEF LoginInv, AccountsInv, LoginKnows
<1> HIDE DEF c
<1>12. \A x \in DOMAIN code' :
         code'[x].status = "approved" => Reaches(code[x].ws, code[x].email)'
  BY <1>1, <1>3, <1>5, <1>7 DEF LoginInv, AccountsInv, Reaches
<1>13. \A t \in DOMAIN token' : Reaches(token[t].ws, token[t].email)'
  BY <1>1 DEF LoginInv, AccountsInv, Reaches
<1> QED BY <1>9, <1>10, <1>11, <1>12, <1>13 DEF LoginInv, AccountsInv

-----------------------------------------------------------------------------
(* The commands of a login *)

TablesInv == EnrollInv /\ LoginInv

\* A new device code is not approved.
LEMMA LoginAuthorizes ==
  ASSUME TablesInv, NEW m \in Machines, CreateDeviceAuthorization(m)
  PROVE  TablesInv'
<1> DEFINE new == Len(code) + 1
           row == [status |-> "pending", email |-> EmailOf[m], ws |-> None]
           c == [NoCommand EXCEPT !.pc = "polling", !.code = new]
<1>1. /\ UNCHANGED <<workspace, profile, token, session, approval>>
      /\ UNCHANGED <<secret, connector, binding, config>>
      /\ code' = Append(code, row)
      /\ cli' = [cli EXCEPT ![m] = c]
  BY DEF CreateDeviceAuthorization, files, relayVars
<1>2. code \in Seq(CodeRows) /\ CommandsTyped /\ config \in [Machines -> Ids]
  BY DEF TablesInv, LoginInv, AccountsTyped, EnrollInv, EnrollmentTyped
<1>3. row \in CodeRows /\ row.status = "pending"
  BY DEF CodeRows, Emails, Ids
<1> HIDE DEF row
<1>4. /\ code' \in Seq(CodeRows)
      /\ new \in Nat
      /\ DOMAIN code' = DOMAIN code \cup {new}
      /\ new \notin DOMAIN code
      /\ code'[new] = row
      /\ \A j \in DOMAIN code : code'[j] = code[j]
  BY <1>1, <1>2, <1>3, RowAppend
<1> HIDE DEF new
<1>5. c \in Commands /\ c.pc = "polling" /\ c.code = new /\ c.binding = None
  BY <1>4 DEF NoCommand, Commands, Ids
<1> HIDE DEF c
<1>6. CommandsTyped' /\ cli'[m] = c /\ Others(m)
  BY <1>1, <1>2, <1>5, CommandStep
<1>7. EnrollInv'
  BY <1>1, <1>2, <1>5, <1>6, EnrollQuiet DEF TablesInv
<1>8. AccountsTyped'
  BY <1>1, <1>4 DEF TablesInv, LoginInv, AccountsTyped
<1>9. \A a \in Approvals : ApprovalKnows(a)'
  BY <1>1, <1>4 DEF TablesInv, LoginInv, AccountsInv, ApprovalKnows, approves
<1>10. \A n \in Machines : LoginKnows(n)'
  BY <1>1, <1>4, <1>5, <1>6 DEF TablesInv, LoginInv, AccountsInv, LoginKnows, Others
<1>11. \A x \in DOMAIN code' :
         code'[x].status = "approved" => Reaches(code[x].ws, code[x].email)'
  BY <1>1, <1>3, <1>4 DEF TablesInv, LoginInv, AccountsInv, Reaches
<1>12. \A t \in DOMAIN token' : Reaches(token[t].ws, token[t].email)'
  BY <1>1 DEF TablesInv, LoginInv, AccountsInv, Reaches
<1> QED BY <1>7, <1>8, <1>9, <1>10, <1>11, <1>12 DEF TablesInv, LoginInv, AccountsInv

\* A command that fails takes nothing with it.
LEMMA CommandFails ==
  ASSUME TablesInv, NEW m \in Machines, cliFails(m),
         UNCHANGED <<code, workspace, profile, token, session, approval>>,
         UNCHANGED <<secret, connector, binding, config>>
  PROVE  TablesInv'
<1>1. CommandsTyped /\ config \in [Machines -> Ids]
  BY DEF TablesInv, EnrollInv, EnrollmentTyped
<1>2. CommandsTyped' /\ Others(m) /\ cli'[m].pc = "idle" /\ cli'[m].binding = None
  BY <1>1, CliFails
<1>3. EnrollInv'
  BY <1>1, <1>2, EnrollQuiet DEF TablesInv
<1>4. LoginInv'
  BY <1>2, LoginQuiet DEF TablesInv
<1> QED BY <1>3, <1>4 DEF TablesInv

\* A token is given for an approved code, and opens the code's workspace.
LEMMA LoginPolls ==
  ASSUME TablesInv, NEW m \in Machines, PollDeviceToken(m)
  PROVE  TablesInv'
<1> DEFINE x == cli[m].code
           new == Len(token) + 1
           row == [ws |-> code[x].ws, email |-> code[x].email, revoked |-> FALSE]
           c == [NoCommand EXCEPT !.pc = "granted", !.token = new]
<1>1. /\ UNCHANGED <<code, workspace, profile, session, approval>>
      /\ UNCHANGED <<secret, connector, binding, config>>
      /\ cli[m].pc = "polling"
  BY DEF PollDeviceToken, files, relayVars
<1>2. CASE UNCHANGED token /\ cliFails(m)
  BY <1>1, <1>2, CommandFails
<1>3. CASE /\ code[x].status = "approved"
           /\ token' = Append(token, row)
           /\ cli' \in {[cli EXCEPT ![m] = c], [cli EXCEPT ![m] = NoCommand]}
  <2>1. /\ code \in Seq(CodeRows) /\ token \in Seq(TokenRows) /\ CommandsTyped
        /\ config \in [Machines -> Ids]
    BY DEF TablesInv, LoginInv, AccountsTyped, EnrollInv, EnrollmentTyped
  <2>2. x \in DOMAIN code
    BY <1>1 DEF TablesInv, LoginInv, AccountsInv, LoginKnows
  <2>3. code[x] \in CodeRows /\ Reaches(code[x].ws, code[x].email)
    BY <1>3, <2>1, <2>2 DEF TablesInv, LoginInv, AccountsInv
  <2>4. row \in TokenRows /\ row.ws = code[x].ws /\ row.email = code[x].email
    BY <2>3 DEF CodeRows, TokenRows
  <2> HIDE DEF row
  <2>5. /\ token' \in Seq(TokenRows)
        /\ new \in Nat
        /\ DOMAIN token' = DOMAIN token \cup {new}
        /\ new \notin DOMAIN token
        /\ token'[new] = row
        /\ \A j \in DOMAIN token : token'[j] = token[j]
    BY <1>3, <2>1, <2>4, RowAppend
  <2> HIDE DEF new
  <2>6. /\ c \in Commands /\ c.pc = "granted" /\ c.token = new /\ c.binding = None
        /\ NoCommand \in Commands /\ NoCommand.pc = "idle" /\ NoCommand.binding = None
    BY <2>5 DEF NoCommand, Commands, Ids
  <2> HIDE DEF c
  <2>7. CommandsTyped' /\ Others(m) /\ cli'[m] \in {c, NoCommand}
    BY <1>3, <2>1, <2>6, CommandStep
  <2>8. EnrollInv'
    BY <1>1, <2>1, <2>6, <2>7, EnrollQuiet DEF TablesInv
  <2>9. AccountsTyped'
    BY <1>1, <2>5 DEF TablesInv, LoginInv, AccountsTyped
  <2>10. \A a \in Approvals : ApprovalKnows(a)'
    BY <1>1 DEF TablesInv, LoginInv, AccountsInv, ApprovalKnows, approves
  <2>11. \A n \in Machines : LoginKnows(n)'
    BY <1>1, <2>5, <2>6, <2>7 DEF TablesInv, LoginInv, AccountsInv, LoginKnows, Others
  <2>12. \A i \in DOMAIN code' :
           code'[i].status = "approved" => Reaches(code[i].ws, code[i].email)'
    BY <1>1 DEF TablesInv, LoginInv, AccountsInv, Reaches
  <2> HIDE DEF x
  <2>13. \A t \in DOMAIN token' : Reaches(token[t].ws, token[t].email)'
    BY <1>1, <2>3, <2>4, <2>5 DEF TablesInv, LoginInv, AccountsInv, Reaches
  <2> QED BY <2>8, <2>9, <2>10, <2>11, <2>12, <2>13 DEF TablesInv, LoginInv, AccountsInv
<1> QED BY <1>2, <1>3 DEF PollDeviceToken, cliFails

\* Sessions name tokens that exist.
LEMMA LoginSession ==
  ASSUME TablesInv, NEW m \in Machines, NEW t \in Ids, cliFails(m),
         t # None => t \in DOMAIN token,
         session' = [session EXCEPT ![m] = t],
         UNCHANGED <<code, workspace, profile, token, approval>>,
         UNCHANGED <<secret, connector, binding, config>>
  PROVE  TablesInv'
<1>1. CommandsTyped /\ config \in [Machines -> Ids] /\ session \in [Machines -> Ids]
  BY DEF TablesInv, EnrollInv, EnrollmentTyped, LoginInv, AccountsTyped
<1>2. CommandsTyped' /\ Others(m) /\ cli'[m].pc = "idle" /\ cli'[m].binding = None
  BY <1>1, CliFails
<1>3. EnrollInv'
  BY <1>1, <1>2, EnrollQuiet DEF TablesInv
<1>4. AccountsTyped'
  BY <1>1 DEF TablesInv, LoginInv, AccountsTyped
<1>5. \A a \in Approvals : ApprovalKnows(a)'
  BY DEF TablesInv, LoginInv, AccountsInv, ApprovalKnows, approves
<1>6. \A n \in Machines : LoginKnows(n)'
  BY <1>1, <1>2 DEF TablesInv, LoginInv, AccountsInv, LoginKnows, Others
<1>7. \A i \in DOMAIN code' :
        code'[i].status = "approved" => Reaches(code[i].ws, code[i].email)'
  BY DEF TablesInv, LoginInv, AccountsInv, Reaches
<1>8. \A i \in DOMAIN token' : Reaches(token[i].ws, token[i].email)'
  BY DEF TablesInv, LoginInv, AccountsInv, Reaches
<1> QED BY <1>3, <1>4, <1>5, <1>6, <1>7, <1>8 DEF TablesInv, LoginInv, AccountsInv

\* The session file gets the token that the poll has returned.
LEMMA LoginSaves ==
  ASSUME TablesInv, NEW m \in Machines, SaveSession(m)
  PROVE  TablesInv'
<1>1. cli[m].pc = "granted" /\ cli[m] \in Commands
  BY DEF SaveSession, TablesInv, EnrollInv, CommandsTyped
<1>2. cli[m].token \in Ids /\ cli[m].token \in DOMAIN token
  BY <1>1 DEF Commands, TablesInv, LoginInv, AccountsInv, LoginKnows
<1>3. /\ cliFails(m) /\ session' = [session EXCEPT ![m] = cli[m].token]
      /\ UNCHANGED <<code, workspace, profile, token, approval>>
      /\ UNCHANGED <<secret, connector, binding, config>>
  BY DEF SaveSession, cliFails, gatewayVars, relayVars
<1> QED BY <1>2, <1>3, LoginSession

\* Logging out preserves the invariant.
LEMMA LoginRemoves ==
  ASSUME TablesInv, NEW m \in Machines, RemoveSession(m)
  PROVE  TablesInv'
<1>1. /\ cliFails(m) /\ session' = [session EXCEPT ![m] = None] /\ None \in Ids
      /\ UNCHANGED <<code, workspace, profile, token, approval>>
      /\ UNCHANGED <<secret, connector, binding, config>>
  BY DEF RemoveSession, cliFails, gatewayVars, relayVars, Ids
<1> QED BY <1>1, LoginSession

\* A revoked token is the token of the same workspace and person.
LEMMA LoginRevokes ==
  ASSUME TablesInv, NEW m \in Machines, RevokeAccessToken(m)
  PROVE  TablesInv'
<1> DEFINE t == session[m]
           row == [token[t] EXCEPT !.revoked = TRUE]
<1>1. /\ UNCHANGED <<code, workspace, profile, session, approval>>
      /\ UNCHANGED <<secret, connector, binding, config>>
      /\ cli' = [cli EXCEPT ![m].pc = "leaving"] /\ t # None
  BY DEF RevokeAccessToken, files, relayVars
<1>2. /\ CommandsTyped /\ cli[m] \in Commands /\ config \in [Machines -> Ids]
      /\ token \in Seq(TokenRows) /\ t \in DOMAIN token
  BY <1>1 DEF TablesInv, EnrollInv, EnrollmentTyped, CommandsTyped, LoginInv, AccountsTyped,
              AccountsInv, LoginKnows
<1>3. [cli[m] EXCEPT !.pc = "leaving"] \in Commands
  BY <1>2 DEF Commands
<1>4. /\ CommandsTyped' /\ Others(m) /\ cli'[m].pc = "leaving"
      /\ cli'[m].binding = cli[m].binding
  BY <1>1, <1>2, <1>3, CliTo
<1>5. EnrollInv'
  BY <1>1, <1>2, <1>4, EnrollQuiet DEF TablesInv
<1>6. /\ token' \in Seq(TokenRows)
      /\ DOMAIN token' = DOMAIN token
      /\ \A j \in DOMAIN token : token'[j].ws = token[j].ws /\ token'[j].email = token[j].email
  <2>1. CASE token' = token
    BY <1>2, <2>1
  <2>2. CASE token' = [token EXCEPT ![t].revoked = TRUE]
    <3>1. token[t] \in TokenRows
      BY <1>2
    <3>2. row \in TokenRows /\ row.ws = token[t].ws /\ row.email = token[t].email
      BY <3>1 DEF TokenRows
    <3>3. token' = [token EXCEPT ![t] = row]
      BY <2>2
    <3> HIDE DEF row
    <3>4. /\ token' \in Seq(TokenRows)
          /\ DOMAIN token' = DOMAIN token
          /\ \A j \in DOMAIN token : token'[j] = IF j = t THEN row ELSE token[j]
      BY <1>2, <3>2, <3>3, RowUpdate
    <3> HIDE DEF t
    <3> QED BY <3>2, <3>4
  <2> QED BY <2>1, <2>2 DEF RevokeAccessToken
<1>7. AccountsTyped'
  BY <1>1, <1>6 DEF TablesInv, LoginInv, AccountsTyped
<1>8. \A a \in Approvals : ApprovalKnows(a)'
  BY <1>1 DEF TablesInv, LoginInv, AccountsInv, ApprovalKnows, approves
<1>9. \A n \in Machines : LoginKnows(n)'
  BY <1>1, <1>4, <1>6 DEF TablesInv, LoginInv, AccountsInv, LoginKnows, Others
<1>10. \A i \in DOMAIN code' :
         code'[i].status = "approved" => Reaches(code[i].ws, code[i].email)'
  BY <1>1 DEF TablesInv, LoginInv, AccountsInv, Reaches
<1>11. \A i \in DOMAIN token' : Reaches(token[i].ws, token[i].email)'
  BY <1>1, <1>6 DEF TablesInv, LoginInv, AccountsInv, Reaches
<1> QED BY <1>5, <1>7, <1>8, <1>9, <1>10, <1>11 DEF TablesInv, LoginInv, AccountsInv

\* So does the row of the machine.
LEMMA LoginUpsertMachine ==
  ASSUME TablesInv, NEW m \in Machines, UpsertMachine(m)
  PROVE  TablesInv'
<1> DEFINE c == [NoCommand EXCEPT !.pc = "binding", !.token = session[m]]
<1>1. /\ UNCHANGED <<code, workspace, profile, token, session, approval>>
      /\ UNCHANGED <<secret, connector, binding, config>>
      /\ session[m] # None
  BY DEF UpsertMachine, files, relayVars
<1>2. CASE UNCHANGED cli
  BY <1>1, <1>2, EnrollFrame, LoginFrame DEF TablesInv
<1>3. CASE cli' = [cli EXCEPT ![m] = c]
  <2>1. /\ CommandsTyped /\ config \in [Machines -> Ids] /\ session[m] \in Ids
        /\ session[m] \in DOMAIN token
    BY <1>1 DEF TablesInv, EnrollInv, EnrollmentTyped, LoginInv, AccountsTyped,
                AccountsInv, LoginKnows
  <2>2. /\ c \in Commands /\ c.pc = "binding" /\ c.token = session[m] /\ c.binding = None
    BY <2>1 DEF NoCommand, Commands, Ids
  <2> HIDE DEF c
  <2>3. CommandsTyped' /\ cli'[m] = c /\ Others(m)
    BY <1>3, <2>1, <2>2, CommandStep
  <2>4. EnrollInv'
    BY <1>1, <2>1, <2>2, <2>3, EnrollQuiet DEF TablesInv
  <2>5. LoginInv'
    BY <1>1, <2>1, <2>2, <2>3, LoginQuiet DEF TablesInv
  <2> QED BY <2>4, <2>5 DEF TablesInv
<1> QED BY <1>2, <1>3 DEF UpsertMachine

-----------------------------------------------------------------------------
(* The commands of a connector login *)

Enrolling(m) ==
  \/ CreateConnectorBinding(m) \/ createRelayEnrollmentToken(m) \/ Enroll(m)
  \/ selectEnrollmentToken(m) \/ ConsumeEnrollmentToken(m) \/ SaveConnectorRecord(m)
  \/ SaveConfig(m) \/ CompleteConnectorBinding(m)

\* None of them waits for a code or is given a token.
LEMMA EnrollingMoves ==
  ASSUME CommandsTyped, NEW m \in Machines, Enrolling(m)
  PROVE  /\ Others(m)
         /\ cli'[m].pc \notin {"polling", "granted", "binding"}
         /\ UNCHANGED <<code, workspace, profile, token, session, approval>>
<1>1. cli \in [Machines -> Commands] /\ cli[m] \in Commands
  BY DEF CommandsTyped
<1>2. UNCHANGED <<code, workspace, profile, token, session, approval>>
  BY DEF Enrolling, CreateConnectorBinding, createRelayEnrollmentToken, Enroll,
         selectEnrollmentToken, ConsumeEnrollmentToken, SaveConnectorRecord, SaveConfig,
         CompleteConnectorBinding, gatewayVars, files
<1>3. CASE cliFails(m)
  BY <1>1, <1>2, <1>3 DEF cliFails, NoCommand, Others
<1>4. CASE \E pc \in {"consume", "save", "complete"} : cliTo(m, pc)
  BY <1>1, <1>2, <1>4 DEF cliTo, Others, Commands
<1>5. CASE cli' = [cli EXCEPT ![m].pc = "secret", ![m].binding = Len(binding) + 1]
  BY <1>1, <1>2, <1>5 DEF Others, Commands
<1>6. CASE cli' = [cli EXCEPT ![m].pc = "select", ![m].secret = Len(secret) + 1]
  BY <1>1, <1>2, <1>6 DEF Others, Commands
<1>7. CASE cli' = [cli EXCEPT ![m].pc = "enrolled", ![m].connector = Len(connector) + 1]
  BY <1>1, <1>2, <1>7 DEF Others, Commands
<1>8. CASE Enroll(m)
  <2>1. PICK s \in {EnrollmentSecret} \cup DOMAIN secret :
          cli' = [cli EXCEPT ![m] = [NoCommand EXCEPT
                    !.pc = IF s = EnrollmentSecret THEN "save" ELSE "select", !.secret = s]]
    BY <1>8 DEF Enroll
  <2> QED BY <1>1, <1>2, <2>1 DEF NoCommand, Others
<1> QED BY <1>3, <1>4, <1>5, <1>6, <1>7, <1>8
        DEF Enrolling, CreateConnectorBinding, createRelayEnrollmentToken,
            selectEnrollmentToken, ConsumeEnrollmentToken, SaveConnectorRecord, SaveConfig,
            CompleteConnectorBinding

\* Every step of an enrollment preserves the invariant of the tables,
LEMMA TablesEnrolling ==
  ASSUME TablesInv, NEW m \in Machines, Enrolling(m)
  PROVE  TablesInv'
<1>1. CommandsTyped /\ EnrollInv /\ LoginInv
  BY DEF TablesInv, EnrollInv
<1>2. LoginInv'
  BY <1>1, EnrollingMoves, LoginQuiet
<1>3. EnrollInv'
  BY <1>1, EnrollCreateBinding, EnrollCreateSecret, EnrollStart, EnrollSelect, EnrollConsume,
     EnrollSave, EnrollSaveConfig, EnrollComplete DEF Enrolling
<1> QED BY <1>2, <1>3 DEF TablesInv

\* every step of a login,
LEMMA TablesLogin ==
  ASSUME TablesInv, NEW m \in Machines, Login(m)
  PROVE  TablesInv'
<1>1. CASE UpsertRelayProfile(m) \/ RemoveRelayProfile(m)
  <2>1. UNCHANGED <<cli, secret, connector, binding, config>>
    BY <1>1 DEF UpsertRelayProfile, RemoveRelayProfile, relayVars, files
  <2> QED BY <1>1, <2>1, EnrollFrame, LoginUpsertProfile, LoginRemoveProfile DEF TablesInv
<1> QED BY <1>1, LoginAuthorizes, LoginPolls, LoginSaves, LoginRevokes, LoginRemoves DEF Login

\* every step of a connector login,
LEMMA TablesConnect ==
  ASSUME TablesInv, NEW m \in Machines, Connect(m)
  PROVE  TablesInv'
<1>1. CASE CreateChallenge(m)
  <2>1. /\ UNCHANGED <<cli, secret, connector, binding, config>>
        /\ UNCHANGED <<code, workspace, profile, token, session, approval>>
    BY <1>1 DEF CreateChallenge, gatewayVars, files
  <2> QED BY <2>1, EnrollFrame, LoginFrame DEF TablesInv
<1>2. CASE Enrolling(m)
  BY <1>2, TablesEnrolling
<1> QED BY <1>1, <1>2, LoginUpsertMachine DEF Connect, Enrolling

\* every step of an approval,
LEMMA TablesApprove ==
  ASSUME TablesInv, NEW a \in Approvals, Approve(a)
  PROVE  TablesInv'
<1>1. UNCHANGED <<cli, secret, connector, binding, config>>
  BY DEF Approve, ApproveDeviceCode, EnsureUserWorkspace, insertUser, ensurePersonalWorkspace,
         insertWorkspace, EnsureDefaultRelayProfile, markApproved, approvalFails,
         gatewayVars, relayVars, files
<1>2. CASE approvalFails(a)
  <2>1. /\ UNCHANGED <<cli, code, token, session, workspace, profile>>
        /\ approval' = [approval EXCEPT ![a] = NoApproval]
    BY <1>2 DEF approvalFails, gatewayVars, files
  <2> QED BY <1>1, <2>1, EnrollFrame, ApprovalGivesUp DEF TablesInv
<1>3. CASE ~approvalFails(a)
  <2>1. LoginInv'
    BY <1>3, ApprovalReadsCode, ApprovalLooksUpUser, ApprovalInsertsUser,
       ApprovalFindsWorkspace, ApprovalInsertsWorkspace, ApprovalAddsRelay, ApprovalMarks
       DEF Approve, TablesInv
  <2> QED BY <1>1, <2>1, EnrollFrame DEF TablesInv
<1> QED BY <1>2, <1>3

\* and every step of a hello.
LEMMA TablesOpen ==
  ASSUME TablesInv, NEW k \in Sockets, Open(k)
  PROVE  TablesInv'
<1>1. UNCHANGED <<cli, code, workspace, profile, token, session, approval>>
  BY DEF Open, VerifyHello, selectChallenge, ConsumeChallenge, MarkConnectorSeen,
         gatewayVars, files
<1>2. CASE MarkConnectorSeen(k)
  BY <1>1, <1>2, LoginFrame, EnrollSeen DEF TablesInv
<1>3. CASE ~MarkConnectorSeen(k)
  <2>1. UNCHANGED <<cli, secret, connector, binding, config>>
    BY <1>3 DEF Open, VerifyHello, selectChallenge, ConsumeChallenge, gatewayVars, relayVars,
                files
  <2> QED BY <1>1, <2>1, LoginFrame, EnrollFrame DEF TablesInv
<1> QED BY <1>2, <1>3

-----------------------------------------------------------------------------
(* The specification *)

OnboardingInv == TablesInv /\ HelloInv

\* The invariant holds initially.
LEMMA InitOnboarding == Init => OnboardingInv
<1> SUFFICES ASSUME Init PROVE OnboardingInv
  OBVIOUS
<1>1. NoCommand \in Commands /\ NoApproval \in ApprovalStates /\ NoHello \in HelloStates
  BY NoCommandTyped
<1>2. /\ CommandsTyped /\ AccountsTyped /\ BindingsTyped /\ EnrollmentTyped
      /\ ChallengesTyped
  BY <1>1 DEF Init, CommandsTyped, AccountsTyped, BindingsTyped, EnrollmentTyped,
              ChallengesTyped, Ids
<1>3. AccountsInv
  BY DEF Init, AccountsInv, ApprovalKnows, LoginKnows, NoApproval, NoCommand
<1>4. SecretsInv /\ BindingsInv
  BY DEF Init, SecretsInv, BindingsInv, Paid, Enrolled, OneConnectorPerToken,
         BindingNamesItsConnector, NoCommand
<1>5. ChallengesInv
  BY DEF Init, ChallengesInv, Checking, ChallengeAdmitsOnce, NoHello
<1> QED BY <1>2, <1>3, <1>4, <1>5 DEF OnboardingInv, TablesInv, EnrollInv, LoginInv, HelloInv

\* Steps that leave challenges and hellos alone preserve the invariant of hellos.
LEMMA HelloFrame ==
  ASSUME HelloInv, UNCHANGED <<challenge, hello>>
  PROVE  HelloInv'
BY DEF HelloInv, ChallengesTyped, ChallengesInv, Checking, ChallengeAdmitsOnce

\* Every step preserves the invariant of hellos.
LEMMA HelloNext ==
  ASSUME OnboardingInv, Next
  PROVE  HelloInv'
<1>0. HelloInv /\ EnrollmentTyped
  BY DEF OnboardingInv, TablesInv, EnrollInv
<1>1. ASSUME NEW k \in Sockets, Open(k) PROVE HelloInv'
  BY <1>0, <1>1, HelloVerify, HelloSelect, HelloConsume, HelloSeen DEF Open
<1>2. ASSUME NEW m \in Machines, CreateChallenge(m) PROVE HelloInv'
  BY <1>0, <1>2, HelloCreateChallenge
<1>3. ASSUME NEW m \in Machines, Login(m) PROVE UNCHANGED <<challenge, hello>>
  BY <1>3 DEF Login, CreateDeviceAuthorization, PollDeviceToken, SaveSession,
              RevokeAccessToken, RemoveSession, UpsertRelayProfile, RemoveRelayProfile, relayVars
<1>4. ASSUME NEW m \in Machines, Connect(m), ~CreateChallenge(m)
      PROVE  UNCHANGED <<challenge, hello>>
  BY <1>4 DEF Connect, UpsertMachine, CreateConnectorBinding, createRelayEnrollmentToken, Enroll,
              selectEnrollmentToken, ConsumeEnrollmentToken, SaveConnectorRecord, SaveConfig,
              CompleteConnectorBinding, relayVars
<1>5. ASSUME NEW a \in Approvals, Approve(a) PROVE UNCHANGED <<challenge, hello>>
  BY <1>5 DEF Approve, ApproveDeviceCode, EnsureUserWorkspace, insertUser,
              ensurePersonalWorkspace, insertWorkspace, EnsureDefaultRelayProfile, markApproved,
              approvalFails, relayVars
<1>6. ASSUME NEW m \in Machines, commandFails(m) PROVE UNCHANGED <<challenge, hello>>
  BY <1>6 DEF commandFails, relayVars
<1>7. ASSUME NEW c \in DOMAIN code, codeExpires(c) PROVE UNCHANGED <<challenge, hello>>
  BY <1>7 DEF codeExpires, relayVars
<1>8. ASSUME NEW k \in DOMAIN connector, SetConnectorDisabled(k)
      PROVE  UNCHANGED <<challenge, hello>>
  BY <1>8 DEF SetConnectorDisabled
<1> QED BY <1>0, <1>1, <1>2, <1>3, <1>4, <1>5, <1>6, <1>7, <1>8, HelloFrame DEF Next

\* Every step preserves the invariant of the tables.
LEMMA TablesNext ==
  ASSUME OnboardingInv, Next
  PROVE  TablesInv'
<1>0. TablesInv
  BY DEF OnboardingInv
<1>1. ASSUME NEW m \in Machines, commandFails(m) PROVE TablesInv'
  <2>1. /\ cliFails(m)
        /\ UNCHANGED <<code, workspace, profile, token, session, approval>>
        /\ UNCHANGED <<secret, connector, binding, config>>
    BY <1>1 DEF commandFails, gatewayVars, relayVars, files
  <2> QED BY <1>0, <2>1, CommandFails
<1>2. ASSUME NEW c \in DOMAIN code, codeExpires(c) PROVE TablesInv'
  <2>1. UNCHANGED <<cli, secret, connector, binding, config>>
    BY <1>2 DEF codeExpires, relayVars, files
  <2> QED BY <1>0, <1>2, <2>1, EnrollFrame, CodeExpires DEF TablesInv
<1>3. ASSUME NEW k \in DOMAIN connector, SetConnectorDisabled(k) PROVE TablesInv'
  <2>1. UNCHANGED <<cli, code, workspace, profile, token, session, approval>>
    BY <1>3 DEF SetConnectorDisabled, gatewayVars, files
  <2> QED BY <1>0, <1>3, <2>1, LoginFrame, EnrollDisabled DEF TablesInv
<1> QED BY <1>0, <1>1, <1>2, <1>3, TablesLogin, TablesConnect, TablesApprove, TablesOpen DEF Next

\* The invariant holds in every reachable state.
LEMMA Inductive == Spec => []OnboardingInv
<1>1. Init => OnboardingInv
  BY InitOnboarding
<1>2. OnboardingInv /\ [Next]_vars => OnboardingInv'
  <2> SUFFICES ASSUME OnboardingInv, [Next]_vars PROVE OnboardingInv'
    OBVIOUS
  <2>1. CASE Next
    BY <2>1, TablesNext, HelloNext DEF OnboardingInv
  <2>2. CASE UNCHANGED vars
    <3>1. /\ UNCHANGED <<cli, secret, connector, binding, config>>
          /\ UNCHANGED <<cli, code, workspace, profile, token, session, approval>>
          /\ UNCHANGED <<challenge, hello>>
      BY <2>2 DEF vars, gatewayVars, relayVars, files
    <3> QED BY <3>1, EnrollFrame, LoginFrame, HelloFrame DEF OnboardingInv, TablesInv
  <2> QED BY <2>1, <2>2
<1> QED BY <1>1, <1>2, PTL DEF Spec

\* Every access token opens a workspace of the person who was approved, with the
\* relay a connector login needs, for any number of approvals that overlap, fail
\* half-way and are repeated (ApproveDeviceCode, PollDeviceToken).
THEOREM TokensReachRelays == Spec => []TokenReachesRelay
<1>1. OnboardingInv => TokenReachesRelay
  BY DEF OnboardingInv, TablesInv, LoginInv, AccountsInv, TokenReachesRelay, Reaches
<1> QED BY <1>1, Inductive, PTL

\* A one-time secret enrolls one connector, for any number of machines that
\* present it at the same time (ConsumeEnrollmentToken, SaveConnectorRecord).
THEOREM SecretsEnrollOnce == Spec => []OneConnectorPerToken
<1>1. OnboardingInv => OneConnectorPerToken
  BY DEF OnboardingInv, TablesInv, EnrollInv, SecretsInv
<1> QED BY <1>1, Inductive, PTL

\* A challenge admits one hello, for any number of sockets that answer it at the
\* same time (ConsumeChallenge, MarkConnectorSeen).
THEOREM ChallengesAdmitOnce == Spec => []ChallengeAdmitsOnce
<1>1. OnboardingInv => ChallengeAdmitsOnce
  BY DEF OnboardingInv, HelloInv, ChallengesInv
<1> QED BY <1>1, Inductive, PTL

\* A binding that is complete names a connector with the key of its own machine
\* that no other binding names, however many logins of a machine fail half-way
\* (handleConnectorLogin, SaveConnectorRecord, handleConnectorComplete).
THEOREM BindingsNameTheirConnectors == Spec => []BindingNamesItsConnector
<1>1. OnboardingInv => BindingNamesItsConnector
  BY DEF OnboardingInv, TablesInv, EnrollInv, BindingsInv
<1> QED BY <1>1, Inductive, PTL

=============================================================================
