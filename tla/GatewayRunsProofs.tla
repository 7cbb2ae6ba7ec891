-------------------------- MODULE GatewayRunsProofs --------------------------
(***************************************************************************)
(* Theorems about GatewayRuns for any number of relays, places, runs, rows *)
(* and requests under way.                                                 *)
(*                                                                         *)
(* The row a handler holds is a copy, and it is written back whole, so the *)
(* invariants speak of the copies as well as of the table: a copy that     *)
(* belongs to a submission has no run, every other one has the run that    *)
(* was asked for, and the outcome either of them shows is in the audit or  *)
(* about to be written there.                                              *)
(*                                                                         *)
(* That a row names the machine of its run needs two hypotheses besides:   *)
(* submissions name the machine, and later requests name the route of the  *)
(* row.                                                                    *)
(***************************************************************************)
EXTENDS GatewayRuns, FiniteSetTheorems, WellFoundedInduction, TLAPS

Lifecycle == {"report", "cancel", "resume"}
PayloadStates == RunStates \cup {"timeout", "cancel_requested", "blocked"}
Payloads == {payload(s, None) : s \in PayloadStates} \cup
            {payload("blocked", "blocker"), payload("running", "run_resumed")}
Routes == [relay : Relays \cup {None}, place : Places \cup {None}]
Rows == [run : RunIds \cup {None}, status : PayloadStates \cup {"unused", "submitted"},
         report : {"none", "pending", "unavailable", "completed", "available", "synced"},
         relay : Relays \cup {None}, place : Places \cup {None}]
Matches == [relay : Relays, online : SUBSET Places]
HandlerStates ==
  [pc : {"idle", "resolving", "routing", "calling", "waiting", "answered", "finishing", "auditing"},
   op : Lifecycle \cup {"submit", None}, rec : Records \cup {None}, row : Rows,
   id : RunIds \cup {None}, sel : Routes, left : SUBSET Relays, found : SUBSET Matches,
   skipped : SUBSET Relays, to : Places \cup {None}, payload : Payloads \cup {None}]

TypeOK ==
  /\ online \in SUBSET Places
  /\ run \in [Places -> [RunIds -> RunStates]]
  /\ record \in [Records -> Rows]
  /\ recent \in Seq(Records)
  /\ handler \in [Handlers -> HandlerStates]

\* A row with a run is not a submission; only a run is blocked.
goodRow(row) == /\ row.run # None => row.status # "submitted"
                /\ row.status = "blocked" => row.run # None

\* The handlers at work on a submission, and on a request for a run.
working(c) == c.pc \notin {"idle", "auditing"}
submitting(c) == working(c) /\ c.op = "submit"
following(c) == working(c) /\ c.op # "submit"

\* What a handler has in hand, by operation and stage.
goodHandler(c) ==
  /\ c.pc = "idle" => c.rec = None
  /\ c.pc = "auditing" => c.payload \in Payloads
  /\ submitting(c) =>
       /\ c.rec \in Records /\ c.row.run = None /\ c.row.status = "submitted"
       /\ c.pc \in {"answered", "finishing"} => c.payload \in Payloads /\ c.payload.status # "blocked"
       /\ c.pc \in {"waiting", "answered"} \/ (c.pc = "finishing" /\ c.to # None) =>
            c.to \in Places /\ c.id \in RunIds
  /\ following(c) =>
       /\ c.op \in Lifecycle /\ c.pc # "waiting" /\ c.id \in RunIds
       /\ c.rec # None => /\ c.pc \in {"routing", "finishing"}
                          /\ c.row.run = c.id /\ c.row.status # "submitted"
       /\ c.pc \in {"answered", "routing", "finishing"} => c.to \in Places /\ c.payload \in Payloads
  /\ c.pc \in {"routing", "calling", "waiting", "answered"} => c.found # {}

Good == /\ \A h \in Handlers : goodHandler(handler[h])
        /\ \A k \in Records : goodRow(record[k])

\* A row that is being submitted belongs to one handler.
Owned ==
  /\ \A h1, h2 \in Handlers :
       submitting(handler[h1]) /\ submitting(handler[h2]) /\ handler[h1].rec = handler[h2].rec
       => h1 = h2
  /\ \A k \in Records \ abandoned :
       record[k].status = "submitted" =>
         \E h \in Handlers : submitting(handler[h]) /\ handler[h].rec = k

\* The outcome that a state of row k shows was audited, or is about to be.
final(row) ==
  /\ row.report \notin {"none", "synced"}
  /\ outcome(row) \in {"run_completed", "run_failed", "run_cancelled", "blocker"}
  /\ row.status # "submitted"

auditsFor(c, k, type) ==
  c.pc = "auditing" /\ c.rec = k /\ terminalAuditType(c.payload) = type

accounted(k, row, hs, events) ==
  final(row) => \/ <<k, outcome(row)>> \in events
                \/ \E h \in Handlers : auditsFor(hs[h], k, outcome(row))

Accounted ==
  /\ \A k \in Records \ abandoned : accounted(k, record[k], handler, audit)
  /\ \A h \in Handlers :
       following(handler[h]) /\ handler[h].rec \in Records \ abandoned
       => accounted(handler[h].rec, handler[h].row, handler, audit)

IInv == TypeOK /\ Good /\ Owned /\ Accounted

\* The relay that resolveProject has settled on.
matchRelay(c) == (CHOOSE x \in c.found : TRUE).relay

\* The place a handler was sent to, and the one its row names, have the run.
namesItsRun(c, state) ==
  /\ working(c) => c.sel.place \in Places
  /\ following(c) =>
       /\ state[c.sel.place][c.id] # "none"
       /\ c.pc \in {"answered", "routing"} => RelayOf[c.sel.place] = matchRelay(c)
       /\ c.pc = "finishing" /\ c.rec # None => c.row.place = c.sel.place
  /\ submitting(c) =>
       /\ c.pc = "calling" /\ RelayOf[c.sel.place] = matchRelay(c) => c.row.place = c.sel.place
       /\ c.pc \in {"waiting", "answered"} \/ (c.pc = "finishing" /\ c.to # None) =>
            /\ c.to = c.sel.place /\ c.row.place = c.to
            /\ state[c.to][c.id] # "none"

Named == RecordNamesItsRun /\ \A h \in Handlers : namesItsRun(handler[h], run)

-----------------------------------------------------------------------------
(* Operators *)

\* A nonempty bounded set of natural numbers has a greatest member.
LEMMA MaxIsMember ==
  ASSUME NEW n \in Nat, NEW S \in SUBSET (1..n), S # {}
  PROVE  Max(S) \in S
<1> DEFINE T == {n - i : i \in S}
<1>1. T \in SUBSET Nat /\ T # {}
  <2>1. \A i \in S : n - i \in Nat
    OBVIOUS
  <2> QED BY <2>1
<1>2. PICK m \in T : \A j \in T : ~ (<<j, m>> \in OpToRel(<, Nat))
  <2> HIDE DEF T
  <2> QED BY <1>1, NatLessThanWellFounded, WFMin
<1>3. \A j \in T : ~ (j < m)
  BY <1>1, <1>2 DEF OpToRel
<1>4. PICK i \in S : m = n - i
  BY <1>2
<1>5. \A j \in S : i >= j
  <2> SUFFICES ASSUME NEW j \in S PROVE i >= j
    OBVIOUS
  <2>1. n - j \in T
    OBVIOUS
  <2>2. ~ (n - j < n - i)
    BY <1>3, <1>4, <2>1
  <2> QED BY <2>2
<1> QED BY <1>5 DEF Max

\* The newest of some rows is one of them.
LEMMA NewestIsRow ==
  ASSUME recent \in Seq(Records), NEW S \in SUBSET Records
  PROVE  newest(S) = None \/ newest(S) \in S
<1> DEFINE at == {i \in DOMAIN recent : recent[i] \in S}
<1>1. at \in SUBSET (1..Len(recent)) /\ Len(recent) \in Nat
  OBVIOUS
<1>2. at # {} => Max(at) \in at
  <2> HIDE DEF at
  <2> QED BY <1>1, MaxIsMember
<1>3. newest(S) = IF at = {} THEN None ELSE recent[Max(at)]
  BY DEF newest
<1> QED BY <1>2, <1>3

\* updated_at orders rows of the table.
LEMMA TouchedType ==
  ASSUME recent \in Seq(Records), NEW k \in Records
  PROVE  touched(k) \in Seq(Records)
<1> DEFINE at == {i \in DOMAIN recent : recent[i] = k}
           j == CHOOSE i \in at : TRUE
<1>1. at # {} => j \in 1..Len(recent)
  OBVIOUS
<1>2. at # {} => RemoveAt(recent, j) \in Seq(Records)
  <2> HIDE DEF at, j
  <2> SUFFICES ASSUME j \in 1..Len(recent) PROVE RemoveAt(recent, j) \in Seq(Records)
    BY <1>1
  <2>1. SubSeq(recent, 1, j - 1) \in Seq(Records)
    OBVIOUS
  <2>2. SubSeq(recent, j + 1, Len(recent)) \in Seq(Records)
    OBVIOUS
  <2> QED BY <2>1, <2>2 DEF RemoveAt
<1>3. touched(k) = Append(IF at = {} THEN recent ELSE RemoveAt(recent, j), k)
  BY DEF touched
<1> HIDE DEF at, j
<1> QED BY <1>2, <1>3

\* The outcome a row shows after a payload is the one the payload is audited as.
LEMMA PayloadOutcome ==
  ASSUME NEW pl \in Payloads
  PROVE  /\ pl.status \in PayloadStates
         /\ terminalAuditType(payload(pl.status, None)) \in
              {"run_completed", "run_failed", "run_cancelled", "blocker"}
            => terminalAuditType(pl) = terminalAuditType(payload(pl.status, None))
<1>1. CASE pl = payload("blocked", "blocker")
  BY <1>1 DEF payload, PayloadStates, terminalAuditType
<1>2. CASE pl = payload("running", "run_resumed")
  <2>1. pl.status = "running"
    BY <1>2 DEF payload
  <2>2. terminalAuditType(payload("running", None)) = "run_started"
    BY DEF payload, terminalAuditType
  <2> QED BY <2>1, <2>2 DEF PayloadStates, RunStates
<1>3. ASSUME NEW s \in PayloadStates, pl = payload(s, None)
      PROVE  pl.status = s
  BY <1>3 DEF payload
<1> QED BY <1>1, <1>2, <1>3 DEF Payloads

\* The idle handler.
LEMMA NoHandlerType ==
  /\ NoRow \in Rows /\ NoHandler \in HandlerStates /\ goodHandler(NoHandler)
  /\ NoHandler.pc = "idle" /\ NoHandler.rec = None /\ NoRow.status = "unused"
  /\ NoRow.run = None
BY DEF NoRow, NoHandler, Rows, HandlerStates, Routes, goodHandler, submitting, following, working

\* What a request under way can do with the audit of others.
LEMMA AccountedKept ==
  ASSUME NEW k, NEW row, accounted(k, row, handler, audit), audit \subseteq audit',
         \A h \in Handlers : handler[h].pc = "auditing" /\ handler[h].rec = k =>
           \/ handler'[h] = handler[h]
           \/ <<k, terminalAuditType(handler[h].payload)>> \in audit'
  PROVE  accounted(k, row, handler', audit')
BY DEF accounted, auditsFor, final, outcome

-----------------------------------------------------------------------------
(* Steps of one handler *)

\* A step of handler h keeps the invariant if what it has in hand afterwards is
\* good, what it writes is good and accounted for, what it leaves was audited
\* or abandoned, and it neither takes a submission over nor drops one.
LEMMA HandlerStep ==
  ASSUME IInv, NEW h \in Handlers, NEW c \in HandlerStates, goodHandler(c),
         handler' = [handler EXCEPT ![h] = c],
         online' \in SUBSET Places, run' \in [Places -> [RunIds -> RunStates]],
         record' \in [Records -> Rows], recent' \in Seq(Records),
         audit \subseteq audit', abandoned \subseteq abandoned',
         \A k \in Records : \/ record'[k] = record[k]
                            \/ /\ goodRow(record'[k])
                               /\ k \notin abandoned' => accounted(k, record'[k], handler', audit'),
         handler[h].pc = "auditing" /\ handler[h].rec \in Records =>
           \/ handler[h].rec \in abandoned'
           \/ <<handler[h].rec, terminalAuditType(handler[h].payload)>> \in audit',
         submitting(c) =>
           \/ submitting(handler[h]) /\ c.rec = handler[h].rec
           \/ \A g \in Handlers : submitting(handler[g]) => handler[g].rec # c.rec,
         \A k \in Records \ abandoned' : record'[k].status = "submitted" =>
           \/ submitting(c) /\ c.rec = k
           \/ record[k].status = "submitted" /\ ~(submitting(handler[h]) /\ handler[h].rec = k),
         following(c) /\ c.rec \in Records \ abandoned' => accounted(c.rec, c.row, handler', audit')
  PROVE  IInv'
<1>1. /\ handler' \in [Handlers -> HandlerStates] /\ handler'[h] = c
      /\ \A g \in Handlers \ {h} : handler'[g] = handler[g]
  BY DEF IInv, TypeOK
<1>2. TypeOK'
  BY <1>1 DEF TypeOK
<1>3. Good'
  BY <1>1 DEF IInv, Good
<1>4. Owned'
  <2>1. ASSUME NEW g \in Handlers, NEW f \in Handlers, submitting(handler'[g]),
               submitting(handler'[f]), handler'[g].rec = handler'[f].rec
        PROVE  g = f
    <3>1. CASE g # h /\ f # h
      BY <1>1, <2>1, <3>1 DEF IInv, Owned
    <3>2. CASE g = h /\ f # h
      BY <1>1, <2>1, <3>2 DEF IInv, Owned
    <3>3. CASE g # h /\ f = h
      BY <1>1, <2>1, <3>3 DEF IInv, Owned
    <3> QED BY <3>1, <3>2, <3>3
  <2>2. ASSUME NEW k \in Records \ abandoned', record'[k].status = "submitted"
        PROVE  \E g \in Handlers : submitting(handler'[g]) /\ handler'[g].rec = k
    <3>1. CASE submitting(c) /\ c.rec = k
      BY <1>1, <3>1
    <3>2. CASE record[k].status = "submitted" /\ ~(submitting(handler[h]) /\ handler[h].rec = k)
      <4>1. PICK g \in Handlers : submitting(handler[g]) /\ handler[g].rec = k
        BY <3>2 DEF IInv, Owned
      <4>2. g # h
        BY <3>2, <4>1
      <4> QED BY <1>1, <4>1, <4>2
    <3> QED BY <2>2, <3>1, <3>2
  <2> QED BY <2>1, <2>2 DEF Owned
<1>5. ASSUME NEW k \in Records \ abandoned', NEW row, accounted(k, row, handler, audit)
      PROVE  accounted(k, row, handler', audit')
  <2>1. \A g \in Handlers : handler[g].pc = "auditing" /\ handler[g].rec = k =>
          \/ handler'[g] = handler[g]
          \/ <<k, terminalAuditType(handler[g].payload)>> \in audit'
    BY <1>1
  <2> QED BY <1>5, <2>1, AccountedKept
<1>6. Accounted'
  <2>1. ASSUME NEW k \in Records \ abandoned' PROVE accounted(k, record'[k], handler', audit')
    <3>1. CASE record'[k] = record[k]
      <4>1. accounted(k, record[k], handler, audit)
        BY DEF IInv, Accounted
      <4> QED BY <1>5, <3>1, <4>1
    <3> QED BY <3>1
  <2>2. ASSUME NEW g \in Handlers, following(handler'[g]), handler'[g].rec \in Records \ abandoned'
        PROVE  accounted(handler'[g].rec, handler'[g].row, handler', audit')
    <3>1. CASE g = h
      <4>1. accounted(c.rec, c.row, handler', audit')
        BY <1>1, <2>2, <3>1
      <4> QED BY <1>1, <3>1, <4>1
    <3>2. CASE g # h
      <4> DEFINE k == handler[g].rec
                 row == handler[g].row
      <4>1. handler'[g].rec = k /\ handler'[g].row = row /\ following(handler[g])
            /\ k \in Records \ abandoned'
        BY <1>1, <2>2, <3>2
      <4>2. accounted(k, row, handler, audit)
        BY <4>1 DEF IInv, Accounted
      <4> QED BY <1>5, <4>1, <4>2
    <3> QED BY <3>1, <3>2
  <2> QED BY <2>1, <2>2 DEF Accounted
<1> QED BY <1>2, <1>3, <1>4, <1>6 DEF IInv

\* A step that leaves the store alone.
LEMMA QuietStep ==
  ASSUME IInv, NEW h \in Handlers, NEW c \in HandlerStates, goodHandler(c),
         handler' = [handler EXCEPT ![h] = c],
         UNCHANGED <<online, storeVars, abandoned>>, run' \in [Places -> [RunIds -> RunStates]],
         handler[h].pc # "auditing",
         submitting(handler[h]) <=> submitting(c),
         submitting(c) => c.rec = handler[h].rec,
         following(c) /\ c.rec \in Records \ abandoned => accounted(c.rec, c.row, handler', audit')
  PROVE  IInv'
<1>1. /\ online' \in SUBSET Places /\ record' \in [Records -> Rows] /\ recent' \in Seq(Records)
      /\ audit' = audit /\ abandoned' = abandoned /\ record' = record
  BY DEF IInv, TypeOK, storeVars
<1> QED BY <1>1, HandlerStep

\* A request for the run of a row begins.
LEMMA RequestInv ==
  ASSUME IInv, NEW h \in Handlers, NEW k \in Records, NEW op \in Lifecycle, NEW sel \in Routes,
         requestRun(h, k, op, sel)
  PROVE  IInv'
<1> DEFINE c == [NoHandler EXCEPT !.pc = "resolving", !.op = op, !.id = record[k].run, !.sel = sel,
                                  !.left = relayProfiles(sel)]
<1>1. /\ handler[h].pc = "idle" /\ handler' = [handler EXCEPT ![h] = c]
      /\ UNCHANGED <<online, storeVars, abandoned>>
      /\ run' \in [Places -> [RunIds -> RunStates]]
  BY DEF requestRun, IInv, TypeOK
<1>2. record[k].run \in RunIds
  BY DEF requestRun, IInv, TypeOK, Rows
<1>3. relayProfiles(sel) \in SUBSET Relays
  BY DEF relayProfiles, Routes
<1>4. /\ c \in HandlerStates /\ c.pc = "resolving" /\ c.op = op /\ c.rec = None
      /\ c.id = record[k].run
  BY <1>2, <1>3 DEF NoHandler, NoRow, HandlerStates, Rows, Lifecycle
<1> HIDE DEF c
<1>5. goodHandler(c) /\ ~submitting(c) /\ ~submitting(handler[h])
  BY <1>1, <1>2, <1>4 DEF goodHandler, submitting, following, working, Lifecycle
<1>6. c.rec \notin Records
  BY <1>4, GatewayRunsConstants
<1> QED BY <1>1, <1>4, <1>5, <1>6, QuietStep

\* What a caller names of a row is a route.
LEMMA RouteType ==
  ASSUME IInv, NEW k \in Records
  PROVE  routeOf(k) \in Routes /\ namedRoute(k) \in Routes
<1>1. record[k].relay \in Relays \cup {None} /\ record[k].place \in Places \cup {None}
  BY DEF IInv, TypeOK, Rows
<1> QED BY <1>1 DEF routeOf, namedRoute, Routes

\* fetchRelayProject
LEMMA FetchInv ==
  ASSUME IInv, NEW h \in Handlers, fetchRelayProject(h)
  PROVE  IInv'
<1> DEFINE e == handler[h]
<1>1. PICK l \in e.left, reached \in BOOLEAN :
        LET there == {p \in Places : RelayOf[p] = l} IN
        handler' = [handler EXCEPT ![h] = [e EXCEPT
          !.left = e.left \ {l},
          !.found = e.found \cup
                    IF reached THEN {[relay |-> l, online |-> online \cap there]} ELSE {},
          !.skipped = e.skipped \cup IF reached THEN {} ELSE {l}]]
  BY DEF fetchRelayProject
<1>2. /\ e \in HandlerStates /\ e.pc = "resolving" /\ goodHandler(e)
      /\ UNCHANGED <<online, storeVars, abandoned>>
      /\ run' \in [Places -> [RunIds -> RunStates]] /\ online \in SUBSET Places
      /\ following(e) /\ e.rec \in Records \ abandoned => accounted(e.rec, e.row, handler, audit)
  BY DEF fetchRelayProject, IInv, TypeOK, Good, Accounted
<1> HIDE DEF e
<1> DEFINE left == e.left \ {l}
           found == e.found \cup IF reached
                    THEN {[relay |-> l, online |-> online \cap {p \in Places : RelayOf[p] = l}]}
                    ELSE {}
           skipped == e.skipped \cup IF reached THEN {} ELSE {l}
           c == [e EXCEPT !.left = left, !.found = found, !.skipped = skipped]
<1>3. e.left \in SUBSET Relays /\ e.found \in SUBSET Matches /\ e.skipped \in SUBSET Relays
  BY <1>2 DEF HandlerStates
<1>4. left \in SUBSET Relays /\ found \in SUBSET Matches /\ skipped \in SUBSET Relays
  BY <1>1, <1>2, <1>3 DEF Matches
<1>5. handler' = [handler EXCEPT ![h] = c]
  BY <1>1
<1> HIDE DEF left, found, skipped
<1>6. /\ c \in HandlerStates /\ c.pc = "resolving" /\ c.op = e.op /\ c.rec = e.rec /\ c.row = e.row
      /\ c.id = e.id
  BY <1>2, <1>4 DEF HandlerStates
<1> HIDE DEF c
<1>7. goodHandler(c) /\ (submitting(c) <=> submitting(e)) /\ (following(c) <=> following(e))
  BY <1>2, <1>6 DEF goodHandler, submitting, following, working
<1>8. ~(following(e) /\ e.rec \in Records)
  BY <1>2, GatewayRunsConstants DEF goodHandler
<1> QED BY <1>2, <1>5, <1>6, <1>7, <1>8, QuietStep DEF e

\* A handler that has no row yet, or has a submission's, goes to another stage
\* with the row it has.
LEMMA StageInv ==
  ASSUME IInv, NEW h \in Handlers, NEW c \in HandlerStates, goodHandler(c),
         handler' = [handler EXCEPT ![h] = c],
         working(handler[h]), working(c), c.op = handler[h].op,
         c.rec = handler[h].rec, handler[h].pc \in {"resolving", "calling", "waiting", "answered"},
         UNCHANGED <<online, storeVars, abandoned>>, run' \in [Places -> [RunIds -> RunStates]]
  PROVE  IInv'
<1>1. goodHandler(handler[h])
  BY DEF IInv, Good
<1>2. (submitting(c) <=> submitting(handler[h])) /\ handler[h].pc # "auditing"
  BY DEF submitting, working
<1>3. following(c) => c.rec \notin Records
  BY <1>1, GatewayRunsConstants DEF goodHandler, following
<1> QED BY <1>2, <1>3, QuietStep

\* A handler that gives up ends, or writes the failure of its submission down.
LEMMA GivesUpInv ==
  ASSUME IInv, NEW h \in Handlers, givesUp(h),
         handler[h].pc \in {"resolving", "calling", "waiting", "answered"},
         UNCHANGED <<online, run, storeVars, abandoned>>
  PROVE  IInv'
<1> DEFINE e == handler[h]
<1>0. /\ e \in HandlerStates /\ goodHandler(e) /\ working(e)
      /\ run' \in [Places -> [RunIds -> RunStates]]
  BY DEF IInv, TypeOK, Good, working
<1>1. CASE e.op = "submit"
  <2> DEFINE pl == payload("failed", None)
             c == [e EXCEPT !.pc = "finishing", !.to = None, !.payload = pl]
  <2>1. handler' = [handler EXCEPT ![h] = c]
    BY <1>1 DEF givesUp
  <2>2. pl \in Payloads /\ pl.status = "failed"
    BY DEF Payloads, PayloadStates, RunStates, payload
  <2> HIDE DEF e, pl
  <2>3. /\ c \in HandlerStates /\ c.pc = "finishing" /\ c.op = e.op /\ c.rec = e.rec /\ c.row = e.row
        /\ c.to = None /\ c.payload = pl
    BY <1>0, <2>2 DEF HandlerStates
  <2> HIDE DEF c
  <2>4. goodHandler(c) /\ working(c)
    BY <1>0, <1>1, <2>2, <2>3 DEF goodHandler, submitting, following, working
  <2> QED BY <1>0, <2>1, <2>3, <2>4, StageInv DEF e
<1>2. CASE e.op # "submit"
  <2>1. handler' = [handler EXCEPT ![h] = NoHandler]
    BY <1>2 DEF givesUp
  <2>2. ~submitting(NoHandler) /\ ~following(NoHandler) /\ ~submitting(e) /\ e.pc # "auditing"
    BY <1>2, NoHandlerType DEF submitting, following, working
  <2> QED BY <1>0, <2>1, <2>2, NoHandlerType, QuietStep
<1> QED BY <1>1, <1>2

\* resolveProject
LEMMA ResolveInv ==
  ASSUME IInv, NEW h \in Handlers, resolveProject(h)
  PROVE  IInv'
<1> DEFINE e == handler[h]
<1>0. /\ e \in HandlerStates /\ goodHandler(e) /\ e.pc = "resolving"
      /\ run' \in [Places -> [RunIds -> RunStates]]
      /\ UNCHANGED <<online, run, storeVars, abandoned>>
  BY DEF resolveProject, IInv, TypeOK, Good
<1>1. CASE givesUp(h)
  BY <1>0, <1>1, GivesUpInv
<1>2. CASE ~givesUp(h)
  <2> DEFINE pc == IF e.op = "submit" THEN "routing" ELSE "calling"
             c == [e EXCEPT !.pc = pc]
  <2>1. Cardinality(e.found) = 1 /\ handler' = [handler EXCEPT ![h].pc = pc]
    BY <1>2 DEF resolveProject, goes
  <2>2. handler' = [handler EXCEPT ![h] = c]
    BY <2>1 DEF IInv, TypeOK
  <2>3. e.found # {}
    BY <2>1, FS_EmptySet
  <2> HIDE DEF e
  <2>4. /\ c \in HandlerStates /\ c.pc = pc /\ c.op = e.op /\ c.rec = e.rec /\ c.row = e.row
        /\ c.found = e.found /\ c.id = e.id
    BY <1>0 DEF HandlerStates
  <2> HIDE DEF c
  <2>5. goodHandler(c) /\ working(c) /\ working(e)
    BY <1>0, <2>3, <2>4 DEF goodHandler, submitting, following, working
  <2> QED BY <1>0, <2>2, <2>4, <2>5, StageInv DEF e
<1> QED BY <1>1, <1>2

\* submitToRelay: the daemon has started a run.
LEMMA SubmitInv ==
  ASSUME IInv, NEW h \in Handlers, submitToRelay(h)
  PROVE  IInv'
<1> DEFINE e == handler[h]
<1>0. /\ e \in HandlerStates /\ goodHandler(e) /\ e.pc = "calling" /\ e.op = "submit"
      /\ UNCHANGED <<online, storeVars, abandoned>>
      /\ online \in SUBSET Places /\ run \in [Places -> [RunIds -> RunStates]]
      /\ handler \in [Handlers -> HandlerStates]
  BY DEF submitToRelay, IInv, TypeOK, Good
<1>1. PICK p \in relayChooses(h), id \in RunIds :
        /\ run' = [run EXCEPT ![p][id] = "running"]
        /\ handler' = [handler EXCEPT ![h].pc = "waiting", ![h].to = p, ![h].id = id]
  BY DEF submitToRelay
<1>2. p \in Places
  BY <1>0 DEF relayChooses, filterLocations
<1>3. run' \in [Places -> [RunIds -> RunStates]]
  BY <1>0, <1>1, <1>2 DEF RunStates
<1> DEFINE c == [e EXCEPT !.pc = "waiting", !.to = p, !.id = id]
<1>4. handler' = [handler EXCEPT ![h] = c]
  BY <1>0, <1>1
<1> HIDE DEF e
<1>5. /\ c \in HandlerStates /\ c.pc = "waiting" /\ c.op = e.op /\ c.rec = e.rec /\ c.row = e.row
      /\ c.found = e.found /\ c.id = id /\ c.to = p
  BY <1>0, <1>2 DEF HandlerStates
<1> HIDE DEF c
<1>6. goodHandler(c) /\ working(c) /\ working(e)
  BY <1>0, <1>2, <1>5 DEF goodHandler, submitting, following, working
<1> QED BY <1>0, <1>3, <1>4, <1>5, <1>6, StageInv DEF e

\* submitAnswers
LEMMA AnswerInv ==
  ASSUME IInv, NEW h \in Handlers, submitAnswers(h)
  PROVE  IInv'
<1> DEFINE e == handler[h]
<1>0. /\ e \in HandlerStates /\ goodHandler(e) /\ e.pc = "waiting"
      /\ UNCHANGED <<online, run, storeVars, abandoned>>
      /\ run \in [Places -> [RunIds -> RunStates]] /\ handler \in [Handlers -> HandlerStates]
  BY DEF submitAnswers, IInv, TypeOK, Good
<1>1. PICK status \in {"running", "timeout", run[e.to][e.id]} :
        handler' = [handler EXCEPT ![h].pc = "answered", ![h].payload = payload(status, None)]
  BY DEF submitAnswers
<1>2. e.op = "submit" /\ e.to \in Places /\ e.id \in RunIds
  <2> HIDE DEF e
  <2> QED BY <1>0 DEF goodHandler, submitting, following, working
<1>3. status \in RunStates \cup {"timeout"}
  BY <1>0, <1>1, <1>2 DEF RunStates
<1> DEFINE pl == payload(status, None)
           c == [e EXCEPT !.pc = "answered", !.payload = pl]
<1>4. pl \in Payloads /\ pl.status = status
  BY <1>3 DEF Payloads, PayloadStates, payload
<1>5. status # "blocked"
  BY <1>3 DEF RunStates
<1>6. handler' = [handler EXCEPT ![h] = c]
  BY <1>0, <1>1
<1> HIDE DEF e, pl
<1>7. /\ c \in HandlerStates /\ c.pc = "answered" /\ c.op = e.op /\ c.rec = e.rec /\ c.row = e.row
      /\ c.found = e.found /\ c.id = e.id /\ c.to = e.to /\ c.payload = pl
  BY <1>0, <1>4 DEF HandlerStates
<1> HIDE DEF c
<1>8. goodHandler(c) /\ working(c) /\ working(e)
  BY <1>0, <1>2, <1>4, <1>5, <1>7 DEF goodHandler, submitting, following, working
<1>9. run' \in [Places -> [RunIds -> RunStates]]
  BY <1>0
<1> QED BY <1>0, <1>6, <1>7, <1>8, <1>9, StageInv DEF e

\* A daemon answers with a payload, and a run that it has it keeps.
LEMMA LifecycleAnswer ==
  ASSUME run \in [Places -> [RunIds -> RunStates]], NEW op \in Lifecycle, NEW p \in Places,
         NEW id \in RunIds, NEW out \in lifecycleOutcomes(op, p, id)
  PROVE  /\ out[1] \in RunStates /\ out[2] \in Payloads
         /\ run[p][id] # "none" => out[1] # "none"
<1>0. run[p][id] \in RunStates
  OBVIOUS
<1>1. /\ payload("blocked", "blocker") \in Payloads /\ payload("running", "run_resumed") \in Payloads
      /\ payload("cancelled", None) \in Payloads /\ payload("cancel_requested", None) \in Payloads
      /\ payload(run[p][id], None) \in Payloads
  BY <1>0 DEF Payloads, PayloadStates, RunStates
<1>2. /\ "cancelled" \in RunStates /\ "running" \in RunStates
  BY DEF RunStates
<1>3. CASE op = "report"
  <2>1. out \in GetRunPlanReport(p, id)
    BY <1>3 DEF lifecycleOutcomes
  <2>2. out = <<run[p][id], payload(run[p][id], None)>>
    BY <2>1 DEF GetRunPlanReport
  <2> QED BY <1>0, <1>1, <2>2
<1>4. CASE op = "cancel"
  <2>1. out \in CancelRun(p, id)
    BY <1>4 DEF lifecycleOutcomes
  <2>2. \/ out = <<run[p][id], payload("blocked", "blocker")>>
        \/ out = <<"cancelled", payload("cancelled", None)>>
        \/ out = <<"cancelled", payload("cancel_requested", None)>>
    BY <2>1 DEF CancelRun
  <2> QED BY <1>0, <1>1, <1>2, <2>2
<1>5. CASE op = "resume"
  <2>1. out \in ResumeRun(p, id)
    BY <1>5 DEF lifecycleOutcomes
  <2>2. \/ out = <<run[p][id], payload("blocked", "blocker")>>
        \/ out = <<"running", payload("running", "run_resumed")>>
    BY <2>1 DEF ResumeRun
  <2> QED BY <1>0, <1>1, <1>2, <2>2
<1> QED BY <1>3, <1>4, <1>5 DEF Lifecycle

\* callRelay
LEMMA CallInv ==
  ASSUME IInv, NEW h \in Handlers, callRelay(h)
  PROVE  IInv'
<1> DEFINE e == handler[h]
<1>0. /\ e \in HandlerStates /\ goodHandler(e) /\ e.pc = "calling" /\ e.op # "submit"
      /\ UNCHANGED <<online, storeVars, abandoned>>
      /\ online \in SUBSET Places /\ run \in [Places -> [RunIds -> RunStates]]
      /\ handler \in [Handlers -> HandlerStates]
  BY DEF callRelay, IInv, TypeOK, Good
<1>1. PICK p \in relayChooses(h) : \E out \in lifecycleOutcomes(e.op, p, e.id) :
        /\ run' = [run EXCEPT ![p][e.id] = out[1]]
        /\ handler' = [handler EXCEPT ![h].pc = "answered", ![h].to = p, ![h].payload = out[2]]
  BY DEF callRelay
<1>2. PICK out \in lifecycleOutcomes(e.op, p, e.id) :
        /\ run' = [run EXCEPT ![p][e.id] = out[1]]
        /\ handler' = [handler EXCEPT ![h].pc = "answered", ![h].to = p, ![h].payload = out[2]]
  BY <1>1
<1>3. p \in Places
  BY <1>0 DEF relayChooses, filterLocations
<1>4. e.op \in Lifecycle /\ e.id \in RunIds
  <2> HIDE DEF e
  <2> QED BY <1>0 DEF goodHandler, following, working
<1> DEFINE o1 == out[1]
           pl == out[2]
           c == [e EXCEPT !.pc = "answered", !.to = p, !.payload = pl]
<1>5. o1 \in RunStates /\ pl \in Payloads
  <2> HIDE DEF e
  <2> QED BY <1>0, <1>2, <1>3, <1>4, LifecycleAnswer
<1>6. handler' = [handler EXCEPT ![h] = c] /\ run' = [run EXCEPT ![p][e.id] = o1]
  BY <1>0, <1>2
<1> HIDE DEF e, pl, o1
<1>7. run' \in [Places -> [RunIds -> RunStates]]
  BY <1>0, <1>3, <1>4, <1>5, <1>6
<1>8. /\ c \in HandlerStates /\ c.pc = "answered" /\ c.op = e.op /\ c.rec = e.rec /\ c.row = e.row
      /\ c.found = e.found /\ c.id = e.id /\ c.to = p /\ c.payload = pl
  BY <1>0, <1>3, <1>5 DEF HandlerStates
<1> HIDE DEF c
<1>9. goodHandler(c) /\ working(c) /\ working(e)
  BY <1>0, <1>3, <1>4, <1>5, <1>8 DEF goodHandler, submitting, following, working
<1> QED BY <1>0, <1>6, <1>7, <1>8, <1>9, StageInv DEF e

\* responsePayload: the row a request finds is one of the run it asked for.
LEMMA ResponseInv ==
  ASSUME IInv, NEW h \in Handlers, responsePayload(h)
  PROVE  IInv'
<1> DEFINE e == handler[h]
<1>0. /\ e \in HandlerStates /\ goodHandler(e) /\ e.pc = "answered"
      /\ UNCHANGED <<online, run, storeVars, abandoned>>
      /\ run' \in [Places -> [RunIds -> RunStates]] /\ handler \in [Handlers -> HandlerStates]
  BY DEF responsePayload, IInv, TypeOK, Good
<1>1. CASE e.op = "submit"
  <2> DEFINE c == [e EXCEPT !.pc = "finishing"]
  <2>1. handler' = [handler EXCEPT ![h] = c]
    BY <1>0, <1>1 DEF responsePayload, goes
  <2> HIDE DEF e
  <2>2. /\ c \in HandlerStates /\ c.pc = "finishing" /\ c.op = e.op /\ c.rec = e.rec /\ c.row = e.row
        /\ c.found = e.found /\ c.id = e.id /\ c.to = e.to /\ c.payload = e.payload
    BY <1>0 DEF HandlerStates
  <2> HIDE DEF c
  <2>3. goodHandler(c) /\ working(c) /\ working(e)
    BY <1>0, <1>1, <2>2 DEF goodHandler, submitting, following, working
  <2> QED BY <1>0, <2>1, <2>2, <2>3, StageInv DEF e
<1>2. CASE e.op # "submit"
  <2> DEFINE k == FindRunRecordByRunID(e.id)
             row == IF k = None THEN NoRow ELSE record[k]
             c == [e EXCEPT !.pc = "routing", !.rec = k, !.row = row]
  <2>1. handler' = [handler EXCEPT ![h] = c]
    BY <1>0, <1>2 DEF responsePayload
  <2>2. k = None \/ (k \in Records /\ record[k].run = e.id)
    <3> DEFINE S == {j \in Records : record[j].run = e.id}
    <3>1. recent \in Seq(Records) /\ S \in SUBSET Records
      BY DEF IInv, TypeOK
    <3>2. k = newest(S)
      BY DEF FindRunRecordByRunID
    <3>3. k = None \/ k \in S
      <4> HIDE DEF S, k
      <4> QED BY <3>1, <3>2, NewestIsRow
    <3> QED BY <3>3
  <2>3. row \in Rows
    BY <2>2, NoHandlerType DEF IInv, TypeOK
  <2>4. k # None => k \in Records /\ row = record[k] /\ row.run = e.id
    BY <2>2
  <2>5. k # None => goodRow(row) /\ (k \notin abandoned => accounted(k, row, handler, audit))
    BY <2>4 DEF IInv, Good, Accounted
  <2>6. ~submitting(e) /\ e.op \in Lifecycle /\ e.id \in RunIds /\ e.to \in Places
        /\ e.payload \in Payloads /\ e.found # {}
    <3> HIDE DEF e
    <3> QED BY <1>0, <1>2 DEF goodHandler, submitting, following, working
  <2>7. k # None => row.status # "submitted"
    BY <2>4, <2>5, <2>6, GatewayRunsConstants DEF goodRow
  <2>8. ASSUME k \in Records \ abandoned PROVE accounted(k, row, handler', audit')
    <3>1. accounted(k, row, handler, audit)
      BY <2>5, <2>8, GatewayRunsConstants
    <3>2. \A g \in Handlers : handler[g].pc = "auditing" => handler'[g] = handler[g]
      BY <1>0, <2>1
    <3>3. audit \subseteq audit'
      BY <1>0 DEF storeVars
    <3> HIDE DEF k, row, c, e
    <3> QED BY <3>1, <3>2, <3>3, AccountedKept
  <2> HIDE DEF e, k, row
  <2>9. /\ c \in HandlerStates /\ c.pc = "routing" /\ c.op = e.op /\ c.rec = k /\ c.row = row
        /\ c.found = e.found /\ c.id = e.id /\ c.to = e.to /\ c.payload = e.payload
    BY <1>0, <2>2, <2>3 DEF HandlerStates
  <2> HIDE DEF c
  <2>10. goodHandler(c) /\ ~submitting(c)
    BY <1>0, <1>2, <2>4, <2>6, <2>7, <2>9 DEF goodHandler, submitting, following, working
  <2> QED BY <1>0, <2>1, <2>6, <2>8, <2>9, <2>10, QuietStep DEF e
<1> QED BY <1>1, <1>2

-----------------------------------------------------------------------------
(* Steps that write the store *)

\* UpsertRunRecord replaces one row by a row.
LEMMA UpsertType ==
  ASSUME IInv, NEW k \in Records \cup {None}, NEW row \in Rows, UpsertRunRecord(k, row)
  PROVE  /\ record' \in [Records -> Rows] /\ recent' \in Seq(Records)
         /\ k # None => record'[k] = row
         /\ \A j \in Records \ {k} : record'[j] = record[j]
<1>1. CASE k = None
  BY <1>1 DEF UpsertRunRecord, IInv, TypeOK
<1>2. CASE k # None
  <2>1. k \in Records /\ record' = [record EXCEPT ![k] = row] /\ recent' = touched(k)
    BY <1>2 DEF UpsertRunRecord
  <2>2. recent' \in Seq(Records)
    BY <2>1, TouchedType DEF IInv, TypeOK
  <2> QED BY <2>1, <2>2 DEF IInv, TypeOK
<1> QED BY <1>1, <1>2

\* beginRunRecord: a submission takes a row that nobody has.
LEMMA BeginInv ==
  ASSUME IInv, NEW h \in Handlers, NEW sel \in Routes, beginRunRecord(h, sel)
  PROVE  IInv'
<1> DEFINE row == [NoRow EXCEPT !.status = "submitted", !.report = "pending"]
<1>1. PICK k \in unusedRecords :
        /\ UpsertRunRecord(k, row)
        /\ handler' = [handler EXCEPT ![h] = [NoHandler EXCEPT
             !.pc = "resolving", !.op = "submit", !.rec = k, !.row = row, !.sel = sel,
             !.left = relayProfiles(sel)]]
  BY DEF beginRunRecord
<1> DEFINE c == [NoHandler EXCEPT
             !.pc = "resolving", !.op = "submit", !.rec = k, !.row = row, !.sel = sel,
             !.left = relayProfiles(sel)]
<1>2. /\ handler[h].pc = "idle" /\ UNCHANGED <<online, run, audit, abandoned>>
      /\ online' \in SUBSET Places /\ run' \in [Places -> [RunIds -> RunStates]]
  BY DEF beginRunRecord, IInv, TypeOK
<1>3. k \in Records /\ \A g \in Handlers : handler[g].rec # k
  BY DEF unusedRecords
<1>4. row \in Rows /\ row.run = None /\ row.status = "submitted"
  BY DEF NoRow, Rows
<1>5. relayProfiles(sel) \in SUBSET Relays
  BY DEF relayProfiles, Routes
<1> HIDE DEF row
<1>6. /\ record' \in [Records -> Rows] /\ recent' \in Seq(Records)
      /\ record'[k] = row /\ \A j \in Records \ {k} : record'[j] = record[j]
  BY <1>1, <1>3, <1>4, UpsertType, GatewayRunsConstants
<1>7. c \in HandlerStates /\ c.pc = "resolving" /\ c.op = "submit" /\ c.rec = k /\ c.row = row
  BY <1>3, <1>4, <1>5 DEF NoHandler, NoRow, HandlerStates
<1>8. handler' = [handler EXCEPT ![h] = c]
  BY <1>1
<1> HIDE DEF c
<1>9. goodHandler(c) /\ submitting(c) /\ ~following(c) /\ ~submitting(handler[h])
  BY <1>2, <1>3, <1>4, <1>7 DEF goodHandler, submitting, following, working
<1>10. goodRow(row) /\ accounted(k, row, handler', audit')
  BY <1>4 DEF goodRow, accounted, final
<1> QED BY <1>2, <1>3, <1>6, <1>7, <1>8, <1>9, <1>10, HandlerStep

\* The one relay that has answered.
LEMMA MatchIsFound ==
  ASSUME NEW e \in HandlerStates, e.found # {}
  PROVE  (CHOOSE x \in e.found : TRUE) \in Matches /\ matchRelay(e) \in Relays
<1>1. e.found \in SUBSET Matches
  BY DEF HandlerStates
<1>2. (CHOOSE x \in e.found : TRUE) \in Matches
  BY <1>1
<1> QED BY <1>2 DEF matchRelay, Matches

\* applyRouteToRunRecord writes the copy of the row back, with another route.
LEMMA RouteInv ==
  ASSUME IInv, NEW h \in Handlers, applyRouteToRunRecord(h)
  PROVE  IInv'
<1> DEFINE e == handler[h]
           k == e.rec
<1>0. /\ e \in HandlerStates /\ goodHandler(e) /\ e.pc = "routing"
      /\ UNCHANGED <<online, run, audit, abandoned>>
      /\ online' \in SUBSET Places /\ run' \in [Places -> [RunIds -> RunStates]]
      /\ handler \in [Handlers -> HandlerStates]
      /\ following(e) /\ k \in Records \ abandoned => accounted(k, e.row, handler, audit)
  BY DEF applyRouteToRunRecord, IInv, TypeOK, Good, Accounted
<1>1. PICK p \in selectedProjectLocation(matchOf(h), e.sel) :
        /\ UpsertRunRecord(k, routed(h, p))
        /\ handler' = [handler EXCEPT ![h] = [e EXCEPT
             !.row = IF k = None THEN e.row ELSE routed(h, p),
             !.pc = IF e.op = "submit" THEN "calling" ELSE "finishing"]]
  BY DEF applyRouteToRunRecord
<1>2. p \in Places \cup {None}
  BY DEF selectedProjectLocation, filterLocations
<1>3. matchOf(h).relay \in Relays /\ e.row \in Rows /\ k \in Records \cup {None} /\ e.found # {}
  <2>1. e.found # {}
    BY <1>0 DEF goodHandler
  <2> QED BY <1>0, <2>1, MatchIsFound DEF matchOf, matchRelay, HandlerStates
<1> DEFINE row == routed(h, p)
           row2 == IF k = None THEN e.row ELSE row
           pc == IF e.op = "submit" THEN "calling" ELSE "finishing"
           c == [e EXCEPT !.row = row2, !.pc = pc]
<1>4. /\ row \in Rows /\ row.run = e.row.run /\ row.status = e.row.status
      /\ row.report = e.row.report
  <2> DEFINE r == e.row
             l == matchOf(h).relay
  <2>1. row = [r EXCEPT !.relay = l, !.place = p]
    BY DEF routed
  <2> HIDE DEF r, l, row
  <2>2. row \in Rows /\ row.run = r.run /\ row.status = r.status /\ row.report = r.report
    <3>1. r \in Rows /\ l \in Relays
      BY <1>3 DEF r, l
    <3> QED BY <1>2, <2>1, <3>1 DEF Rows
  <2> QED BY <2>2 DEF r
<1>5. handler' = [handler EXCEPT ![h] = c]
  BY <1>1
<1>6. UpsertRunRecord(k, row)
  BY <1>1
<1> HIDE DEF row, e
<1>7. /\ record' \in [Records -> Rows] /\ recent' \in Seq(Records)
      /\ k # None => record'[k] = row
      /\ \A j \in Records \ {k} : record'[j] = record[j]
  <2> HIDE DEF k
  <2> QED BY <1>3, <1>4, <1>6, UpsertType
<1>8. row2 \in Rows /\ row2.run = e.row.run /\ row2.status = e.row.status /\ (k # None => row2 = row)
  BY <1>3, <1>4
<1> HIDE DEF row2
<1>9. /\ c \in HandlerStates /\ c.pc = pc /\ c.op = e.op /\ c.rec = k /\ c.row = row2
      /\ c.found = e.found /\ c.id = e.id /\ c.to = e.to /\ c.payload = e.payload
  BY <1>0, <1>8 DEF HandlerStates
<1> HIDE DEF c
<1>10. /\ goodHandler(c) /\ (submitting(c) <=> submitting(e)) /\ (following(c) <=> following(e))
       /\ submitting(e) \/ following(e)
  BY <1>0, <1>3, <1>8, <1>9 DEF goodHandler, submitting, following, working
<1> HIDE DEF pc
<1>11. \A g \in Handlers : handler[g].pc = "auditing" => handler'[g] = handler[g]
  BY <1>0, <1>5 DEF e
<1>12. submitting(e) => e.row.status = "submitted" /\ e.row.run = None /\ k \in Records
  BY <1>0 DEF goodHandler
<1>13. following(e) /\ k # None => e.row.status # "submitted" /\ e.row.run # None
  BY <1>0, GatewayRunsConstants DEF goodHandler
<1>14. goodRow(row)
       \/ k = None
  BY <1>4, <1>10, <1>12, <1>13 DEF goodRow
<1>15. ASSUME k \in Records, k \notin abandoned PROVE accounted(k, row, handler', audit')
  <2>1. CASE submitting(e)
    BY <1>4, <1>12, <2>1 DEF accounted, final
  <2>2. CASE following(e)
    <3>1. accounted(k, e.row, handler', audit')
      <4> DEFINE r == e.row
      <4>1. accounted(k, r, handler, audit)
        BY <1>0, <1>15, <2>2
      <4> HIDE DEF r, k
      <4>2. accounted(k, r, handler', audit')
        BY <1>0, <1>11, <4>1, AccountedKept
      <4> QED BY <4>2 DEF r
    <3>2. final(row) = final(e.row) /\ outcome(row) = outcome(e.row)
      BY <1>4 DEF final, outcome
    <3> QED BY <3>1, <3>2 DEF accounted
  <2> QED BY <1>10, <2>1, <2>2
<1> HIDE DEF k
<1>16. \A j \in Records :
         \/ record'[j] = record[j]
         \/ /\ goodRow(record'[j])
            /\ j \notin abandoned' => accounted(j, record'[j], handler', audit')
  BY <1>0, <1>7, <1>14, <1>15, GatewayRunsConstants
<1>17. \A j \in Records \ abandoned' : record'[j].status = "submitted" =>
         \/ submitting(c) /\ c.rec = j
         \/ record[j].status = "submitted" /\ ~(submitting(e) /\ e.rec = j)
  <2>1. k = e.rec
    BY DEF k
  <2>2. CASE submitting(e)
    BY <1>7, <1>9, <1>10, <2>1, <2>2
  <2>3. CASE ~submitting(e)
    <3>1. \A j \in Records : record'[j].status = "submitted" => record'[j] = record[j]
      BY <1>4, <1>7, <1>10, <1>13, <2>3, GatewayRunsConstants
    <3> QED BY <2>3, <3>1
  <2> QED BY <2>2, <2>3
<1>18. following(c) /\ c.rec \in Records \ abandoned' => accounted(c.rec, c.row, handler', audit')
  BY <1>0, <1>8, <1>9, <1>15, GatewayRunsConstants
<1>19. c.rec = e.rec /\ e.pc # "auditing" /\ audit \subseteq audit' /\ abandoned \subseteq abandoned'
  BY <1>0, <1>9 DEF k
<1> QED BY <1>0, <1>5, <1>7, <1>9, <1>10, <1>16, <1>17, <1>18, <1>19, HandlerStep DEF e

\* finishRunRecord writes the answer into the copy, and the copy back.
LEMMA FinishInv ==
  ASSUME IInv, NEW h \in Handlers, finishRunRecord(h)
  PROVE  IInv'
<1> DEFINE e == handler[h]
           k == e.rec
           pl == e.payload
           id == IF e.to = None THEN None ELSE e.id
           report == IF e.to = None THEN "unavailable"
                     ELSE reportStatusForPayload(pl, IF e.op = "report" THEN "completed" ELSE "available")
           row == applyPayloadToRunRecord(e.row, id, pl, report)
           c == [NoHandler EXCEPT !.pc = "auditing", !.rec = k, !.payload = pl]
<1>0. /\ e \in HandlerStates /\ goodHandler(e) /\ e.pc = "finishing"
      /\ UNCHANGED <<online, run, audit, abandoned>>
      /\ online' \in SUBSET Places /\ run' \in [Places -> [RunIds -> RunStates]]
      /\ UpsertRunRecord(k, row)
      /\ handler' = [handler EXCEPT ![h] = c] /\ handler \in [Handlers -> HandlerStates]
  BY DEF finishRunRecord, IInv, TypeOK, Good
<1> HIDE DEF e
<1>1. /\ e.row \in Rows /\ k \in Records \cup {None} /\ id \in RunIds \cup {None}
      /\ e.op = "submit" => submitting(e)
      /\ e.op # "submit" => following(e)
  BY <1>0 DEF HandlerStates, submitting, following, working
<1>2. pl \in Payloads
  BY <1>0, <1>1 DEF goodHandler
<1>3. pl.status \in PayloadStates /\ pl.status # "submitted"
  BY <1>2, PayloadOutcome DEF PayloadStates, RunStates
<1>4. report \in {"pending", "unavailable", "completed", "available"}
  BY DEF reportStatusForPayload
<1>5. /\ row \in Rows /\ row.status = pl.status
      /\ row.run = IF e.row.run = None THEN id ELSE e.row.run
  <2> DEFINE r == e.row
  <2> DEFINE run2 == IF r.run = None THEN id ELSE r.run
             status == pl.status
  <2>1. row = [r EXCEPT !.run = run2, !.status = status, !.report = report]
    BY DEF applyPayloadToRunRecord
  <2>2. r \in Rows
    BY <1>1
  <2>3. status \in PayloadStates
    BY <1>3
  <2> HIDE DEF r, id, report, row
  <2>4. run2 \in RunIds \cup {None}
    BY <1>1, <2>2 DEF Rows
  <2> HIDE DEF run2, status
  <2>5. row \in Rows /\ row.status = status /\ row.run = run2
    BY <1>4, <2>1, <2>2, <2>3, <2>4 DEF Rows
  <2> QED BY <2>5 DEF r, run2, status
<1>6. goodRow(row) \/ k = None
  <2>1. CASE e.op = "submit"
    BY <1>0, <1>1, <1>3, <1>5, <2>1 DEF goodRow, goodHandler
  <2>2. CASE e.op # "submit"
    BY <1>0, <1>1, <1>3, <1>5, <2>2, GatewayRunsConstants DEF goodRow, goodHandler
  <2> QED BY <2>1, <2>2
<1>7. /\ c \in HandlerStates /\ c.pc = "auditing" /\ c.rec = k /\ c.payload = pl
  <2> HIDE DEF pl, k
  <2> QED BY <1>1, <1>2 DEF HandlerStates, NoHandler, NoRow, Rows, Routes
<1> HIDE DEF row, c, id, report
<1>8. goodHandler(c) /\ ~submitting(c) /\ ~following(c)
  BY <1>2, <1>7 DEF goodHandler, submitting, following, working
<1>9. handler'[h] = c
  BY <1>0
<1>10. accounted(k, row, handler', audit')
  <2> SUFFICES ASSUME final(row) PROVE auditsFor(handler'[h], k, outcome(row))
    BY DEF accounted
  <2>1. outcome(row) = terminalAuditType(payload(pl.status, None))
    BY <1>5 DEF outcome
  <2>2. terminalAuditType(pl) = outcome(row)
    <3> HIDE DEF pl
    <3> QED BY <1>2, <2>1, PayloadOutcome DEF final
  <2> QED BY <1>7, <1>9, <2>2 DEF auditsFor
<1>11. /\ record' \in [Records -> Rows] /\ recent' \in Seq(Records)
       /\ k # None => record'[k] = row
       /\ \A j \in Records \ {k} : record'[j] = record[j]
  <2> HIDE DEF k
  <2> QED BY <1>0, <1>1, <1>5, UpsertType
<1>12. \A j \in Records : \/ record'[j] = record[j]
                          \/ /\ goodRow(record'[j])
                             /\ j \notin abandoned' => accounted(j, record'[j], handler', audit')
  <2> HIDE DEF k
  <2> QED BY <1>6, <1>10, <1>11, GatewayRunsConstants
<1>13. \A j \in Records \ abandoned' : record'[j].status = "submitted" =>
         record[j].status = "submitted" /\ e.rec # j
  BY <1>3, <1>5, <1>11, GatewayRunsConstants
<1>14. e.pc # "auditing" /\ audit \subseteq audit' /\ abandoned \subseteq abandoned'
  BY <1>0
<1> QED BY <1>0, <1>7, <1>8, <1>11, <1>12, <1>13, <1>14, HandlerStep DEF e

\* recordTerminalRunAuditOnce: what was promised is in the audit.
LEMMA AuditInv ==
  ASSUME IInv, NEW h \in Handlers, recordTerminalRunAuditOnce(h)
  PROVE  IInv'
<1>1. /\ handler[h].pc = "auditing" /\ handler' = [handler EXCEPT ![h] = NoHandler]
      /\ UNCHANGED <<online, run, record, recent, abandoned>>
      /\ audit' = IF handler[h].rec # None
                  THEN audit \cup {<<handler[h].rec, terminalAuditType(handler[h].payload)>>}
                  ELSE audit
  BY DEF recordTerminalRunAuditOnce, answered, RecordAudit
<1>2. /\ online' \in SUBSET Places /\ run' \in [Places -> [RunIds -> RunStates]]
      /\ record' \in [Records -> Rows] /\ recent' \in Seq(Records)
  BY <1>1 DEF IInv, TypeOK
<1>3. ~submitting(NoHandler) /\ ~following(NoHandler) /\ ~submitting(handler[h])
  BY <1>1, NoHandlerType DEF submitting, following, working
<1>4. handler[h].rec \in Records =>
        <<handler[h].rec, terminalAuditType(handler[h].payload)>> \in audit'
  BY <1>1, GatewayRunsConstants
<1>5. audit \subseteq audit' /\ abandoned \subseteq abandoned' /\ record' = record
  BY <1>1
<1> QED BY <1>1, <1>2, <1>3, <1>4, <1>5, NoHandlerType, HandlerStep

\* callerLeaves: the row of the handler is abandoned.
LEMMA LeaveInv ==
  ASSUME IInv, NEW h \in Handlers, callerLeaves(h)
  PROVE  IInv'
<1>1. /\ handler' = [handler EXCEPT ![h] = NoHandler]
      /\ UNCHANGED <<online, run, record, recent, audit>>
      /\ abandoned' = abandoned \cup ({handler[h].rec} \ {None})
  BY DEF callerLeaves, answered, storeVars
<1>2. /\ online' \in SUBSET Places /\ run' \in [Places -> [RunIds -> RunStates]]
      /\ record' \in [Records -> Rows] /\ recent' \in Seq(Records)
  BY <1>1 DEF IInv, TypeOK
<1>3. ~submitting(NoHandler) /\ ~following(NoHandler)
  BY NoHandlerType DEF submitting, following, working
<1>4. handler[h].rec \in Records => handler[h].rec \in abandoned'
  BY <1>1, GatewayRunsConstants
<1>5. audit \subseteq audit' /\ abandoned \subseteq abandoned' /\ record' = record
  BY <1>1
<1> QED BY <1>1, <1>2, <1>3, <1>4, <1>5, NoHandlerType, HandlerStep

\* handleSyncRuns writes a row of its own or one that it has written before.
LEMMA SyncInv ==
  ASSUME IInv, NEW h \in Handlers, handleSyncRuns(h)
  PROVE  IInv'
<1>1. PICK p \in Places, id \in RunIds :
        \E k \in IF FindRunRecord(id, None, p) # None THEN {FindRunRecord(id, None, p)}
                 ELSE unusedRecords :
          /\ UpsertRunRecord(k, syncedRunRecordFromPayload(p, id))
          /\ audit' = audit \cup {<<k, "synced">>}
          /\ handler[h].pc = "idle" /\ UNCHANGED <<online, run, handler, abandoned>>
  BY DEF handleSyncRuns
<1>2. PICK k \in IF FindRunRecord(id, None, p) # None THEN {FindRunRecord(id, None, p)}
                 ELSE unusedRecords :
          /\ UpsertRunRecord(k, syncedRunRecordFromPayload(p, id))
          /\ audit' = audit \cup {<<k, "synced">>}
          /\ handler[h].pc = "idle" /\ UNCHANGED <<online, run, handler, abandoned>>
  BY <1>1
<1>3. k \in Records
  <2> DEFINE S == {j \in Records :
                     record[j].run = id /\ record[j].relay = None /\ record[j].place = p}
             known == FindRunRecord(id, None, p)
  <2>1. known = newest(S) /\ S \in SUBSET Records
    BY DEF FindRunRecord
  <2>2. known = None \/ known \in S
    <3>1. recent \in Seq(Records)
      BY DEF IInv, TypeOK
    <3> HIDE DEF S, known
    <3> QED BY <2>1, <3>1, NewestIsRow
  <2>3. known # None => known \in Records
    BY <2>2
  <2> HIDE DEF known
  <2> QED BY <1>2, <2>3 DEF unusedRecords, known
<1> DEFINE row == syncedRunRecordFromPayload(p, id)
<1>4. run[p][id] \in RunStates
  BY DEF IInv, TypeOK
<1>5. /\ row \in Rows /\ row.report = "synced" /\ row.status \in RunStates
  BY <1>4 DEF syncedRunRecordFromPayload, Rows, PayloadStates
<1>6. UpsertRunRecord(k, row)
  BY <1>2
<1> HIDE DEF row
<1>7. /\ record' \in [Records -> Rows] /\ recent' \in Seq(Records)
      /\ record'[k] = row /\ \A j \in Records \ {k} : record'[j] = record[j]
  BY <1>3, <1>5, <1>6, UpsertType, GatewayRunsConstants
<1>8. /\ goodRow(row) /\ accounted(k, row, handler', audit') /\ row.status # "submitted"
  BY <1>5 DEF goodRow, accounted, final, RunStates
<1> DEFINE c == handler[h]
<1>9. /\ c \in HandlerStates /\ goodHandler(c) /\ handler' = [handler EXCEPT ![h] = c]
      /\ c.pc = "idle"
      /\ online' \in SUBSET Places /\ run' \in [Places -> [RunIds -> RunStates]]
  BY <1>2 DEF IInv, TypeOK, Good
<1>10. ~submitting(c) /\ ~following(c) /\ c.pc # "auditing"
  BY <1>9 DEF submitting, following, working
<1>11. audit \subseteq audit' /\ abandoned \subseteq abandoned'
  BY <1>2
<1>12. \A j \in Records : \/ record'[j] = record[j]
                          \/ /\ goodRow(record'[j])
                             /\ j \notin abandoned' => accounted(j, record'[j], handler', audit')
  BY <1>7, <1>8
<1>13. \A j \in Records \ abandoned' : record'[j].status = "submitted" =>
         record[j].status = "submitted"
  BY <1>7, <1>8
<1> QED BY <1>7, <1>9, <1>10, <1>11, <1>12, <1>13, HandlerStep

\* The machines and their connectors.
LEMMA MachineInv ==
  ASSUME IInv, \/ \E p \in Places : placeChanges(p)
               \/ \E p \in Places, id \in RunIds : daemonRuns(p, id)
  PROVE  IInv'
<1>1. UNCHANGED <<record, recent, audit, handler, abandoned>>
  BY DEF placeChanges, daemonRuns, storeVars
<1>2. CASE \E p \in Places : placeChanges(p)
  <2>1. online' \in SUBSET Places /\ run' = run
    BY <1>2 DEF placeChanges, IInv, TypeOK
  <2>2. TypeOK'
    BY <1>1, <2>1 DEF IInv, TypeOK
  <2> QED BY <1>1, <2>2 DEF IInv, Good, Owned, Accounted
<1>3. CASE \E p \in Places, id \in RunIds : daemonRuns(p, id)
  <2>1. PICK p \in Places, id \in RunIds : daemonRuns(p, id)
    BY <1>3
  <2>2. PICK state \in Ends \cup {"running"} : run' = [run EXCEPT ![p][id] = state]
    BY <2>1 DEF daemonRuns
  <2>3. state \in RunStates
    BY <2>2, GatewayRunsConstants DEF RunStates
  <2>4. run' \in [Places -> [RunIds -> RunStates]] /\ online' = online
    BY <2>1, <2>2, <2>3 DEF IInv, TypeOK, daemonRuns
  <2>5. TypeOK'
    BY <1>1, <2>4 DEF IInv, TypeOK
  <2> QED BY <1>1, <2>5 DEF IInv, Good, Owned, Accounted
<1> QED BY <1>2, <1>3

-----------------------------------------------------------------------------
(* The specification *)

\* The requests a client can make.
Begins(h) ==
  \/ handleProjectRunCreate(h) \/ handleProjectRunReportGet(h) \/ handleProjectRunCancel(h)
  \/ handleProjectRunResume(h) \/ recordHumanInterruptResponse(h) \/ projectForwardTool(h)

\* Each of them begins a submission or a request for the run of a row.
LEMMA RequestForms ==
  ASSUME NEW h \in Handlers, Begins(h)
  PROVE  \/ \E sel \in Selectors : beginRunRecord(h, sel)
         \/ \E k \in Records : record[k].status = "blocked" /\ beginRunRecord(h, routeOf(k))
         \/ \E k \in Records, op \in Lifecycle :
              \E sel \in {routeOf(k), namedRoute(k)} : requestRun(h, k, op, sel)
BY DEF Begins, handleProjectRunCreate, handleProjectRunReportGet, handleProjectRunCancel,
       handleProjectRunResume, recordHumanInterruptResponse, projectForwardTool,
       cancelProjectRunFromRecord, resumeProjectRunFromRecord, startNewProjectTaskFromRecord,
       Lifecycle

\* A request begins.
LEMMA BeginsInv ==
  ASSUME IInv, NEW h \in Handlers, Begins(h)
  PROVE  IInv'
<1>1. CASE \E sel \in Selectors : beginRunRecord(h, sel)
  BY <1>1, BeginInv, GatewayRunsConstants DEF Routes
<1>2. CASE \E k \in Records : record[k].status = "blocked" /\ beginRunRecord(h, routeOf(k))
  BY <1>2, BeginInv, RouteType
<1>3. ASSUME NEW k \in Records, NEW op \in Lifecycle, NEW sel \in {routeOf(k), namedRoute(k)},
             requestRun(h, k, op, sel)
      PROVE  IInv'
  BY <1>3, RequestInv, RouteType
<1> QED BY <1>1, <1>2, <1>3, RequestForms

\* A handler goes on.
LEMMA ContinueInv ==
  ASSUME IInv, NEW h \in Handlers, Continue(h)
  PROVE  IInv'
<1>1. CASE invalidRequest(h)
  BY <1>1, GivesUpInv DEF invalidRequest
<1>2. CASE callRelayFails(h)
  BY <1>2, GivesUpInv DEF callRelayFails
<1> QED BY <1>1, <1>2, FetchInv, ResolveInv, RouteInv, SubmitInv, AnswerInv, CallInv, ResponseInv,
           FinishInv, AuditInv DEF Continue

\* No request has been made yet.
LEMMA InitInv == Init => IInv
<1> SUFFICES ASSUME Init PROVE IInv
  OBVIOUS
<1>1. TypeOK
  BY NoHandlerType DEF Init, TypeOK, RunStates
<1>2. Good
  BY NoHandlerType DEF Init, Good, goodRow
<1>3. \A h \in Handlers : ~submitting(handler[h]) /\ ~following(handler[h])
  BY NoHandlerType DEF Init, submitting, following, working
<1>4. \A k \in Records : record[k].status # "submitted" /\ ~final(record[k])
  BY NoHandlerType DEF Init, final, NoRow
<1> QED BY <1>1, <1>2, <1>3, <1>4 DEF IInv, Owned, Accounted, accounted

\* Every step keeps the invariant.
LEMMA NextInv == IInv /\ [Next]_vars => IInv'
<1> SUFFICES ASSUME IInv, [Next]_vars PROVE IInv'
  OBVIOUS
<1>1. CASE UNCHANGED vars
  BY <1>1 DEF vars, storeVars, IInv, TypeOK, Good, Owned, Accounted
<1>2. ASSUME NEW h \in Handlers, Begins(h) \/ handleSyncRuns(h) \/ callerLeaves(h) \/ Continue(h)
      PROVE  IInv'
  BY <1>2, BeginsInv, SyncInv, LeaveInv, ContinueInv
<1> QED BY <1>1, <1>2, MachineInv DEF Next, Begins

\* The tables, the daemons' runs and the handlers keep their types.
THEOREM TypeCorrect == Spec => []TypeOK
<1>1. IInv => TypeOK
  BY DEF IInv
<1> QED BY <1>1, InitInv, NextInv, PTL DEF Spec

\* No submission is left submitted once its handler has ended, for any number
\* of requests that overlap (handleProjectRunCreate, finishRunRecord).
THEOREM SubmissionsSettle == Spec => []SubmissionSettles
<1>1. IInv => SubmissionSettles
  BY DEF IInv, Owned, SubmissionSettles
<1> QED BY <1>1, InitInv, NextInv, PTL DEF Spec

\* The outcome a row shows is in the audit, although handlers write back
\* copies of rows that others have changed since (refreshRunRecordFromLifecyclePayload,
\* applyRouteToRunRecord, recordTerminalRunAuditOnce).
THEOREM OutcomesAreAudited == Spec => []OutcomeIsAudited
<1>1. IInv => OutcomeIsAudited
  BY DEF IInv, Accounted, accounted, auditsFor, final, OutcomeIsAudited
<1> QED BY <1>1, InitInv, NextInv, PTL DEF Spec

-----------------------------------------------------------------------------
(* Rows and the machines of their runs *)

\* Submissions name the machine, and later requests the route of the row.
RoutesAreNamed == Follows = "record" /\ \A sel \in Selectors : sel.place # None

\* A row that names a run names a place that has it, by the state of the runs.
rowNamesRun(row, state) ==
  row.run # None => row.place # None /\ state[row.place][row.run] # "none"

\* No daemon forgets a run.
runsKept == \A p \in Places, id \in RunIds : run[p][id] # "none" => run'[p][id] # "none"

\* A step of handler h keeps the rows and the handlers together with the runs
\* if what it has in hand, and the row it writes, name a run that is there.
LEMMA NamedStep ==
  ASSUME IInv, Named, runsKept, NEW h \in Handlers, NEW c,
         handler' = [handler EXCEPT ![h] = c], namesItsRun(c, run'),
         \A k \in Records : record'[k] = record[k] \/ rowNamesRun(record'[k], run')
  PROVE  Named'
<1>0. handler'[h] = c /\ \A g \in Handlers \ {h} : handler'[g] = handler[g]
  BY DEF IInv, TypeOK
<1>1. ASSUME NEW k \in Records PROVE rowNamesRun(record'[k], run')
  <2>1. CASE record'[k] = record[k]
    <3> DEFINE row == record[k]
    <3>1. row \in Rows /\ rowNamesRun(row, run)
      BY DEF IInv, TypeOK, Named, RecordNamesItsRun, rowNamesRun
    <3> HIDE DEF row
    <3>2. row.run # None => row.run \in RunIds /\ row.place \in Places
      BY <3>1 DEF rowNamesRun, Rows
    <3>3. rowNamesRun(row, run')
      BY <3>1, <3>2 DEF rowNamesRun, runsKept
    <3> QED BY <2>1, <3>3 DEF row
  <2> QED BY <2>1
<1>2. ASSUME NEW g \in Handlers PROVE namesItsRun(handler'[g], run')
  <2>1. CASE g = h
    BY <1>0, <2>1
  <2>2. CASE g # h
    <3> DEFINE e == handler[g]
    <3>1. goodHandler(e) /\ namesItsRun(e, run)
      BY DEF IInv, Good, Named
    <3>2. handler'[g] = e
      BY <1>0, <2>2
    <3> HIDE DEF e
    <3>3. following(e) => run'[e.sel.place][e.id] # "none"
      BY <3>1 DEF goodHandler, namesItsRun, following, runsKept
    <3>4. submitting(e) /\ (e.pc \in {"waiting", "answered"} \/ (e.pc = "finishing" /\ e.to # None))
          => run'[e.to][e.id] # "none"
      BY <3>1 DEF goodHandler, namesItsRun, runsKept
    <3>5. namesItsRun(e, run')
      BY <3>1, <3>3, <3>4 DEF namesItsRun
    <3> QED BY <3>2, <3>5
  <2> QED BY <2>1, <2>2
<1> QED BY <1>1, <1>2 DEF Named, RecordNamesItsRun, rowNamesRun

\* A step that leaves the rows and the runs alone.
LEMMA NamedQuiet ==
  ASSUME IInv, Named, NEW h \in Handlers, NEW c, handler' = [handler EXCEPT ![h] = c],
         namesItsRun(c, run), UNCHANGED <<run, record>>
  PROVE  Named'
<1>1. runsKept
  BY DEF runsKept
<1> QED BY <1>1, NamedStep

\* A handler that is not at work names nothing.
LEMMA IdleNames ==
  ASSUME NEW c, NEW state, c.pc \in {"idle", "auditing"}
  PROVE  namesItsRun(c, state)
BY DEF namesItsRun, working, submitting, following

\* A submission to a machine that is named.
LEMMA BeginNamed ==
  ASSUME IInv, Named, NEW h \in Handlers, NEW sel \in Routes, sel.place \in Places,
         beginRunRecord(h, sel)
  PROVE  Named'
<1> DEFINE row == [NoRow EXCEPT !.status = "submitted", !.report = "pending"]
<1>1. PICK k \in unusedRecords :
        /\ UpsertRunRecord(k, row)
        /\ handler' = [handler EXCEPT ![h] = [NoHandler EXCEPT
             !.pc = "resolving", !.op = "submit", !.rec = k, !.row = row, !.sel = sel,
             !.left = relayProfiles(sel)]]
  BY DEF beginRunRecord
<1> DEFINE c == [NoHandler EXCEPT
             !.pc = "resolving", !.op = "submit", !.rec = k, !.row = row, !.sel = sel,
             !.left = relayProfiles(sel)]
<1>2. run' = run /\ k \in Records
  BY DEF beginRunRecord, unusedRecords
<1>3. row \in Rows /\ row.run = None
  BY DEF NoRow, Rows
<1> HIDE DEF row
<1>4. record'[k] = row /\ \A j \in Records \ {k} : record'[j] = record[j]
  BY <1>1, <1>2, <1>3, UpsertType, GatewayRunsConstants
<1>5. c.pc = "resolving" /\ c.op = "submit" /\ c.sel = sel
  BY DEF NoHandler
<1>6. handler' = [handler EXCEPT ![h] = c]
  BY <1>1
<1> HIDE DEF c
<1>7. namesItsRun(c, run')
  BY <1>5 DEF namesItsRun, submitting, following, working
<1>8. runsKept
  BY <1>2 DEF runsKept
<1>9. \A j \in Records : record'[j] = record[j] \/ rowNamesRun(record'[j], run')
  BY <1>3, <1>4 DEF rowNamesRun
<1> QED BY <1>6, <1>7, <1>8, <1>9, NamedStep

\* A request that names the route of the row.
LEMMA RequestNamed ==
  ASSUME IInv, Named, NEW h \in Handlers, NEW k \in Records, NEW op \in Lifecycle,
         requestRun(h, k, op, routeOf(k))
  PROVE  Named'
<1> DEFINE sel == routeOf(k)
           id == record[k].run
           c == [NoHandler EXCEPT !.pc = "resolving", !.op = op, !.id = id, !.sel = sel,
                                  !.left = relayProfiles(sel)]
<1>1. id # None /\ handler' = [handler EXCEPT ![h] = c] /\ UNCHANGED <<run, record>>
  BY DEF requestRun, storeVars
<1>2. sel.place = record[k].place
  BY DEF routeOf
<1>3. record[k].place \in Places /\ run[record[k].place][id] # "none"
  BY <1>1 DEF IInv, TypeOK, Rows, Named, RecordNamesItsRun
<1> HIDE DEF sel, id
<1>4. c.pc = "resolving" /\ c.op = op /\ c.sel = sel /\ c.id = id
  BY DEF NoHandler
<1> HIDE DEF c
<1>5. namesItsRun(c, run)
  BY <1>2, <1>3, <1>4 DEF namesItsRun, submitting, following, working, Lifecycle
<1> QED BY <1>1, <1>5, NamedQuiet

\* A request begins.
LEMMA BeginsNamed ==
  ASSUME RoutesAreNamed, IInv, Named, NEW h \in Handlers, Begins(h)
  PROVE  Named'
<1>1. ASSUME NEW sel \in Selectors, beginRunRecord(h, sel) PROVE Named'
  <2>1. sel \in Routes /\ sel.place \in Places
    BY GatewayRunsConstants DEF Routes, RoutesAreNamed
  <2> QED BY <1>1, <2>1, BeginNamed
<1>2. ASSUME NEW k \in Records, record[k].status = "blocked", beginRunRecord(h, routeOf(k))
      PROVE  Named'
  <2>1. record[k].run # None
    BY <1>2 DEF IInv, Good, goodRow
  <2>2. record[k].place \in Places
    BY <2>1 DEF IInv, TypeOK, Rows, Named, RecordNamesItsRun
  <2>3. routeOf(k) \in Routes /\ routeOf(k).place \in Places
    BY <2>2, RouteType DEF routeOf
  <2> QED BY <1>2, <2>3, BeginNamed
<1>3. ASSUME NEW k \in Records, NEW op \in Lifecycle, NEW sel \in {routeOf(k), namedRoute(k)},
             requestRun(h, k, op, sel)
      PROVE  Named'
  <2>1. sel = routeOf(k)
    BY DEF RoutesAreNamed, namedRoute
  <2> QED BY <1>3, <2>1, RequestNamed
<1> QED BY <1>1, <1>2, <1>3, RequestForms

\* A handler that goes to another stage and says nothing new.
LEMMA StageNamed ==
  ASSUME IInv, Named, NEW h \in Handlers, NEW c, handler' = [handler EXCEPT ![h] = c],
         c.sel = handler[h].sel, c.id = handler[h].id, c.op = handler[h].op,
         working(handler[h]), c.pc \in {"resolving", "calling", "routing", "finishing"},
         c.op = "submit" => c.pc # "calling" /\ c.to = None,
         c.op # "submit" => c.pc \in {"resolving", "calling"},
         UNCHANGED <<run, record>>
  PROVE  Named'
<1> DEFINE e == handler[h]
<1>1. namesItsRun(e, run)
  BY DEF Named
<1>2. c.sel = e.sel /\ c.id = e.id /\ c.op = e.op /\ working(e)
  OBVIOUS
<1> HIDE DEF e
<1>3. namesItsRun(c, run)
  BY <1>1, <1>2 DEF namesItsRun, submitting, following, working
<1> QED BY <1>3, NamedQuiet


\* A handler that gives up.
LEMMA GivesUpNamed ==
  ASSUME IInv, Named, NEW h \in Handlers, givesUp(h), working(handler[h]), UNCHANGED <<run, record>>
  PROVE  Named'
<1> DEFINE e == handler[h]
<1>0. e \in HandlerStates
  BY DEF IInv, TypeOK
<1>1. CASE e.op = "submit"
  <2> DEFINE pl == payload("failed", None)
             c == [e EXCEPT !.pc = "finishing", !.to = None, !.payload = pl]
  <2>1. handler' = [handler EXCEPT ![h] = c]
    BY <1>1 DEF givesUp
  <2> HIDE DEF pl
  <2>2. c.pc = "finishing" /\ c.to = None /\ c.sel = e.sel /\ c.id = e.id /\ c.op = e.op
    <3> HIDE DEF e
    <3> QED BY <1>0 DEF HandlerStates
  <2> HIDE DEF c
  <2> QED BY <1>1, <2>1, <2>2, StageNamed
<1>2. CASE e.op # "submit"
  <2>1. handler' = [handler EXCEPT ![h] = NoHandler]
    BY <1>2 DEF givesUp
  <2>2. namesItsRun(NoHandler, run)
    BY NoHandlerType, IdleNames
  <2> QED BY <2>1, <2>2, NamedQuiet
<1> QED BY <1>1, <1>2

\* The project is looked for.
LEMMA FetchNamed ==
  ASSUME IInv, Named, NEW h \in Handlers, fetchRelayProject(h)
  PROVE  Named'
<1> DEFINE e == handler[h]
<1>1. PICK l \in e.left, reached \in BOOLEAN :
        LET there == {p \in Places : RelayOf[p] = l} IN
        handler' = [handler EXCEPT ![h] = [e EXCEPT
          !.left = e.left \ {l},
          !.found = e.found \cup
                    IF reached THEN {[relay |-> l, online |-> online \cap there]} ELSE {},
          !.skipped = e.skipped \cup IF reached THEN {} ELSE {l}]]
  BY DEF fetchRelayProject
<1>2. e \in HandlerStates /\ e.pc = "resolving" /\ UNCHANGED <<run, record>> /\ namesItsRun(e, run)
  BY DEF fetchRelayProject, IInv, TypeOK, storeVars, Named
<1> HIDE DEF e
<1> DEFINE left == e.left \ {l}
           found == e.found \cup IF reached
                    THEN {[relay |-> l, online |-> online \cap {p \in Places : RelayOf[p] = l}]}
                    ELSE {}
           skipped == e.skipped \cup IF reached THEN {} ELSE {l}
           c == [e EXCEPT !.left = left, !.found = found, !.skipped = skipped]
<1>3. handler' = [handler EXCEPT ![h] = c]
  BY <1>1
<1> HIDE DEF left, found, skipped
<1>4. c.pc = "resolving" /\ c.op = e.op /\ c.sel = e.sel /\ c.id = e.id
  BY <1>2 DEF HandlerStates
<1> HIDE DEF c
<1>5. namesItsRun(c, run)
  BY <1>2, <1>4 DEF namesItsRun, submitting, following, working
<1> QED BY <1>2, <1>3, <1>5, NamedQuiet

\* resolveProject
LEMMA ResolveNamed ==
  ASSUME IInv, Named, NEW h \in Handlers, resolveProject(h)
  PROVE  Named'
<1> DEFINE e == handler[h]
<1>0. /\ e \in HandlerStates /\ e.pc = "resolving" /\ UNCHANGED <<run, record>>
      /\ handler \in [Handlers -> HandlerStates] /\ namesItsRun(e, run)
  BY DEF resolveProject, IInv, TypeOK, storeVars, Named
<1>1. CASE givesUp(h)
  BY <1>0, <1>1, GivesUpNamed DEF working
<1>2. CASE ~givesUp(h)
  <2> DEFINE pc == IF e.op = "submit" THEN "routing" ELSE "calling"
             c == [e EXCEPT !.pc = pc]
  <2>1. handler' = [handler EXCEPT ![h].pc = pc]
    BY <1>2 DEF resolveProject, goes
  <2>2. handler' = [handler EXCEPT ![h] = c]
    BY <1>0, <2>1
  <2> HIDE DEF e
  <2>3. c.pc = pc /\ c.op = e.op /\ c.sel = e.sel /\ c.id = e.id
    BY <1>0 DEF HandlerStates
  <2> HIDE DEF c
  <2>4. namesItsRun(c, run)
    BY <1>0, <2>3 DEF namesItsRun, submitting, following, working
  <2> QED BY <1>0, <2>2, <2>4, NamedQuiet
<1> QED BY <1>1, <1>2

\* The relay leaves a request that names a machine no other choice.
LEMMA RelayChoosesNamed ==
  ASSUME NEW h, handler[h].sel.place # None, NEW p \in relayChooses(h)
  PROVE  p = handler[h].sel.place /\ RelayOf[p] = matchRelay(handler[h])
BY DEF relayChooses, filterLocations, matchOf, matchRelay

\* submitToRelay: the place that starts the run is the one the row names.
LEMMA SubmitNamed ==
  ASSUME IInv, Named, NEW h \in Handlers, submitToRelay(h)
  PROVE  Named'
<1> DEFINE e == handler[h]
<1>0. /\ e \in HandlerStates /\ e.pc = "calling" /\ e.op = "submit" /\ record' = record
      /\ run \in [Places -> [RunIds -> RunStates]] /\ handler \in [Handlers -> HandlerStates]
      /\ namesItsRun(e, run)
  BY DEF submitToRelay, IInv, TypeOK, storeVars, Named
<1>1. PICK p \in relayChooses(h), id \in RunIds :
        /\ run' = [run EXCEPT ![p][id] = "running"]
        /\ handler' = [handler EXCEPT ![h].pc = "waiting", ![h].to = p, ![h].id = id]
  BY DEF submitToRelay
<1>2. e.sel.place \in Places
  <2> HIDE DEF e
  <2> QED BY <1>0 DEF namesItsRun, working
<1>3. p = e.sel.place /\ RelayOf[p] = matchRelay(e)
  BY <1>2, RelayChoosesNamed, GatewayRunsConstants
<1> DEFINE c == [e EXCEPT !.pc = "waiting", !.to = p, !.id = id]
<1>4. handler' = [handler EXCEPT ![h] = c]
  BY <1>0, <1>1
<1>5. runsKept /\ run'[p][id] # "none"
  BY <1>0, <1>1, <1>2, <1>3 DEF runsKept
<1> HIDE DEF e
<1>6. c.pc = "waiting" /\ c.op = e.op /\ c.sel = e.sel /\ c.row = e.row /\ c.id = id /\ c.to = p
  BY <1>0 DEF HandlerStates
<1>7. e.row.place = e.sel.place
  BY <1>0, <1>3 DEF namesItsRun, submitting, working
<1> HIDE DEF c
<1>8. namesItsRun(c, run')
  BY <1>0, <1>2, <1>3, <1>5, <1>6, <1>7 DEF namesItsRun, submitting, following, working
<1> QED BY <1>0, <1>4, <1>5, <1>8, NamedStep

\* submitAnswers
LEMMA AnswerNamed ==
  ASSUME IInv, Named, NEW h \in Handlers, submitAnswers(h)
  PROVE  Named'
<1> DEFINE e == handler[h]
<1>0. /\ e \in HandlerStates /\ goodHandler(e) /\ e.pc = "waiting" /\ UNCHANGED <<run, record>>
      /\ handler \in [Handlers -> HandlerStates] /\ namesItsRun(e, run)
  BY DEF submitAnswers, IInv, TypeOK, Good, storeVars, Named
<1>1. PICK status : handler' = [handler EXCEPT ![h].pc = "answered", ![h].payload = payload(status, None)]
  BY DEF submitAnswers
<1> DEFINE pl == payload(status, None)
           c == [e EXCEPT !.pc = "answered", !.payload = pl]
<1>2. handler' = [handler EXCEPT ![h] = c]
  BY <1>0, <1>1
<1> HIDE DEF e, pl
<1>3. /\ c.pc = "answered" /\ c.op = e.op /\ c.sel = e.sel /\ c.row = e.row /\ c.id = e.id
      /\ c.to = e.to
  BY <1>0 DEF HandlerStates
<1>4. e.op = "submit"
  BY <1>0 DEF goodHandler, following, working
<1> HIDE DEF c
<1>5. namesItsRun(c, run)
  BY <1>0, <1>3, <1>4 DEF namesItsRun, submitting, following, working
<1> QED BY <1>0, <1>2, <1>5, NamedQuiet

\* callRelay: the machine that answers is the one the request names.
LEMMA CallNamed ==
  ASSUME IInv, Named, NEW h \in Handlers, callRelay(h)
  PROVE  Named'
<1> DEFINE e == handler[h]
<1>0. /\ e \in HandlerStates /\ goodHandler(e) /\ e.pc = "calling" /\ e.op # "submit"
      /\ record' = record /\ run \in [Places -> [RunIds -> RunStates]]
      /\ handler \in [Handlers -> HandlerStates] /\ namesItsRun(e, run)
  BY DEF callRelay, IInv, TypeOK, Good, storeVars, Named
<1>1. PICK p \in relayChooses(h) : \E out \in lifecycleOutcomes(e.op, p, e.id) :
        /\ run' = [run EXCEPT ![p][e.id] = out[1]]
        /\ handler' = [handler EXCEPT ![h].pc = "answered", ![h].to = p, ![h].payload = out[2]]
  BY DEF callRelay
<1>2. PICK out \in lifecycleOutcomes(e.op, p, e.id) :
        /\ run' = [run EXCEPT ![p][e.id] = out[1]]
        /\ handler' = [handler EXCEPT ![h].pc = "answered", ![h].to = p, ![h].payload = out[2]]
  BY <1>1
<1>3. e.op \in Lifecycle /\ e.id \in RunIds /\ e.sel.place \in Places
  <2> HIDE DEF e
  <2> QED BY <1>0 DEF goodHandler, namesItsRun, following, working
<1>4. p = e.sel.place /\ RelayOf[p] = matchRelay(e)
  BY <1>3, RelayChoosesNamed, GatewayRunsConstants
<1> DEFINE o1 == out[1]
           pl == out[2]
           c == [e EXCEPT !.pc = "answered", !.to = p, !.payload = pl]
<1>5. run[p][e.id] # "none" => o1 # "none"
  <2> HIDE DEF e
  <2> QED BY <1>0, <1>2, <1>3, <1>4, LifecycleAnswer
<1>6. handler' = [handler EXCEPT ![h] = c] /\ run' = [run EXCEPT ![p][e.id] = o1]
  BY <1>0, <1>2
<1> HIDE DEF e, pl, o1
<1>7. runsKept
  BY <1>0, <1>3, <1>4, <1>5, <1>6 DEF runsKept
<1>8. c.pc = "answered" /\ c.op = e.op /\ c.sel = e.sel /\ c.id = e.id /\ c.found = e.found
  BY <1>0 DEF HandlerStates
<1> HIDE DEF c
<1>9. run[e.sel.place][e.id] # "none"
  BY <1>0 DEF namesItsRun, following, working
<1>10. run'[e.sel.place][e.id] # "none"
  BY <1>3, <1>7, <1>9 DEF runsKept
<1>11. namesItsRun(c, run')
  BY <1>0, <1>3, <1>4, <1>8, <1>10 DEF namesItsRun, submitting, following, working, matchRelay
<1> QED BY <1>0, <1>6, <1>7, <1>11, NamedStep

\* responsePayload
LEMMA ResponseNamed ==
  ASSUME IInv, Named, NEW h \in Handlers, responsePayload(h)
  PROVE  Named'
<1> DEFINE e == handler[h]
<1>0. /\ e \in HandlerStates /\ e.pc = "answered" /\ UNCHANGED <<run, record>>
      /\ handler \in [Handlers -> HandlerStates] /\ namesItsRun(e, run)
  BY DEF responsePayload, IInv, TypeOK, storeVars, Named
<1>1. CASE e.op = "submit"
  <2> DEFINE c == [e EXCEPT !.pc = "finishing"]
  <2>1. handler' = [handler EXCEPT ![h] = c]
    BY <1>0, <1>1 DEF responsePayload, goes
  <2> HIDE DEF e
  <2>2. /\ c.pc = "finishing" /\ c.op = e.op /\ c.sel = e.sel /\ c.row = e.row /\ c.id = e.id
        /\ c.to = e.to
    BY <1>0 DEF HandlerStates
  <2> HIDE DEF c
  <2>3. namesItsRun(c, run)
    BY <1>0, <1>1, <2>2 DEF namesItsRun, submitting, following, working
  <2> QED BY <1>0, <2>1, <2>3, NamedQuiet
<1>2. CASE e.op # "submit"
  <2> DEFINE k == FindRunRecordByRunID(e.id)
             row == IF k = None THEN NoRow ELSE record[k]
             c == [e EXCEPT !.pc = "routing", !.rec = k, !.row = row]
  <2>1. handler' = [handler EXCEPT ![h] = c]
    BY <1>0, <1>2 DEF responsePayload
  <2> HIDE DEF e, k, row
  <2>2. c.pc = "routing" /\ c.op = e.op /\ c.sel = e.sel /\ c.id = e.id /\ c.found = e.found
    BY <1>0 DEF HandlerStates
  <2> HIDE DEF c
  <2>3. namesItsRun(c, run)
    BY <1>0, <1>2, <2>2 DEF namesItsRun, submitting, following, working, matchRelay
  <2> QED BY <1>0, <2>1, <2>3, NamedQuiet
<1> QED BY <1>1, <1>2

\* applyRouteToRunRecord: the route that is written is the machine that was named.
LEMMA RouteNamed ==
  ASSUME IInv, Named, NEW h \in Handlers, applyRouteToRunRecord(h)
  PROVE  Named'
<1> DEFINE e == handler[h]
           k == e.rec
<1>0. /\ e \in HandlerStates /\ goodHandler(e) /\ e.pc = "routing" /\ run' = run
      /\ namesItsRun(e, run)
  BY DEF applyRouteToRunRecord, IInv, TypeOK, Good, Named
<1>1. PICK p \in selectedProjectLocation(matchOf(h), e.sel) :
        /\ UpsertRunRecord(k, routed(h, p))
        /\ handler' = [handler EXCEPT ![h] = [e EXCEPT
             !.row = IF k = None THEN e.row ELSE routed(h, p),
             !.pc = IF e.op = "submit" THEN "calling" ELSE "finishing"]]
  BY DEF applyRouteToRunRecord
<1>2. p \in Places \cup {None}
  BY DEF selectedProjectLocation, filterLocations
<1>3. matchOf(h).relay = matchRelay(e) /\ matchRelay(e) \in Relays /\ e.row \in Rows
      /\ k \in Records \cup {None}
  <2>1. e.found # {}
    BY <1>0 DEF goodHandler
  <2> QED BY <1>0, <2>1, MatchIsFound DEF matchOf, matchRelay, HandlerStates
<1>4. e.sel.place \in Places
  <2> HIDE DEF e
  <2> QED BY <1>0 DEF namesItsRun, working
<1>5. RelayOf[e.sel.place] = matchRelay(e) => p = e.sel.place
  <2> DEFINE here == {q \in Places : RelayOf[q] = matchOf(h).relay} \cap {e.sel.place}
             up == here \cap matchOf(h).online
  <2>1. p \in (IF up # {} THEN up ELSE IF here # {} THEN here ELSE {None})
    BY <1>4, GatewayRunsConstants DEF selectedProjectLocation, filterLocations
  <2>2. RelayOf[e.sel.place] = matchRelay(e) => here = {e.sel.place}
    BY <1>3, <1>4
  <2> HIDE DEF here
  <2> QED BY <2>1, <2>2
<1> DEFINE row == routed(h, p)
           row2 == IF k = None THEN e.row ELSE row
           pc == IF e.op = "submit" THEN "calling" ELSE "finishing"
           c == [e EXCEPT !.row = row2, !.pc = pc]
<1>6. row \in Rows /\ row.run = e.row.run /\ row.place = p
  <2> DEFINE r == e.row
             l == matchOf(h).relay
  <2>1. row = [r EXCEPT !.relay = l, !.place = p] /\ r \in Rows /\ l \in Relays
    BY <1>3 DEF routed
  <2> HIDE DEF r, l, row
  <2>2. row \in Rows /\ row.run = r.run /\ row.place = p
    BY <1>2, <2>1 DEF Rows
  <2> QED BY <2>2 DEF r
<1>7. handler' = [handler EXCEPT ![h] = c] /\ UpsertRunRecord(k, row)
  BY <1>1
<1> HIDE DEF row, e
<1>8. /\ k # None => record'[k] = row
      /\ \A j \in Records \ {k} : record'[j] = record[j]
  <2> HIDE DEF k
  <2> QED BY <1>3, <1>6, <1>7, UpsertType
<1> HIDE DEF row2
<1>9. /\ c.pc = pc /\ c.op = e.op /\ c.rec = k /\ c.row = row2 /\ c.found = e.found /\ c.id = e.id
      /\ c.sel = e.sel
  BY <1>0 DEF HandlerStates
<1> HIDE DEF c
<1>10. CASE e.op = "submit"
  <2>1. k \in Records /\ e.row.run = None
    BY <1>0, <1>10 DEF goodHandler, submitting, working
  <2>2. row2 = row
    BY <2>1, GatewayRunsConstants DEF row2
  <2>3. namesItsRun(c, run')
    BY <1>0, <1>4, <1>5, <1>6, <1>9, <1>10, <2>2 DEF namesItsRun, submitting, following, working,
                                                        matchRelay
  <2>4. rowNamesRun(row, run')
    BY <1>6, <2>1 DEF rowNamesRun
  <2>5. runsKept
    BY <1>0 DEF runsKept
  <2> HIDE DEF k
  <2>6. \A j \in Records : record'[j] = record[j] \/ rowNamesRun(record'[j], run')
    BY <1>8, <2>1, <2>4, GatewayRunsConstants
  <2> QED BY <1>7, <2>3, <2>5, <2>6, NamedStep
<1>11. CASE e.op # "submit"
  <2>1. following(e) /\ p = e.sel.place /\ run[e.sel.place][e.id] # "none"
    BY <1>0, <1>5, <1>11 DEF namesItsRun, following, working
  <2>2. k # None => row2 = row /\ row.run = e.id
    BY <1>0, <1>6, <2>1 DEF goodHandler, row2
  <2>3. namesItsRun(c, run')
    BY <1>0, <1>4, <1>6, <1>9, <1>11, <2>1, <2>2 DEF namesItsRun, submitting, following, working
  <2>4. k # None => rowNamesRun(row, run')
    BY <1>0, <1>4, <1>6, <2>1, <2>2, GatewayRunsConstants DEF rowNamesRun
  <2>5. runsKept
    BY <1>0 DEF runsKept
  <2> HIDE DEF k
  <2>6. \A j \in Records : record'[j] = record[j] \/ rowNamesRun(record'[j], run')
    BY <1>8, <2>4, GatewayRunsConstants
  <2> QED BY <1>7, <2>3, <2>5, <2>6, NamedStep
<1> QED BY <1>10, <1>11

\* finishRunRecord: the run that is written is at the machine of the row.
LEMMA FinishNamed ==
  ASSUME IInv, Named, NEW h \in Handlers, finishRunRecord(h)
  PROVE  Named'
<1> DEFINE e == handler[h]
           k == e.rec
           pl == e.payload
           id == IF e.to = None THEN None ELSE e.id
           report == IF e.to = None THEN "unavailable"
                     ELSE reportStatusForPayload(pl, IF e.op = "report" THEN "completed" ELSE "available")
           row == applyPayloadToRunRecord(e.row, id, pl, report)
           c == [NoHandler EXCEPT !.pc = "auditing", !.rec = k, !.payload = pl]
<1>0. /\ e \in HandlerStates /\ goodHandler(e) /\ e.pc = "finishing" /\ run' = run
      /\ UpsertRunRecord(k, row) /\ handler' = [handler EXCEPT ![h] = c] /\ namesItsRun(e, run)
      /\ record \in [Records -> Rows]
  BY DEF finishRunRecord, IInv, TypeOK, Good, Named
<1> HIDE DEF e
<1>1. k \in Records \cup {None} /\ e.row \in Rows
  BY <1>0 DEF HandlerStates
<1>2. row.place = e.row.place /\ row.run = IF e.row.run = None THEN id ELSE e.row.run
  <2> DEFINE r == e.row
             run2 == IF r.run = None THEN id ELSE r.run
             status == pl.status
  <2>1. row = [r EXCEPT !.run = run2, !.status = status, !.report = report] /\ r \in Rows
    BY <1>1 DEF applyPayloadToRunRecord
  <2> HIDE DEF r, row, run2, status, report
  <2>2. row.place = r.place /\ row.run = run2
    BY <2>1 DEF Rows
  <2> QED BY <2>2 DEF r, run2
<1>3. \A j \in Records : record'[j] = record[j] \/ (j = k /\ record'[j] = row)
  <2> HIDE DEF row
  <2> QED BY <1>0, GatewayRunsConstants DEF UpsertRunRecord
<1>4. c.pc = "auditing"
  BY DEF NoHandler
<1> HIDE DEF c, row
<1>5. namesItsRun(c, run')
  BY <1>4, IdleNames
<1>6. runsKept
  BY <1>0 DEF runsKept
<1>7. k \in Records => rowNamesRun(row, run')
  <2>1. CASE e.op = "submit" /\ e.to = None
    BY <1>0, <1>2, <2>1 DEF rowNamesRun, goodHandler, submitting, working
  <2>2. CASE e.op = "submit" /\ e.to # None
    <3>1. e.row.run = None /\ e.to \in Places /\ e.row.place = e.to /\ run[e.to][e.id] # "none"
      BY <1>0, <2>2 DEF goodHandler, namesItsRun, submitting, working
    <3>2. row.place = e.to /\ row.run = e.id
      BY <1>2, <2>2, <3>1
    <3> QED BY <1>0, <2>2, <3>1, <3>2 DEF rowNamesRun
  <2>3. CASE e.op # "submit" /\ k \in Records
    <3>1. k # None
      BY <2>3, GatewayRunsConstants
    <3>2. /\ e.row.run = e.id /\ e.id \in RunIds /\ e.row.place = e.sel.place /\ e.sel.place \in Places
          /\ run[e.sel.place][e.id] # "none"
      BY <1>0, <2>3, <3>1 DEF goodHandler, namesItsRun, following, working
    <3>3. row.place = e.sel.place /\ row.run = e.id /\ e.sel.place # None
      BY <1>2, <3>2, GatewayRunsConstants
    <3> QED BY <1>0, <3>2, <3>3 DEF rowNamesRun
  <2> QED BY <2>1, <2>2, <2>3
<1> HIDE DEF k
<1>8. \A j \in Records : record'[j] = record[j] \/ rowNamesRun(record'[j], run')
  BY <1>3, <1>7
<1> QED BY <1>0, <1>5, <1>6, <1>8, NamedStep

\* handleSyncRuns: the machine that publishes a run has it.
LEMMA SyncNamed ==
  ASSUME IInv, Named, NEW h \in Handlers, handleSyncRuns(h)
  PROVE  Named'
<1>1. PICK p \in Places, id \in RunIds : \E k :
          /\ UpsertRunRecord(k, syncedRunRecordFromPayload(p, id))
          /\ run[p][id] # "none" /\ UNCHANGED <<run, handler>>
  BY DEF handleSyncRuns
<1>2. PICK k : /\ UpsertRunRecord(k, syncedRunRecordFromPayload(p, id))
               /\ run[p][id] # "none" /\ UNCHANGED <<run, handler>>
  BY <1>1
<1> DEFINE row == syncedRunRecordFromPayload(p, id)
<1>3. row.run = id /\ row.place = p
  BY DEF syncedRunRecordFromPayload
<1>4. UpsertRunRecord(k, row)
  BY <1>2
<1> HIDE DEF row
<1>5. \A j \in Records : record'[j] = record[j] \/ record'[j] = row
  BY <1>4 DEF UpsertRunRecord, IInv, TypeOK
<1>6. rowNamesRun(row, run')
  BY <1>2, <1>3, GatewayRunsConstants DEF rowNamesRun
<1>7. \A j \in Records : record'[j] = record[j] \/ rowNamesRun(record'[j], run')
  BY <1>5, <1>6
<1>8. runsKept
  BY <1>2 DEF runsKept
<1> DEFINE c == handler[h]
<1>9. handler' = [handler EXCEPT ![h] = c] /\ namesItsRun(c, run')
  BY <1>2 DEF IInv, TypeOK, Named
<1> HIDE DEF c
<1> QED BY <1>7, <1>8, <1>9, NamedStep

\* The machines: a run that has begun is never unknown again.
LEMMA MachineNamed ==
  ASSUME IInv, Named, \/ \E p \in Places : placeChanges(p)
                      \/ \E p \in Places, id \in RunIds : daemonRuns(p, id)
  PROVE  Named'
<1>1. UNCHANGED <<record, handler>>
  BY DEF placeChanges, daemonRuns, storeVars
<1>2. runsKept
  <2>1. CASE \E p \in Places : placeChanges(p)
    BY <2>1 DEF placeChanges, runsKept
  <2>2. CASE \E p \in Places, id \in RunIds : daemonRuns(p, id)
    <3>1. PICK p \in Places, id \in RunIds : daemonRuns(p, id)
      BY <2>2
    <3>2. PICK state \in Ends \cup {"running"} : run' = [run EXCEPT ![p][id] = state]
      BY <3>1 DEF daemonRuns
    <3>3. state # "none"
      BY <3>2, GatewayRunsConstants
    <3> QED BY <3>2, <3>3 DEF IInv, TypeOK, runsKept
  <2> QED BY <2>1, <2>2
<1>3. CASE Handlers = {}
  <2>1. \A k \in Records : record[k].run # None => record[k].run \in RunIds /\ record[k].place \in Places
    BY DEF IInv, TypeOK, Rows, Named, RecordNamesItsRun
  <2> QED BY <1>1, <1>2, <1>3, <2>1 DEF Named, RecordNamesItsRun, runsKept
<1>4. ASSUME NEW h \in Handlers PROVE Named'
  <2> DEFINE e == handler[h]
  <2>1. handler' = [handler EXCEPT ![h] = e] /\ goodHandler(e) /\ namesItsRun(e, run)
    BY <1>1 DEF IInv, TypeOK, Good, Named
  <2> HIDE DEF e
  <2>2. following(e) => run'[e.sel.place][e.id] # "none"
    BY <1>2, <2>1 DEF goodHandler, namesItsRun, following, runsKept
  <2>3. submitting(e) /\ (e.pc \in {"waiting", "answered"} \/ (e.pc = "finishing" /\ e.to # None))
        => run'[e.to][e.id] # "none"
    BY <1>2, <2>1 DEF goodHandler, namesItsRun, runsKept
  <2>4. namesItsRun(e, run')
    BY <2>1, <2>2, <2>3 DEF namesItsRun
  <2> QED BY <1>1, <1>2, <2>1, <2>4, NamedStep
<1> QED BY <1>3, <1>4

\* A handler goes on.
LEMMA ContinueNamed ==
  ASSUME IInv, Named, NEW h \in Handlers, Continue(h)
  PROVE  Named'
<1>1. CASE invalidRequest(h) \/ callRelayFails(h)
  <2>1. givesUp(h) /\ working(handler[h]) /\ UNCHANGED <<run, record>>
    BY <1>1 DEF invalidRequest, callRelayFails, working, storeVars
  <2> QED BY <2>1, GivesUpNamed
<1>2. CASE recordTerminalRunAuditOnce(h)
  <2>1. handler' = [handler EXCEPT ![h] = NoHandler] /\ UNCHANGED <<run, record>>
    BY <1>2 DEF recordTerminalRunAuditOnce, answered
  <2>2. namesItsRun(NoHandler, run)
    BY NoHandlerType, IdleNames
  <2> QED BY <2>1, <2>2, NamedQuiet
<1> QED BY <1>1, <1>2, FetchNamed, ResolveNamed, RouteNamed, SubmitNamed, AnswerNamed, CallNamed,
           ResponseNamed, FinishNamed DEF Continue

\* Every step keeps the rows and the handlers together with the runs.
LEMMA NextNamed ==
  ASSUME RoutesAreNamed
  PROVE  IInv /\ Named /\ [Next]_vars => Named'
<1> SUFFICES ASSUME IInv, Named, [Next]_vars PROVE Named'
  OBVIOUS
<1>1. CASE UNCHANGED vars
  BY <1>1 DEF vars, storeVars, Named, RecordNamesItsRun
<1>2. ASSUME NEW h \in Handlers, callerLeaves(h) PROVE Named'
  <2>1. handler' = [handler EXCEPT ![h] = NoHandler] /\ UNCHANGED <<run, record>>
    BY <1>2 DEF callerLeaves, answered, storeVars
  <2>2. namesItsRun(NoHandler, run)
    BY NoHandlerType, IdleNames
  <2> QED BY <2>1, <2>2, NamedQuiet
<1>3. ASSUME NEW h \in Handlers, Begins(h) \/ handleSyncRuns(h) \/ Continue(h) PROVE Named'
  BY <1>3, BeginsNamed, SyncNamed, ContinueNamed
<1> QED BY <1>1, <1>2, <1>3, MachineNamed DEF Next, Begins

\* Where submissions name the machine and later requests the route of the row,
\* the machine a row names has the run the row names, for any number of relays,
\* machines and overlapping requests (applyRouteToRunRecord,
\* refreshRunRecordFromLifecyclePayload).
THEOREM RecordsNameTheirRuns ==
  ASSUME RoutesAreNamed
  PROVE  Spec => []RecordNamesItsRun
<1>1. Init => Named
  BY NoHandlerType, IdleNames DEF Init, Named, RecordNamesItsRun
<1>2. Named => RecordNamesItsRun
  BY DEF Named
<1>3. IInv /\ Named /\ [Next]_vars => Named'
  BY NextNamed
<1> QED BY <1>1, <1>2, <1>3, InitInv, NextInv, PTL DEF Spec

=============================================================================
