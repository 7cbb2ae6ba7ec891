----------------------------- MODULE GatewayRuns -----------------------------
(***************************************************************************)
(* Runs submitted through the gateway, and the history it keeps of them    *)
(* (internal/gateway/api.go, tools.go, run_history.go, store.go).          *)
(*                                                                         *)
(* A submission writes a row of gateway_run_records, asks the relays where *)
(* the project is, notes the location it expects, has the relay start the  *)
(* run, and writes the answer into the row. Later requests for the run     *)
(* (report, cancel, resume, the follow-up of a human's response) are       *)
(* routed anew, find the row by the run's id alone and replace it whole.   *)
(*                                                                         *)
(* Each action is one store statement or one call to a relay. A caller     *)
(* that goes away cancels the context of the handler, which can do nothing *)
(* more. One project is modelled; a place is one of its locations, the     *)
(* machine of a connector.                                                 *)
(***************************************************************************)
EXTENDS Naturals, Sequences, FiniteSets, SequencesExt

CONSTANTS
  Relays, Places, RunIds, Records, Handlers, None,
  RelayOf,     \* RelayOf[p]: the relay a place is connected to
  Selectors,   \* what submissions name of their destination
  Ends,        \* the states a run may come to by itself
  Follows,     \* "record": later requests name the route of the run's
               \* record; "nothing": they name the run alone
  MaxCalls     \* bound on the requests for runs that exist

ASSUME GatewayRunsConstants ==
  /\ RelayOf \in [Places -> Relays]
  /\ Selectors \subseteq [relay : Relays \cup {None}, place : Places \cup {None}]
  /\ Ends \subseteq {"paused", "completed", "failed"}
  /\ Follows \in {"record", "nothing"}
  /\ MaxCalls \in Nat
  /\ None \notin Relays \cup Places \cup RunIds \cup Records

VARIABLES
  online,     \* the places that are online at their relay
  run,        \* run[p][id]: the state of a run at the daemon of p
  record,     \* table gateway_run_records
  recent,     \* its rows, by updated_at
  audit,      \* the outcomes in table audit_events, by record
  handler,    \* the requests under way
  abandoned,  \* the records whose handler lost its caller
  calls

storeVars == <<record, recent, audit>>
vars == <<online, run, storeVars, handler, abandoned, calls>>

RunStates == {"none", "running", "paused", "completed", "failed", "cancelled"}

NoRow == [run |-> None, status |-> "unused", report |-> "none",
          relay |-> None, place |-> None]

NoHandler == [pc |-> "idle", op |-> None, rec |-> None, row |-> NoRow, id |-> None,
              sel |-> [relay |-> None, place |-> None], left |-> {}, found |-> {},
              skipped |-> {}, to |-> None, payload |-> None]

-----------------------------------------------------------------------------
(* Answers of a daemon *)

payload(status, event) == [status |-> status, event |-> event]

\* terminalAuditType: the outcome a payload stands for.
terminalAuditType(pl) ==
  CASE pl.event # None                   -> pl.event
    [] pl.status = "running"             -> "run_started"
    [] pl.status = "cancel_requested"    -> "run_cancel_requested"
    [] pl.status = "cancelled"           -> "run_cancelled"
    [] pl.status \in {"failed", "timeout"} -> "run_failed"
    [] pl.status \in {"blocked", "paused"} -> "blocker"
    [] OTHER                             -> "run_completed"

\* reportStatusForPayload
reportStatusForPayload(pl, terminalStatus) ==
  IF terminalAuditType(pl) \in {"run_started", "run_resumed"} THEN "pending"
  ELSE terminalStatus

\* CancelRun of localexec: an abort that is refused, for a run that is
\* unknown or finished among others, is answered as a blocker.
CancelRun(p, id) ==
  { <<run[p][id], payload("blocked", "blocker")>> } \cup
  IF run[p][id] \in {"running", "paused"}
  THEN {<<"cancelled", payload(status, None)>> : status \in {"cancelled", "cancel_requested"}}
  ELSE {}

\* ResumeRun of localexec, likewise.
ResumeRun(p, id) ==
  { <<run[p][id], payload("blocked", "blocker")>> } \cup
  IF run[p][id] = "paused" THEN {<<"running", payload("running", "run_resumed")>>} ELSE {}

\* GetRunPlanReport: an unknown run is an error of the call.
GetRunPlanReport(p, id) ==
  IF run[p][id] = "none" THEN {} ELSE {<<run[p][id], payload(run[p][id], None)>>}

\* The new state of the run and the answer, by operation.
lifecycleOutcomes(op, p, id) ==
  CASE op = "report" -> GetRunPlanReport(p, id)
    [] op = "cancel" -> CancelRun(p, id)
    [] op = "resume" -> ResumeRun(p, id)

-----------------------------------------------------------------------------
(* The store *)

\* updated_at of row k is now.
touched(k) ==
  LET at == {i \in DOMAIN recent : recent[i] = k} IN
  Append(IF at = {} THEN recent ELSE RemoveAt(recent, CHOOSE i \in at : TRUE), k)

\* ORDER BY updated_at DESC LIMIT 1
newest(rows) ==
  LET at == {i \in DOMAIN recent : recent[i] \in rows} IN
  IF at = {} THEN None ELSE recent[Max(at)]

\* UpsertRunRecord: the whole row, last writer wins.
UpsertRunRecord(k, row) ==
  IF k # None
  THEN /\ record' = [record EXCEPT ![k] = row]
       /\ recent' = touched(k)
  ELSE UNCHANGED <<record, recent>>

\* FindRunRecordByRunID: the row of the run that was written last, whichever
\* relay and machine it names.
FindRunRecordByRunID(id) == newest({k \in Records : record[k].run = id})

\* FindRunRecord asks for the route as well.
FindRunRecord(id, relay, p) ==
  newest({k \in Records :
            record[k].run = id /\ record[k].relay = relay /\ record[k].place = p})

RecordAudit(k, type) ==
  audit' = IF k # None THEN audit \cup {<<k, type>>} ELSE audit

unusedRecords == {k \in Records : record[k] = NoRow /\ \A h \in Handlers : handler[h].rec # k}

-----------------------------------------------------------------------------
(* Requests *)

goes(h, pc) == handler' = [handler EXCEPT ![h].pc = pc]
answered(h) == handler' = [handler EXCEPT ![h] = NoHandler]

\* The relays resolveProject asks: the one that is named, or all of them.
relayProfiles(sel) == IF sel.relay # None THEN {sel.relay} ELSE Relays

\* beginRunRecord: a row for the submission, with no route yet.
beginRunRecord(h, sel) ==
  LET row == [NoRow EXCEPT !.status = "submitted", !.report = "pending"] IN
  /\ handler[h].pc = "idle"
  /\ \E k \in unusedRecords :
       /\ UpsertRunRecord(k, row)
       /\ handler' = [handler EXCEPT ![h] = [NoHandler EXCEPT
            !.pc = "resolving", !.op = "submit", !.rec = k, !.row = row, !.sel = sel,
            !.left = relayProfiles(sel)]]
  /\ UNCHANGED <<online, run, audit, abandoned, calls>>

\* What a request for the run of row k begins with.
requestRun(h, k, op, sel) ==
  /\ handler[h].pc = "idle"
  /\ record[k].run # None
  /\ calls < MaxCalls
  /\ calls' = calls + 1
  /\ handler' = [handler EXCEPT ![h] = [NoHandler EXCEPT
       !.pc = "resolving", !.op = op, !.id = record[k].run, !.sel = sel,
       !.left = relayProfiles(sel)]]
  /\ UNCHANGED <<online, run, storeVars, abandoned>>

routeOf(k) == [relay |-> record[k].relay, place |-> record[k].place]

\* What a caller names of the destination of a run it has seen.
namedRoute(k) ==
  IF Follows = "record" THEN routeOf(k) ELSE [relay |-> None, place |-> None]

cancelProjectRunFromRecord(h, k, sel) == requestRun(h, k, "cancel", sel)

resumeProjectRunFromRecord(h, k, sel) == requestRun(h, k, "resume", sel)

\* startNewProjectTaskFromRecord: a submission to where the row says.
startNewProjectTaskFromRecord(h, k) ==
  /\ record[k].status = "blocked"
  /\ beginRunRecord(h, routeOf(k))

handleProjectRunCreate(h) == \E sel \in Selectors : beginRunRecord(h, sel)

handleProjectRunReportGet(h) == \E k \in Records : requestRun(h, k, "report", namedRoute(k))

handleProjectRunCancel(h) ==
  \E k \in Records : cancelProjectRunFromRecord(h, k, namedRoute(k))

handleProjectRunResume(h) ==
  \E k \in Records : resumeProjectRunFromRecord(h, k, namedRoute(k))

\* recordHumanInterruptResponse: the follow-up that was asked for, with the
\* route of the row.
recordHumanInterruptResponse(h) ==
  \E k \in Records :
    \/ resumeProjectRunFromRecord(h, k, routeOf(k))
    \/ cancelProjectRunFromRecord(h, k, routeOf(k))
    \/ startNewProjectTaskFromRecord(h, k)

\* projectForwardTool: the same requests, as tools of the MCP endpoint.
projectForwardTool(h) ==
  \/ \E sel \in Selectors : beginRunRecord(h, sel)
  \/ \E k \in Records, op \in {"report", "cancel", "resume"} :
       requestRun(h, k, op, namedRoute(k))

\* fetchRelayProject: one relay answers with the locations, or does not.
fetchRelayProject(h) ==
  \E l \in handler[h].left, reached \in BOOLEAN :
    LET there == {p \in Places : RelayOf[p] = l} IN
    /\ handler[h].pc = "resolving"
    /\ handler' = [handler EXCEPT ![h] = [@ EXCEPT
         !.left = handler[h].left \ {l},
         !.found = handler[h].found \cup
                   IF reached THEN {[relay |-> l, online |-> online \cap there]} ELSE {},
         !.skipped = handler[h].skipped \cup IF reached THEN {} ELSE {l}]]
    /\ UNCHANGED <<online, run, storeVars, abandoned, calls>>

\* filterLocations
filterLocations(places, sel) ==
  IF sel.place = None THEN places ELSE places \cap {sel.place}

\* ambiguousLocationBlocker
ambiguousLocationBlocker(match, sel) ==
  sel.place = None /\ Cardinality(match.online) > 1

\* selectedProjectLocation: one that is online, or else any.
selectedProjectLocation(match, sel) ==
  LET here == filterLocations({p \in Places : RelayOf[p] = match.relay}, sel)
      up == here \cap match.online IN
  IF up # {} THEN up ELSE IF here # {} THEN here ELSE {None}

\* What a handler does when it gives up: finishRunRecord for a submission.
givesUp(h) ==
  handler' = [handler EXCEPT ![h] =
    IF @.op = "submit" THEN [@ EXCEPT !.pc = "finishing", !.to = None,
                                      !.payload = payload("failed", None)]
    ELSE NoHandler]

\* Mutant: a route that cannot be resolved is not written down.
resolveProjectSilently(h) ==
  LET matches == handler[h].found
      clear == /\ Cardinality(matches) = 1
               /\ \A x \in matches : ~ambiguousLocationBlocker(x, handler[h].sel) IN
  /\ handler[h].pc = "resolving"
  /\ handler[h].left = {}
  /\ IF clear THEN goes(h, IF handler[h].op = "submit" THEN "routing" ELSE "calling")
     ELSE answered(h)
  /\ UNCHANGED <<online, run, storeVars, abandoned, calls>>

\* resolveProject: the one relay that has the project.
resolveProject(h) ==
  LET matches == handler[h].found
      clear == /\ Cardinality(matches) = 1
               /\ \A x \in matches : ~ambiguousLocationBlocker(x, handler[h].sel) IN
  /\ handler[h].pc = "resolving"
  /\ handler[h].left = {}
  /\ IF clear THEN goes(h, IF handler[h].op = "submit" THEN "routing" ELSE "calling")
     ELSE givesUp(h)
  /\ UNCHANGED <<online, run, storeVars, abandoned, calls>>

matchOf(h) == CHOOSE x \in handler[h].found : TRUE

\* The row with the route the gateway expects.
routed(h, p) ==
  [handler[h].row EXCEPT !.relay = matchOf(h).relay, !.place = p]

\* applyRouteToRunRecord
applyRouteToRunRecord(h) ==
  LET k == handler[h].rec IN
  /\ handler[h].pc = "routing"
  /\ \E p \in selectedProjectLocation(matchOf(h), handler[h].sel) :
       /\ UpsertRunRecord(k, routed(h, p))
       /\ handler' = [handler EXCEPT ![h] = [@ EXCEPT
            !.row = IF k = None THEN handler[h].row ELSE routed(h, p),
            !.pc = IF handler[h].op = "submit" THEN "calling" ELSE "finishing"]]
  /\ UNCHANGED <<online, run, audit, abandoned, calls>>

\* submitProjectTaskRoute, validateExplicitExecutorMetadata: the request is
\* not one that can be sent.
invalidRequest(h) ==
  /\ handler[h].pc = "calling"
  /\ handler[h].op = "submit"
  /\ givesUp(h)
  /\ UNCHANGED <<online, run, storeVars, abandoned, calls>>

\* Mutant: the relay is not told which machine was asked for.
relayChoosesAny(h) == {p \in online : RelayOf[p] = matchOf(h).relay}

\* appendSelector and the relay's own resolveProjectRecord: one place that is
\* online by now and that the selector of the request leaves.
relayChooses(h) ==
  filterLocations({p \in online : RelayOf[p] = matchOf(h).relay}, handler[h].sel)

\* callRelay with a submission: the daemon starts a run, under an id of its
\* own or in a run that it has.
submitToRelay(h) ==
  /\ handler[h].pc = "calling"
  /\ handler[h].op = "submit"
  /\ Cardinality(relayChooses(h)) = 1
  /\ \E p \in relayChooses(h), id \in RunIds :
       /\ \/ \A q \in Places : run[q][id] = "none"
          \/ run[p][id] # "none"
       /\ run' = [run EXCEPT ![p][id] = "running"]
       /\ handler' = [handler EXCEPT ![h].pc = "waiting", ![h].to = p, ![h].id = id]
  /\ UNCHANGED <<online, storeVars, abandoned, calls>>

\* The answer: at once, when the run has finished or stopped, or when the
\* wait is over.
submitAnswers(h) ==
  /\ handler[h].pc = "waiting"
  /\ \E status \in {"running", "timeout", run[handler[h].to][handler[h].id]} :
       handler' = [handler EXCEPT ![h].pc = "answered", ![h].payload = payload(status, None)]
  /\ UNCHANGED <<online, run, storeVars, abandoned, calls>>

\* callRelay with a request for a run.
callRelay(h) ==
  LET op == handler[h].op
      id == handler[h].id IN
  /\ handler[h].pc = "calling"
  /\ op # "submit"
  /\ Cardinality(relayChooses(h)) = 1
  /\ \E p \in relayChooses(h) : \E out \in lifecycleOutcomes(op, p, id) :
       /\ run' = [run EXCEPT ![p][id] = out[1]]
       /\ handler' = [handler EXCEPT ![h].pc = "answered", ![h].to = p, ![h].payload = out[2]]
  /\ UNCHANGED <<online, storeVars, abandoned, calls>>

\* The relay cannot be reached or refuses, or its answer is lost or late.
callRelayFails(h) ==
  /\ handler[h].pc \in {"calling", "waiting", "answered"}
  /\ givesUp(h)
  /\ UNCHANGED <<online, run, storeVars, abandoned, calls>>

\* responsePayload, and for a run's request the row of the run.
responsePayload(h) ==
  LET k == FindRunRecordByRunID(handler[h].id) IN
  /\ handler[h].pc = "answered"
  /\ \/ /\ handler[h].op = "submit"
        /\ goes(h, "finishing")
     \/ /\ handler[h].op # "submit"
        /\ handler' = [handler EXCEPT ![h].pc = "routing", ![h].rec = k,
             ![h].row = IF k = None THEN NoRow ELSE record[k]]
  /\ UNCHANGED <<online, run, storeVars, abandoned, calls>>

\* applyPayloadToRunRecord: a run id is never replaced, a status always is.
applyPayloadToRunRecord(row, id, pl, report) ==
  [row EXCEPT !.run = IF @ = None THEN id ELSE @,
              !.status = pl.status, !.report = report]

\* finishRunRecord; a submission that has failed leaves no run id.
finishRunRecord(h) ==
  LET pl == handler[h].payload
      id == IF handler[h].to = None THEN None ELSE handler[h].id
      row == applyPayloadToRunRecord(handler[h].row, id, pl,
               IF handler[h].to = None THEN "unavailable"
               ELSE reportStatusForPayload(pl,
                      IF handler[h].op = "report" THEN "completed" ELSE "available")) IN
  /\ handler[h].pc = "finishing"
  /\ UpsertRunRecord(handler[h].rec, row)
  /\ handler' = [handler EXCEPT ![h] = [NoHandler EXCEPT
       !.pc = "auditing", !.rec = handler[h].rec, !.payload = pl]]
  /\ UNCHANGED <<online, run, audit, abandoned, calls>>

\* Mutant: any outcome that was recorded before will do.
recordAnyRunAuditOnce(h) ==
  LET k == handler[h].rec
      type == terminalAuditType(handler[h].payload) IN
  /\ handler[h].pc = "auditing"
  /\ IF \E t \in {"run_completed", "run_failed", "run_cancelled", "blocker"} : <<k, t>> \in audit
     THEN UNCHANGED audit
     ELSE RecordAudit(k, type)
  /\ answered(h)
  /\ UNCHANGED <<online, run, record, recent, abandoned, calls>>

\* recordTerminalRunAuditOnce for a report, and the outcome of the others.
recordTerminalRunAuditOnce(h) ==
  LET type == terminalAuditType(handler[h].payload) IN
  /\ handler[h].pc = "auditing"
  /\ RecordAudit(handler[h].rec, type)
  /\ answered(h)
  /\ UNCHANGED <<online, run, record, recent, abandoned, calls>>

\* syncedRunRecordFromPayload: a row with a machine and without a relay.
syncedRunRecordFromPayload(p, id) ==
  [run |-> id, status |-> run[p][id], report |-> "synced", relay |-> None, place |-> p]

\* handleSyncRuns: the owner of a machine publishes a run of it. The row is
\* found again by run and machine, without a relay.
handleSyncRuns(h) ==
  \E p \in Places, id \in RunIds :
    LET known == FindRunRecord(id, None, p) IN
    \E k \in IF known # None THEN {known} ELSE unusedRecords :
      /\ handler[h].pc = "idle"
      /\ calls < MaxCalls
      /\ calls' = calls + 1
      /\ run[p][id] # "none"
      /\ UpsertRunRecord(k, syncedRunRecordFromPayload(p, id))
      /\ audit' = audit \cup {<<k, "synced">>}
      /\ UNCHANGED <<online, run, handler, abandoned>>

\* The caller goes away: with its context every call and every statement the
\* handler still makes fails, and it ends without a trace.
callerLeaves(h) ==
  /\ handler[h].pc # "idle"
  /\ answered(h)
  /\ abandoned' = abandoned \cup ({handler[h].rec} \ {None})
  /\ UNCHANGED <<online, run, storeVars, calls>>

-----------------------------------------------------------------------------
(* The machines *)

\* A run goes on at its daemon: it stops or ends, or its gate is resolved.
daemonRuns(p, id) ==
  \E state \in Ends \cup {"running"} :
    /\ \/ run[p][id] = "running" /\ state # "running"
       \/ run[p][id] = "paused" /\ state \in {"running", "failed"}
    /\ run' = [run EXCEPT ![p][id] = state]
    /\ UNCHANGED <<online, storeVars, handler, abandoned, calls>>

\* A connector comes or goes.
placeChanges(p) ==
  /\ calls < MaxCalls
  /\ calls' = calls + 1
  /\ online' = IF p \in online THEN online \ {p} ELSE online \cup {p}
  /\ UNCHANGED <<run, storeVars, handler, abandoned>>

-----------------------------------------------------------------------------
Init ==
  /\ online = Places
  /\ run = [p \in Places |-> [id \in RunIds |-> "none"]]
  /\ record = [k \in Records |-> NoRow]
  /\ recent = <<>>
  /\ audit = {}
  /\ handler = [h \in Handlers |-> NoHandler]
  /\ abandoned = {}
  /\ calls = 0

\* What a handler does once it has begun.
Continue(h) ==
  \/ fetchRelayProject(h) \/ resolveProject(h) \/ applyRouteToRunRecord(h)
  \/ invalidRequest(h) \/ submitToRelay(h) \/ submitAnswers(h)
  \/ callRelay(h) \/ callRelayFails(h) \/ responsePayload(h)
  \/ finishRunRecord(h) \/ recordTerminalRunAuditOnce(h)

Next ==
  \/ \E h \in Handlers :
       \/ handleProjectRunCreate(h) \/ handleProjectRunReportGet(h)
       \/ handleProjectRunCancel(h) \/ handleProjectRunResume(h)
       \/ recordHumanInterruptResponse(h) \/ projectForwardTool(h)
       \/ handleSyncRuns(h) \/ callerLeaves(h) \/ Continue(h)
  \/ \E p \in Places : placeChanges(p)
  \/ \E p \in Places, id \in RunIds : daemonRuns(p, id)

Spec == Init /\ [][Next]_vars

-----------------------------------------------------------------------------
\* The machine a row names has the run the row names: a row follows neither a
\* request that was routed elsewhere nor the answer to one for another run
\* (refreshRunRecordFromLifecyclePayload, applyRouteToRunRecord).
RecordNamesItsRun ==
  \A k \in Records :
    record[k].run # None =>
      /\ record[k].place # None
      /\ run[record[k].place][record[k].run] # "none"

outcome(row) == terminalAuditType(payload(row.status, None))

\* Once nobody works on a row, the outcome it shows is in the audit, whatever
\* requests for the run have overlapped (finishRunRecord and the audit that
\* follows it, recordTerminalRunAuditOnce), unless a caller left.
OutcomeIsAudited ==
  \A k \in Records \ abandoned :
    (/\ record[k].report \notin {"none", "synced"}
     /\ outcome(record[k]) \in {"run_completed", "run_failed", "run_cancelled", "blocker"}
     /\ record[k].status # "submitted"
     /\ \A h \in Handlers : handler[h].rec # k)
    => <<k, outcome(record[k])>> \in audit

\* No submission is left submitted: on every path of handleProjectRunCreate
\* its row gets the state of a run or fails before the handler ends, unless
\* its caller left.
SubmissionSettles ==
  \A k \in Records \ abandoned :
    record[k].status = "submitted" => \E h \in Handlers : handler[h].rec = k

\* A request without a relay is not sent on while an enabled relay, which may
\* have the project as well, could not be asked (resolveProject).
UnreachableRelayIsReported ==
  \A h \in Handlers :
    handler[h].pc \in {"routing", "calling", "waiting", "answered"} => handler[h].skipped = {}
=============================================================================
