----------------------------- MODULE RunService -----------------------------
(***************************************************************************)
(* The daemon's execution core: RunService (internal/service/              *)
(* run_service.go), GateService, RecoveryService, the rows they keep in    *)
(* SQLite and the workspace lock file.                                     *)
(*                                                                         *)
(* A dispatch is one call of dispatchStepAsync: the goroutine that runs a  *)
(* step through its attempts.  It is also the identity of the entry that   *)
(* registerExecution puts into the map `executions', of the context it     *)
(* cancels and of the channel `done' it closes.  A client is one HTTP      *)
(* request handler (abort, retry, gate, recover, resume).  Both advance by *)
(* one store call or one critical section per step, so they interleave as  *)
(* the goroutines do.  A crash ends all of them; rows and files survive.   *)
(***************************************************************************)
EXTENDS StepLifecycle, Naturals, FiniteSets

CONSTANTS
  Runs, Steps,
  RunOf,           \* the run of each step (its phase's run_id)
  Dispatches,      \* bound on the calls of dispatchStepAsync
  Clients,         \* bound on the mutating API requests
  None,            \* nil
  NoOwner,         \* the content of a lock file before its owner is written
  MaxAttempts,     \* maxAttempts of runAttemptLoop
  Policy,          \* the policy the steps name
  AdapterResults,  \* the result states the adapters report
  Routable,        \* the steps whose adapter profile is registered
  Validated,       \* the steps with validation commands
  Ops,             \* the requests clients make
  Pacing,          \* what clients wait for before the next request
  MaxCrashes       \* bound on crashes

ASSUME RunServiceConstants ==
  /\ RunOf \in [Steps -> Runs]
  /\ Dispatches \cap Steps = {}
  /\ None \notin Runs \cup Steps \cup Dispatches \cup RunStates
  /\ NoOwner \notin Runs \cup {None}
  /\ MaxAttempts \in Nat \ {0}
  /\ MaxCrashes \in Nat
  /\ Policy \in Policies
  /\ AdapterResults \subseteq StepStates \ ActiveStates
  /\ Routable \subseteq Steps
  /\ Validated \subseteq Steps
  /\ Pacing \in {"none", "step", "goroutine"}

VARIABLES
  \* SQLite rows
  runState,    \* runs.state, "absent" without a row
  stepState,   \* steps.state, "absent" without a row
  attempt,     \* attempts.state of each attempt of a dispatch
  gate,        \* gates.state; a policy gate is named after its dispatch,
               \* a recovery gate after its step
  \* the workspace root
  lock,        \* content of .codencer.lock, None without the file
  \* the daemon's memory
  execution,   \* executions: run -> registered dispatch
  abortReq,    \* abortRequested of each entry
  ctxDone,     \* dispatchCtx of each dispatch is cancelled
  worker,      \* the dispatch goroutines
  client,      \* the request handlers
  starting,    \* runs whose StartRun has not returned
  up,          \* the process runs and has swept
  crashes

rows == <<runState, stepState, attempt, gate>>
memory == <<execution, abortReq, ctxDone, starting, up, crashes>>
vars == <<rows, lock, memory, worker, client>>

GateIDs == Dispatches \cup Steps

\* An attempt row stores `pending' until it has a result; `started' is a
\* pending row whose adapter has run, so that its result.json may exist.
RowStates == {"absent", "pending", "started"} \cup StepStates

WorkerPC == {"unused", "register", "start", "loop", "setup", "opened",
             "locked", "polling", "collect", "validate", "validating", "release",
             "attempted", "finalize", "gated", "reconcile", "reconciling",
             "closing", "clearing", "done", "dead"}

ClientPC == {"idle", "orphans", "signal", "waiting", "retrying", "resolving",
             "resolved", "salvaging", "reconcile", "reconciling", "done",
             "aborted", "dead"}

Goroutines ==
  [pc: WorkerPC, step: Steps \cup {None}, num: 1..MaxAttempts,
   res: StepStates \cup {"none"}, eval: SUBSET {"fail", "gate"},
   seen: RunStates \cup {None}]

Handlers ==
  [pc: ClientPC, run: Runs \cup {None}, disp: Dispatches \cup {None},
   gate: GateIDs \cup {None}, verdict: {"none", "approved", "rejected"},
   marks: SUBSET Steps, seen: RunStates \cup {None}]

idleWorker == [pc |-> "unused", step |-> None, num |-> 1, res |-> "none",
               eval |-> {}, seen |-> None]

idleClient == [pc |-> "idle", run |-> None, disp |-> None, gate |-> None,
               verdict |-> "none", marks |-> {}, seen |-> None]

TypeOK ==
  /\ runState \in [Runs -> RunStates \cup {"absent"}]
  /\ stepState \in [Steps -> StepStates \cup {"absent"}]
  /\ attempt \in [Dispatches -> [1..MaxAttempts -> RowStates]]
  /\ gate \in [GateIDs -> {"absent", "pending", "approved", "rejected"}]
  /\ lock \in Runs \cup {None, NoOwner}
  /\ execution \in [Runs -> Dispatches \cup {None}]
  /\ abortReq \in [Dispatches -> BOOLEAN]
  /\ ctxDone \in [Dispatches -> BOOLEAN]
  /\ worker \in [Dispatches -> Goroutines]
  /\ client \in [Clients -> Handlers]
  /\ starting \subseteq Runs
  /\ up \in BOOLEAN
  /\ crashes \in 0..MaxCrashes

Init ==
  /\ runState = [r \in Runs |-> "absent"]
  /\ stepState = [s \in Steps |-> "absent"]
  /\ attempt = [d \in Dispatches |-> [n \in 1..MaxAttempts |-> "absent"]]
  /\ gate = [g \in GateIDs |-> "absent"]
  /\ lock = None
  /\ execution = [r \in Runs |-> None]
  /\ abortReq = [d \in Dispatches |-> FALSE]
  /\ ctxDone = [d \in Dispatches |-> FALSE]
  /\ worker = [d \in Dispatches |-> idleWorker]
  /\ client = [c \in Clients |-> idleClient]
  /\ starting = {}
  /\ up = TRUE
  /\ crashes = 0

-----------------------------------------------------------------------------
StepsOf(r) == {s \in Steps : RunOf[s] = r /\ stepState[s] # "absent"}

derivedState(r) == deriveRunState({stepState[s] : s \in StepsOf(r)})

RunOfDispatch(d) == RunOf[worker[d].step]

isAbortRequested(r) == execution[r] # None /\ abortReq[execution[r]]

GateStep(g) == IF g \in Steps THEN g ELSE worker[g].step

findPendingGate(s) == {g \in GateIDs : gate[g] = "pending" /\ GateStep(g) = s}

\* The rows GetLatestByStep may return: the highest attempt number.  Each
\* dispatch numbers its attempts from 1, so that there can be ties, which
\* the query leaves open.
latestAttempts(s) ==
  LET stored == {a \in Dispatches \X (1..MaxAttempts) :
                   worker[a[1]].step = s /\ attempt[a[1]][a[2]] # "absent"}
  IN {a \in stored : \A b \in stored : b[2] <= a[2]}

inFlight(d) == worker[d].pc \notin {"unused", "done", "dead"}

handling(c) == client[c].pc \notin {"idle", "done", "aborted", "dead"}

\* How clients pace themselves.  A "step" client polls a run's steps and waits
\* for them to settle; a "goroutine" client is slower than the goroutine and
\* the handlers it left behind for the run; "none" does not wait.
returned(r) ==
  Pacing = "goroutine" =>
    /\ \A d \in Dispatches : inFlight(d) => RunOfDispatch(d) # r
    /\ \A c \in Clients : handling(c) => client[c].run # r

settled(r) ==
  Pacing # "none" => \A s \in StepsOf(r) :
                       stepState[s] \notin ActiveStates \cup {"needs_approval"}

-----------------------------------------------------------------------------
(* StartRun and the synchronous part of dispatchStepAsync.                 *)

startRunCreate(r) ==
  /\ up /\ runState[r] = "absent"
  /\ runState' = [runState EXCEPT ![r] = "created"]
  /\ starting' = starting \cup {r}
  /\ UNCHANGED <<stepState, attempt, gate, lock, execution, abortReq, ctxDone,
                 up, crashes, worker, client>>

startRunActivate(r) ==
  /\ r \in starting
  /\ runState' = [runState EXCEPT ![r] =
                    IF @ = "created" THEN "running" ELSE @]
  /\ starting' = starting \ {r}
  /\ UNCHANGED <<stepState, attempt, gate, lock, execution, abortReq, ctxDone,
                 up, crashes, worker, client>>

\* The row is written before the execution is registered.
initializeStep(d, s) ==
  /\ worker[d].pc = "unused"
  /\ stepState' = [stepState EXCEPT ![s] = "dispatching"]
  /\ worker' = [worker EXCEPT ![d] =
                  [idleWorker EXCEPT !.pc = "register", !.step = s]]

DispatchStepAsync(d, s) ==
  /\ up /\ stepState[s] = "absent"
  /\ runState[RunOf[s]] # "absent" /\ RunOf[s] \notin starting
  /\ settled(RunOf[s]) /\ returned(RunOf[s])
  /\ initializeStep(d, s)
  /\ UNCHANGED <<runState, attempt, gate, lock, memory, client>>

\* An entry of the same run is replaced.
registerExecution(d) ==
  /\ worker[d].pc = "register"
  /\ execution' = [execution EXCEPT ![RunOfDispatch(d)] = d]
  /\ worker' = [worker EXCEPT ![d].pc = "start"]
  /\ UNCHANGED <<rows, lock, abortReq, ctxDone, starting, up, crashes, client>>

-----------------------------------------------------------------------------
(* dispatchPreparedStep up to the attempt loop.                            *)

aborting(d) == ctxDone[d] \/ isAbortRequested(RunOfDispatch(d))

finalizeEarlyAbort(d) ==
  /\ worker[d].pc = "start" /\ aborting(d)
  /\ worker' = [worker EXCEPT ![d].pc = "finalize"]
  /\ UNCHANGED <<rows, lock, memory, client>>

\* failStep: the goroutine returns without reconciling the run.
noViableAdapter(d) ==
  /\ worker[d].pc = "start" /\ ~ aborting(d)
  /\ worker[d].step \notin Routable
  /\ stepState' = [stepState EXCEPT ![worker[d].step] = "failed_bridge"]
  /\ worker' = [worker EXCEPT ![d].pc = "closing"]
  /\ UNCHANGED <<runState, attempt, gate, lock, memory, client>>

beginAttempts(d) ==
  /\ worker[d].pc = "start" /\ ~ aborting(d)
  /\ worker[d].step \in Routable
  /\ stepState' = [stepState EXCEPT ![worker[d].step] = "running"]
  /\ worker' = [worker EXCEPT ![d].pc = "loop"]
  /\ UNCHANGED <<runState, attempt, gate, lock, memory, client>>

\* The head of runAttemptLoop.  With the context cancelled and no flag to be
\* seen createAttempt fails and the goroutine returns, finalizing nothing.
createAttempt(d) ==
  /\ worker[d].pc = "loop"
  /\ IF isAbortRequested(RunOfDispatch(d))
       THEN worker' = [worker EXCEPT ![d].pc = "finalize"] /\ UNCHANGED attempt
     ELSE IF ctxDone[d]
       THEN worker' = [worker EXCEPT ![d].pc = "closing"] /\ UNCHANGED attempt
     ELSE /\ worker' = [worker EXCEPT ![d].pc = "setup"]
          /\ attempt' = [attempt EXCEPT ![d][worker[d].num] = "pending"]
  /\ UNCHANGED <<runState, stepState, gate, lock, memory, client>>

-----------------------------------------------------------------------------
(* executeAttempt.                                                         *)

\* attempt.Result := r.  A write through the dispatch context is lost once
\* the context is cancelled; `durable' writes use the background context.
setResult(d, r, durable, pc) ==
  /\ worker' = [worker EXCEPT ![d] =
        [@ EXCEPT !.res = r, !.eval = {}, !.pc = pc]]
  /\ attempt' = IF durable \/ ~ ctxDone[d]
                  THEN [attempt EXCEPT ![d][worker[d].num] = r]
                  ELSE attempt

updateStep(d, s) ==
  stepState' = IF ctxDone[d] THEN stepState
               ELSE [stepState EXCEPT ![worker[d].step] = s]

artifactRootFails(d) ==
  /\ worker[d].pc = "setup"
  /\ setResult(d, "failed_bridge", FALSE, "attempted")
  /\ UNCHANGED <<runState, stepState, gate, lock, memory, client>>

lockConflict(d) ==
  /\ worker[d].pc = "setup" /\ lock # None
  /\ setResult(d, "failed_retryable", FALSE, "attempted")
  /\ UNCHANGED <<runState, stepState, gate, lock, memory, client>>

\* Mutant: the lock file is opened without O_EXCL.
openLockShared(d) ==
  /\ worker[d].pc = "setup"
  /\ lock' = NoOwner
  /\ worker' = [worker EXCEPT ![d].pc = "opened"]
  /\ UNCHANGED <<rows, memory, client>>

\* AcquireLock: the exclusive create, then the owner's name.
openLock(d) ==
  /\ worker[d].pc = "setup" /\ lock = None
  /\ lock' = NoOwner
  /\ worker' = [worker EXCEPT ![d].pc = "opened"]
  /\ UNCHANGED <<rows, memory, client>>

writeOwner(d) ==
  /\ worker[d].pc = "opened"
  /\ lock' = IF lock = None THEN None ELSE RunOfDispatch(d)
  /\ worker' = [worker EXCEPT ![d].pc = "locked"]
  /\ UNCHANGED <<rows, memory, client>>

\* Worktree, provisioning or adapter start fail.
environmentFails(d) ==
  /\ worker[d].pc = "locked"
  /\ \E r \in {"failed_bridge", "failed_retryable"} :
       setResult(d, r, FALSE, "release")
  /\ UNCHANGED <<runState, stepState, gate, lock, memory, client>>

adapterStart(d) ==
  /\ worker[d].pc = "locked"
  /\ worker' = [worker EXCEPT ![d].pc = "polling"]
  /\ attempt' = [attempt EXCEPT ![d][worker[d].num] = "started"]
  /\ UNCHANGED <<runState, stepState, gate, lock, memory, client>>

\* pollAdapter returns false: cancelled, timed out or a poll error.
pollStops(d) ==
  /\ worker[d].pc = "polling"
  /\ \E r \in {"timeout", "failed_adapter"}
               \cup (IF ctxDone[d] THEN {"cancelled", "needs_manual_attention"}
                                   ELSE {}) :
       setResult(d, r, TRUE, "release")
  /\ UNCHANGED <<runState, stepState, gate, lock, memory, client>>

\* The adapter is seen to have finished.
pollFinishes(d) ==
  /\ worker[d].pc = "polling"
  /\ updateStep(d, "collecting_artifacts")
  /\ worker' = [worker EXCEPT ![d].pc = "collect"]
  /\ UNCHANGED <<runState, attempt, gate, lock, memory, client>>

\* Mutant: an early return ahead of the deferred release.
collectFailsKeepingLock(d) ==
  /\ worker[d].pc = "collect"
  /\ setResult(d, "failed_bridge", FALSE, "attempted")
  /\ UNCHANGED <<runState, stepState, gate, lock, memory, client>>

collectFails(d) ==
  /\ worker[d].pc = "collect"
  /\ setResult(d, "failed_bridge", FALSE, "release")
  /\ UNCHANGED <<runState, stepState, gate, lock, memory, client>>

\* NormalizeResult: the adapter's result, or a bridge failure; either is
\* stored before the validations and the policy have been looked at.
normalizeResult(d) ==
  /\ worker[d].pc = "collect"
  /\ \E r \in AdapterResults \cup {"failed_bridge"} :
       setResult(d, r, FALSE, "validate")
  /\ UNCHANGED <<runState, stepState, gate, lock, memory, client>>

startValidations(d) ==
  /\ worker[d].pc = "validate" /\ worker[d].step \in Validated
  /\ updateStep(d, "validating")
  /\ worker' = [worker EXCEPT ![d].pc = "validating"]
  /\ UNCHANGED <<runState, attempt, gate, lock, memory, client>>

\* The validations' outcome, then the policy on the changed files.
evaluatePolicy(d) ==
  /\ \/ worker[d].pc = "validate" /\ worker[d].step \notin Validated
     \/ worker[d].pc = "validating"
  /\ \E hit \in BOOLEAN,
        r \in {worker[d].res} \cup (IF worker[d].step \in Validated
                                    THEN {"failed_validation"} ELSE {}) :
       /\ worker' = [worker EXCEPT ![d] =
             [@ EXCEPT !.res = r, !.pc = "release",
                       !.eval = Evaluate(Policy, r, hit)]]
       /\ attempt' = IF worker[d].step \in Validated /\ ~ ctxDone[d]
                       THEN [attempt EXCEPT ![d][worker[d].num] = r]
                       ELSE attempt
  /\ UNCHANGED <<runState, stepState, gate, lock, memory, client>>

\* The deferred calls: the worktree and whatever lock file there is go.
releaseLock(d) ==
  /\ worker[d].pc = "release"
  /\ lock' = None
  /\ worker' = [worker EXCEPT ![d].pc = "attempted"]
  /\ UNCHANGED <<rows, memory, client>>

-----------------------------------------------------------------------------
(* The tail of runAttemptLoop, finalizeStep, reconcileRunState and the     *)
(* deferred close(done) and clearExecution.                                *)

afterAttempt(d) ==
  /\ worker[d].pc = "attempted"
  /\ LET again == /\ ~ isAbortRequested(RunOfDispatch(d))
                  /\ "fail" \notin worker[d].eval
                  /\ shouldRetry(Policy, worker[d].res, worker[d].num,
                                 MaxAttempts)
     IN worker' = IF again
          THEN [worker EXCEPT ![d] =
                 [@ EXCEPT !.num = worker[d].num + 1, !.pc = "loop"]]
          ELSE [worker EXCEPT ![d].pc = "finalize"]
  /\ UNCHANGED <<rows, lock, memory, client>>

finalizing(d) == finalStepState(isAbortRequested(RunOfDispatch(d)),
                                worker[d].res, worker[d].eval)

gateDue(d) == /\ ~ isAbortRequested(RunOfDispatch(d))
              /\ worker[d].res # "needs_manual_attention"
              /\ "gate" \in worker[d].eval

finalizeStep(d) ==
  /\ worker[d].pc = "finalize"
  /\ ~ gateDue(d)
  /\ stepState' = [stepState EXCEPT ![worker[d].step] = finalizing(d)]
  /\ worker' = [worker EXCEPT ![d].pc = "reconcile"]
  /\ UNCHANGED <<runState, attempt, gate, lock, memory, client>>

\* Mutant: the step is parked although no gate could be inserted.
createGateUnchecked(d) ==
  /\ worker[d].pc = "finalize"
  /\ gateDue(d)
  /\ gate' \in {gate, [gate EXCEPT ![d] = "pending"]}
  /\ worker' = [worker EXCEPT ![d].pc = "gated"]
  /\ UNCHANGED <<runState, stepState, attempt, lock, memory, client>>

\* The gate is inserted before the step is moved to needs_approval.
createGate(d) ==
  /\ worker[d].pc = "finalize"
  /\ gateDue(d)
  /\ \/ /\ gate' = [gate EXCEPT ![d] = "pending"]
        /\ worker' = [worker EXCEPT ![d].pc = "gated"]
        /\ UNCHANGED stepState
     \/ /\ stepState' = [stepState EXCEPT ![worker[d].step] = "failed_bridge"]
        /\ worker' = [worker EXCEPT ![d].pc = "reconcile"]
        /\ UNCHANGED gate
  /\ UNCHANGED <<runState, attempt, lock, memory, client>>

parkStep(d) ==
  /\ worker[d].pc = "gated"
  /\ stepState' = [stepState EXCEPT ![worker[d].step] = "needs_approval"]
  /\ worker' = [worker EXCEPT ![d].pc = "reconcile"]
  /\ UNCHANGED <<runState, attempt, gate, lock, memory, client>>

reconcileRead(d) ==
  /\ worker[d].pc = "reconcile"
  /\ worker' = [worker EXCEPT ![d] =
        [@ EXCEPT !.pc = "reconciling",
                  !.seen = derivedState(RunOfDispatch(d))]]
  /\ UNCHANGED <<rows, lock, memory, client>>

reconcileWrite(d) ==
  /\ worker[d].pc = "reconciling"
  /\ runState' = [runState EXCEPT ![RunOfDispatch(d)] = worker[d].seen]
  /\ worker' = [worker EXCEPT ![d] =
        [@ EXCEPT !.pc = "closing", !.seen = None]]
  /\ UNCHANGED <<stepState, attempt, gate, lock, memory, client>>

closeDone(d) ==
  /\ worker[d].pc = "closing"
  /\ worker' = [worker EXCEPT ![d].pc = "clearing"]
  /\ UNCHANGED <<rows, lock, memory, client>>

\* Whichever entry the run has is deleted.
clearExecution(d) ==
  /\ worker[d].pc = "clearing"
  /\ execution' = [execution EXCEPT ![RunOfDispatch(d)] = None]
  /\ worker' = [worker EXCEPT ![d].pc = "done"]
  /\ UNCHANGED <<rows, lock, abortReq, ctxDone, starting, up, crashes, client>>

-----------------------------------------------------------------------------
(* AbortRun.  Client c has read the run row and looked up the execution.   *)

AbortRun(c, r) ==
  /\ up /\ client[c].pc = "idle" /\ "abort" \in Ops
  /\ runState[r] # "absent" /\ ~ RunTerminal(runState[r])
  /\ client' = [client EXCEPT ![c] =
       IF execution[r] # None
         THEN [idleClient EXCEPT !.pc = "signal", !.run = r,
                                 !.disp = execution[r]]
         ELSE [idleClient EXCEPT !.pc = "orphans", !.run = r, !.marks =
                {s \in StepsOf(r) : /\ ~ StepTerminal(stepState[s])
                                    /\ stepState[s] # "needs_approval"}]]
  /\ UNCHANGED <<rows, lock, memory, worker>>

\* No registered execution: the listed steps are handed to the operator.
abortOrphans(c) ==
  /\ client[c].pc = "orphans"
  /\ stepState' = [s \in Steps |-> IF s \in client[c].marks
                      THEN "needs_manual_attention" ELSE stepState[s]]
  /\ client' = [client EXCEPT ![c] =
        [@ EXCEPT !.pc = "reconcile", !.marks = {}]]
  /\ UNCHANGED <<runState, attempt, gate, lock, memory, worker>>

\* requestAbort flags the entry the run has now; cancel ends the context of
\* the entry that was looked up before.
abortSignal(c) ==
  /\ client[c].pc = "signal"
  /\ abortReq' = IF execution[client[c].run] = None THEN abortReq
                 ELSE [abortReq EXCEPT ![execution[client[c].run]] = TRUE]
  /\ ctxDone' = [ctxDone EXCEPT ![client[c].disp] = TRUE]
  /\ client' = [client EXCEPT ![c].pc = "waiting"]
  /\ UNCHANGED <<rows, lock, execution, starting, up, crashes, worker>>

\* Mutant: the outcome is read without waiting for done.
abortOutcomeEarly(c) ==
  /\ client[c].pc = "waiting"
  /\ client' = [client EXCEPT ![c].pc =
       IF stepState[worker[client[c].disp].step] = "cancelled"
         THEN "aborted" ELSE "done"]
  /\ UNCHANGED <<rows, lock, memory, worker>>

\* abortOutcome after done is closed, or the wait times out.
abortOutcome(c) ==
  /\ client[c].pc = "waiting"
  /\ LET d == client[c].disp IN
     \/ /\ worker[d].pc \in {"clearing", "done"}
        /\ client' = [client EXCEPT ![c].pc =
             IF stepState[worker[d].step] = "cancelled"
               THEN "aborted" ELSE "done"]
     \/ client' = [client EXCEPT ![c].pc = "done"]
  /\ UNCHANGED <<rows, lock, memory, worker>>

-----------------------------------------------------------------------------
(* RetryStep: any existing step, whatever its state, then a reconcile that *)
(* races with the goroutine just started.                                  *)

RetryStep(c, d, s) ==
  /\ up /\ client[c].pc = "idle" /\ "retry" \in Ops
  /\ stepState[s] # "absent"
  /\ settled(RunOf[s]) /\ returned(RunOf[s])
  /\ initializeStep(d, s)
  /\ client' = [client EXCEPT ![c] = [idleClient EXCEPT
                  !.pc = "retrying", !.run = RunOf[s], !.disp = d]]
  /\ UNCHANGED <<runState, attempt, gate, lock, memory>>

retryDispatched(c) ==
  /\ client[c].pc = "retrying" /\ worker[client[c].disp].pc # "register"
  /\ client' = [client EXCEPT ![c].pc = "reconcile"]
  /\ UNCHANGED <<rows, lock, memory, worker>>

clientReconcileRead(c) ==
  /\ client[c].pc = "reconcile"
  /\ client' = [client EXCEPT ![c] =
        [@ EXCEPT !.pc = "reconciling", !.seen = derivedState(client[c].run)]]
  /\ UNCHANGED <<rows, lock, memory, worker>>

\* Mutant: the derived state is not stored.
clientReconcileUnsaved(c) ==
  /\ client[c].pc = "reconciling"
  /\ client' = [client EXCEPT ![c] = [@ EXCEPT !.pc = "done", !.seen = None]]
  /\ UNCHANGED <<rows, lock, memory, worker>>

clientReconcileWrite(c) ==
  /\ client[c].pc = "reconciling"
  /\ runState' = [runState EXCEPT ![client[c].run] = client[c].seen]
  /\ client' = [client EXCEPT ![c] = [@ EXCEPT !.pc = "done", !.seen = None]]
  /\ UNCHANGED <<stepState, attempt, gate, lock, memory, worker>>

-----------------------------------------------------------------------------
(* GateService.resolve, from the read of a pending gate on.                *)

resolveGate(c, g, verdict) ==
  /\ up /\ client[c].pc = "idle" /\ "gate" \in Ops
  /\ gate[g] = "pending" /\ returned(RunOf[GateStep(g)])
  /\ client' = [client EXCEPT ![c] = [idleClient EXCEPT
                  !.pc = "resolving", !.run = RunOf[GateStep(g)],
                  !.gate = g, !.verdict = verdict]]
  /\ UNCHANGED <<rows, lock, memory, worker>>

\* Mutant: the verdict is not stored.
writeVerdictUnsaved(c) ==
  /\ client[c].pc = "resolving"
  /\ client' = [client EXCEPT ![c].pc = "resolved"]
  /\ UNCHANGED <<rows, lock, memory, worker>>

\* gatesRepo.Resolve: an update by id, whatever state the gate is in.
writeVerdict(c) ==
  /\ client[c].pc = "resolving"
  /\ gate' = [gate EXCEPT ![client[c].gate] = client[c].verdict]
  /\ client' = [client EXCEPT ![c].pc = "resolved"]
  /\ UNCHANGED <<runState, stepState, attempt, lock, memory, worker>>

\* Approval restores the result stored by the latest attempt.
restoreStates(s) ==
  LET restored(a) == LET row == attempt[a[1]][a[2]] IN
        IF row \in {"pending", "started"} THEN "needs_manual_attention"
        ELSE row
  IN IF latestAttempts(s) = {} THEN {"needs_manual_attention"}
     ELSE {restored(a) : a \in latestAttempts(s)}

restoreStep(c) ==
  /\ client[c].pc = "resolved"
  /\ LET s == GateStep(client[c].gate) IN
     \E v \in IF client[c].verdict = "approved" THEN restoreStates(s)
             ELSE {"cancelled"} :
       stepState' = [stepState EXCEPT ![s] = v]
  /\ client' = [client EXCEPT ![c].pc = "reconcile"]
  /\ UNCHANGED <<runState, attempt, gate, lock, memory, worker>>

-----------------------------------------------------------------------------
(* RecoveryService: RecoverRun and ResumeRun on the live daemon, the crash *)
(* and the sweep of the next start.                                        *)

\* Mutant: the pending gates are not consulted.
salvageStatesIgnoringGates(s) ==
  IF latestAttempts(s) = {} THEN {"needs_manual_attention"}
  ELSE {salvagedState(attempt[a[1]][a[2]], "none") : a \in latestAttempts(s)}

\* What reconcileRunSteps may make of step s.
salvageStates(s) ==
  IF findPendingGate(s) # {} THEN {"needs_approval"}
  ELSE IF latestAttempts(s) = {} THEN {"needs_manual_attention"}
  ELSE UNION {LET row == attempt[a[1]][a[2]] IN
              {salvagedState(row, e) :
                 e \in {"none"} \cup
                       IF row \in {"started", "needs_manual_attention"}
                         THEN AdapterResults ELSE {}} : a \in latestAttempts(s)}

\* Mutant: a step that was only being dispatched is taken for not started.
unsettledOnceRunning(s) ==
  /\ ~ StepTerminal(stepState[s])
  /\ stepState[s] \notin {"needs_approval", "dispatching"}

unsettled(s) == ~ StepTerminal(stepState[s]) /\ stepState[s] # "needs_approval"

\* The steps after reconcileRunSteps on the runs R, and the recovery gates it
\* adds; an insert under the id of an older recovery gate fails.
salvage(R, steps, gates) ==
  LET marks == {s \in UNION {StepsOf(r) : r \in R} : unsettled(s)} IN
  \E f \in [marks -> StepStates] :
    /\ \A s \in marks : f[s] \in salvageStates(s)
    /\ steps = [s \in Steps |-> IF s \in marks THEN f[s] ELSE stepState[s]]
    /\ gates = [g \in GateIDs |->
         IF /\ g \in marks /\ f[g] = "needs_approval"
            /\ findPendingGate(g) = {} /\ gate[g] = "absent"
         THEN "pending" ELSE gate[g]]

RecoverRun(c, r) ==
  /\ up /\ client[c].pc = "idle" /\ "recover" \in Ops
  /\ runState[r] # "absent" /\ ~ RunTerminal(runState[r])
  /\ client' = [client EXCEPT ![c] =
       IF \E s \in StepsOf(r) : stepState[s] \in ActiveStates
         THEN [idleClient EXCEPT !.pc = "salvaging", !.run = r]
         ELSE [idleClient EXCEPT !.pc = "reconciling", !.run = r,
                                 !.seen = derivedState(r)]]
  /\ UNCHANGED <<rows, lock, memory, worker>>

recoverSteps(c) ==
  /\ client[c].pc = "salvaging"
  /\ salvage({client[c].run}, stepState', gate')
  /\ client' = [client EXCEPT ![c].pc = "reconcile"]
  /\ UNCHANGED <<runState, attempt, lock, memory, worker>>

ResumeRun(c, r) ==
  /\ up /\ client[c].pc = "idle" /\ "resume" \in Ops
  /\ runState[r] \in {"paused_for_gate", "created"}
  /\ lock \in {None, NoOwner, r}
  /\ runState' = [runState EXCEPT ![r] = "running"]
  /\ client' = [client EXCEPT ![c].pc = "done"]
  /\ UNCHANGED <<stepState, attempt, gate, lock, memory, worker>>

\* The caller of a gate or recovery request goes away: its context, which the
\* store calls use, ends and the handler returns between two of them.
disconnect(c) ==
  /\ "disconnect" \in Ops
  /\ client[c].pc \in {"resolving", "resolved", "salvaging", "orphans",
                       "reconcile", "reconciling"}
  /\ client' = [client EXCEPT ![c] = [idleClient EXCEPT !.pc = "done"]]
  /\ UNCHANGED <<rows, lock, memory, worker>>

Crash ==
  /\ up /\ crashes < MaxCrashes
  /\ up' = FALSE /\ crashes' = crashes + 1
  /\ starting' = {}
  /\ execution' = [r \in Runs |-> None]
  /\ worker' = [d \in Dispatches |->
       IF worker[d].pc \in {"unused", "done"} THEN worker[d]
       ELSE [worker[d] EXCEPT !.pc = "dead", !.seen = None]]
  /\ client' = [c \in Clients |->
       IF client[c].pc \in {"idle", "done", "aborted"} THEN client[c]
       ELSE [idleClient EXCEPT !.pc = "dead"]]
  /\ UNCHANGED <<rows, lock, abortReq, ctxDone>>

\* Mutant: the lock is inspected before the runs are reconciled.
sweepLockFirst ==
  /\ ~ up
  /\ LET stale == {r \in Runs : runState[r] = "running"} IN
     /\ salvage(stale, stepState', gate')
     /\ runState' = [r \in Runs |-> IF r \in stale
          THEN deriveRunState({stepState'[s] : s \in StepsOf(r)})
          ELSE runState[r]]
  /\ lock' = IF lock \in Runs /\ RunTerminal(runState[lock]) THEN None ELSE lock
  /\ up' = TRUE
  /\ UNCHANGED <<attempt, execution, abortReq, ctxDone, starting, crashes,
                 worker, client>>

\* Bootstrap: only runs stored as running are reconciled; the lock goes when
\* its owner is then terminal.
SweepStaleRuns ==
  /\ ~ up
  /\ LET stale == {r \in Runs : runState[r] = "running"} IN
     /\ salvage(stale, stepState', gate')
     /\ runState' = [r \in Runs |-> IF r \in stale
          THEN deriveRunState({stepState'[s] : s \in StepsOf(r)})
          ELSE runState[r]]
  /\ lock' = IF lock \in Runs /\ RunTerminal(runState'[lock]) THEN None ELSE lock
  /\ up' = TRUE
  /\ UNCHANGED <<attempt, execution, abortReq, ctxDone, starting, crashes,
                 worker, client>>

-----------------------------------------------------------------------------
workerStep(d) ==
  \/ registerExecution(d) \/ finalizeEarlyAbort(d) \/ noViableAdapter(d)
  \/ beginAttempts(d) \/ createAttempt(d) \/ artifactRootFails(d)
  \/ lockConflict(d) \/ openLock(d) \/ writeOwner(d)
  \/ environmentFails(d)
  \/ adapterStart(d) \/ pollStops(d) \/ pollFinishes(d) \/ collectFails(d)
  \/ normalizeResult(d) \/ startValidations(d) \/ evaluatePolicy(d)
  \/ releaseLock(d) \/ afterAttempt(d) \/ finalizeStep(d) \/ createGate(d)
  \/ parkStep(d) \/ reconcileRead(d) \/ reconcileWrite(d) \/ closeDone(d)
  \/ clearExecution(d)

handlerStep(c) ==
  \/ abortOrphans(c) \/ abortSignal(c) \/ abortOutcome(c)
  \/ retryDispatched(c) \/ clientReconcileRead(c) \/ clientReconcileWrite(c)
  \/ writeVerdict(c) \/ restoreStep(c) \/ recoverSteps(c)

request(c) ==
  \/ \E r \in Runs : AbortRun(c, r) \/ RecoverRun(c, r) \/ ResumeRun(c, r)
  \/ \E d \in Dispatches, s \in Steps : RetryStep(c, d, s)
  \/ \E g \in GateIDs, v \in {"approved", "rejected"} : resolveGate(c, g, v)
  \/ disconnect(c)

Next ==
  \/ \E r \in Runs : startRunCreate(r) \/ startRunActivate(r)
  \/ \E d \in Dispatches, s \in Steps : DispatchStepAsync(d, s)
  \/ \E d \in Dispatches : workerStep(d)
  \/ \E c \in Clients : handlerStep(c) \/ request(c)
  \/ Crash
  \/ SweepStaleRuns

Spec == Init /\ [][Next]_vars

\* The goroutines and handlers are scheduled, and a step that polls has a
\* timeout; the requests, the crash and the end of a caller are not forced.
Fairness ==
  /\ \A r \in Runs : WF_vars(startRunActivate(r))
  /\ \A d \in Dispatches : WF_vars(workerStep(d))
  /\ \A c \in Clients : WF_vars(handlerStep(c))
  /\ WF_vars(SweepStaleRuns)

FairSpec == Spec /\ Fairness

-----------------------------------------------------------------------------
(* Properties.                                                             *)

holding(d) == worker[d].pc \in {"opened", "locked", "polling", "collect",
                               "validate", "validating", "release"}

\* At most one attempt works under the workspace root, and the lock file names
\* its run: AcquireLock and the deferred Release of executeAttempt exclude the
\* goroutines of all runs from each other, whatever clients do.
WorkspaceExclusive ==
  /\ \A d \in Dispatches : holding(d) =>
       lock = IF worker[d].pc = "opened" THEN NoOwner ELSE RunOfDispatch(d)
  /\ \A d, e \in Dispatches : holding(d) /\ holding(e) => d = e

\* No path through executeAttempt leaks the lock: without a crash a lock file
\* belongs to an attempt that still runs.
LockReleased == crashes = 0 /\ lock # None => \E d \in Dispatches : holding(d)

\* A step waits for approval exactly while a gate of it is pending: finalizeStep
\* (gate, then step), resolve (gate, then step) and the sweep keep the pair.
GatePairing ==
  \A s \in Steps :
    /\ up /\ stepState[s] = "needs_approval" =>
         \/ findPendingGate(s) # {}
         \/ \E c \in Clients : client[c].pc = "resolved"
                               /\ GateStep(client[c].gate) = s
    /\ up /\ findPendingGate(s) # {} =>
         \/ stepState[s] = "needs_approval"
         \/ \E d \in Dispatches : worker[d].step = s /\ worker[d].pc = "gated"

\* A result that hit the policy's gate succeeds only after a verdict.
GateHonoured ==
  \A d \in Dispatches :
    /\ "gate" \in worker[d].eval
    /\ worker[d].pc \notin {"release", "attempted", "finalize"}
    /\ stepState[worker[d].step] \in SuccessStates
    => gate[d] \in {"approved", "rejected"}

\* When the goroutines and handlers have returned, no step is left in an
\* active state, and the run row is what deriveRunState says of the step rows.
RunAgrees ==
  /\ up /\ starting = {}
  /\ \A d \in Dispatches : ~ inFlight(d)
  /\ \A c \in Clients : ~ handling(c)
  => \A r \in Runs : StepsOf(r) # {} =>
       /\ runState[r] = derivedState(r)
       /\ \A s \in StepsOf(r) : stepState[s] \notin ActiveStates

\* A step is reported as completed only if some attempt of it was made: an
\* abort that comes before the first attempt never ends in success.
CompletedWasAttempted ==
  \A s \in Steps : stepState[s] \in SuccessStates =>
    \E d \in Dispatches, n \in 1..MaxAttempts :
      worker[d].step = s /\ attempt[d][n] # "absent"

\* Once a step is completed and its goroutine has returned, the attempt that
\* GetLatestByStep serves to the planner can be one that reports a success.
CompletedHasEvidence ==
  \A s \in Steps :
    /\ stepState[s] \in SuccessStates
    /\ \A d \in Dispatches : worker[d].step = s => ~ inFlight(d)
    => \E a \in latestAttempts(s) : attempt[a[1]][a[2]] \in SuccessStates

\* A confirmed abort is final: after AbortRun returned success the step stays
\* cancelled and its goroutine is past all of its work. Nor is any step stored
\* as cancelled while an attempt of it still holds the workspace.
AbortIsFinal ==
  /\ \A c \in Clients : client[c].pc = "aborted" =>
       LET d == client[c].disp IN
       /\ stepState[worker[d].step] = "cancelled"
       /\ worker[d].pc \in {"clearing", "done"}
  /\ \A d \in Dispatches : holding(d) => stepState[worker[d].step] # "cancelled"

\* The sweep leaves no named lock behind: it looks at the lock after the runs
\* have been reconciled.  Two owners keep theirs: one that waits at a gate, and
\* one that a crash inside StartRun left created, which no sweep looks at.
SweepFreesLock ==
  [][~ up /\ up' /\ lock' \in Runs =>
       \/ runState'[lock'] = "paused_for_gate"
       \/ runState[lock'] = "created"]_vars

\* The sweep of a restart leaves none of the runs it finds running as they
\* were: their steps are no longer active, and neither is a run that has steps.
SweepSettlesRunning ==
  [][~ up /\ up' => \A r \in Runs : runState[r] = "running" =>
       /\ \A s \in StepsOf(r) : stepState'[s] \notin ActiveStates
       /\ StepsOf(r) # {} => runState'[r] # "running"]_vars

\* After the sweep of a restart no step is active any more.
SweepSettlesSteps ==
  [][~ up /\ up' => \A s \in Steps : stepState'[s] \notin ActiveStates]_vars

\* Every dispatched step leaves the active states for good or for a new cycle.
EventuallySettled ==
  \A s \in Steps :
    stepState[s] \in ActiveStates ~> stepState[s] \notin ActiveStates

\* The lock file makes a mutex of the workspace root: the goroutines that work
\* under it behave as the users of WorkspaceMutex.
Mutex == INSTANCE WorkspaceMutex
           WITH Users <- Dispatches, inside <- {d \in Dispatches : holding(d)}
ImplementsMutex == Mutex!Spec
=============================================================================
