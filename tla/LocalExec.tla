----------------------------- MODULE LocalExec -----------------------------
(***************************************************************************)
(* The local execution service (internal/localexec): the process that      *)
(* drives a daemon over HTTP for the command line, the connector and the   *)
(* tools.  It runs a manifest of tasks one after the other (RunPlan),      *)
(* submits single tasks (Submit) and keeps one report file per run, which  *)
(* GetRunPlanReport refreshes from the daemon while it is not final.       *)
(*                                                                         *)
(* The daemon is reduced to the states of the steps it has been given;     *)
(* RunService describes how it gets them there.  Its answers can be lost,  *)
(* so a step may exist that its submitter believes was never accepted.     *)
(***************************************************************************)
EXTENDS Integers, Sequences, FiniteSets

CONSTANTS
    NTasks,       \* number of tasks of the manifest
    MaxAttempts,  \* policy.retry.max_attempts
    Outcomes,     \* the states in which the daemon may leave a step
    Readers,      \* concurrent callers of GetRunPlanReport
    Scenarios,    \* bound: the policy of the manifest, and which of RunPlan,
                  \* Submit and the readers take part
    None

\* policy.stop_on_blocker, policy.stop_on_failure and policy.retry.enabled
Policies == [onBlocker : BOOLEAN, onFailure : BOOLEAN, retry : BOOLEAN]

Runs == {"plan", "own"}   \* the run of the manifest, and one that Submit starts

\* manifestStepID and uniqueStepID: every attempt is a step of its own.
StepIds == { <<t, a>> : t \in 1..NTasks, a \in 1..MaxAttempts } \cup { <<0, 1>> }

ASSUME LocalExecAssumption ==
    /\ NTasks \in Nat \ {0} /\ MaxAttempts \in Nat \ {0}
    /\ Scenarios \subseteq Policies \X SUBSET ({"RunPlan", "Submit"} \cup Readers)
    /\ None \notin StepIds

VARIABLES
    run,       \* the daemon's runs: "none", "open" or "cancelled"
    step,      \* the daemon's steps: "none" or a step state
    policy,    \* the policy of the manifest
    plan,      \* RunPlan: [at, task, attempt, reports]
    submit,    \* Submit: [at, run, wait]
    file,      \* the report file of each run
    reader,    \* GetRunPlanReport: [at, run, copy]
    callers    \* who takes part in this behaviour

vars == <<run, step, policy, plan, submit, file, reader, callers>>

---------------------------------------------------------------------------
(* What a step's state is worth in a report *)

Succeeded == {"completed", "completed_with_warnings"}
Waiting == {"needs_approval", "needs_manual_attention"}

\* Mutant: a step that waits for a person is looked at as if it still ran.
settledForGood(s) == s \notin {"none", "running"} \cup Waiting

\* waitForTask and refreshTaskReport stop looking at a step in these states.
settled(s) == s \notin {"none", "running"}

\* The blocker and the exit code of a step that has settled.
blockerForResult(s) ==
    CASE s \in Succeeded -> [type |-> None, exit |-> "success", retryable |-> FALSE]
      [] s = "failed_validation" ->
            [type |-> "validation_failed", exit |-> "validation_failed", retryable |-> FALSE]
      [] s \in Waiting -> [type |-> "manual_approval", exit |-> "blocked", retryable |-> FALSE]
      [] s = "failed_adapter" ->
            [type |-> "adapter_error", exit |-> "adapter_failed", retryable |-> TRUE]
      [] s = "failed_bridge" ->
            [type |-> "bridge_error", exit |-> "daemon_failed", retryable |-> TRUE]
      [] s = "timeout" -> [type |-> "timeout", exit |-> "timeout", retryable |-> TRUE]
      [] s = "failed_retryable" ->
            [type |-> "failed_terminal", exit |-> "failed_terminal", retryable |-> TRUE]
      [] OTHER -> [type |-> "failed_terminal", exit |-> "failed_terminal", retryable |-> FALSE]

\* A wait that ends before the step does is a blocker of its own.
waitTimedOut == [type |-> "timeout", exit |-> "timeout", retryable |-> TRUE]
noBlocker == [type |-> None, exit |-> "success", retryable |-> FALSE]

taskReportFromStep(id, s, b) ==
    [step |-> id, exit |-> b.exit, type |-> b.type, retryable |-> b.retryable,
     status |-> IF b.exit = "success" THEN s
                ELSE IF b.exit = "blocked" THEN "blocked" ELSE b.type]

\* The result of a step that has settled may be unavailable; the state of the
\* step stands in for it then.
fetchEvidence(s) == {None, s}

settledReports(id) ==
    { taskReportFromStep(id, step[id],
          blockerForResult(IF res = None \/ step[id] \in Waiting THEN step[id] ELSE res)) :
      res \in fetchEvidence(step[id]) }

\* The kinds of error the client makes of a call that brings no step: the
\* request is refused (400, 409), or the daemon is unreachable, fails or
\* answers nothing readable.  The last three are told apart only by their text.
daemonErrors == {"invalid_input", "bridge_error"}

daemonTaskReport(kind) ==
    [step |-> None, status |-> "blocked", type |-> kind,
     exit |-> IF kind = "invalid_input" THEN "invalid_input" ELSE "daemon_failed",
     retryable |-> kind # "invalid_input"]

\* A task whose profile, file or timeout cannot be used never reaches the daemon.
unusableTaskReport ==
    [step |-> None, status |-> "invalid_input", type |-> "invalid_input",
     exit |-> "invalid_input", retryable |-> FALSE]

retryableForManifest(r) ==
    \/ r.type \in {"timeout", "adapter_error", "bridge_error"}
    \/ r.type # None /\ r.retryable

terminalReportStatus(s) ==
    s \in Succeeded \cup
          {"failed_validation", "failed_adapter", "failed_bridge", "failed_retryable",
           "cancelled", "blocked", "validation_failed", "manual_approval",
           "adapter_error", "bridge_error", "timeout", "failed_terminal", "invalid_input"}

---------------------------------------------------------------------------
(* Report files *)

\* Mutant: the last task alone decides, also when an earlier one failed.
planReportOfLast(reports) ==
    LET r == reports[Len(reports)]
    IN  [ok |-> r.exit = "success", status |-> r.status, tasks |-> reports]

\* The report RunPlan makes of its tasks: the last task that failed decides.
planReport(reports) ==
    LET failed == { i \in DOMAIN reports : reports[i].exit # "success" }
        last == CHOOSE i \in failed : \A j \in failed : j <= i
    IN  [ok |-> failed = {},
         status |-> IF failed = {} THEN "completed" ELSE reports[last].status,
         tasks |-> reports]

\* The report of one submitted task.
submitReport(r) == [ok |-> r.exit = "success", status |-> r.status, tasks |-> <<r>>]

\* The report again, after its tasks have been looked up: the first task that
\* is not final, or that failed, decides.
applyTaskReportsToRunPlan(tasks) ==
    LET deciding == { i \in DOMAIN tasks : \/ ~terminalReportStatus(tasks[i].status)
                                           \/ tasks[i].exit # "success" }
        first == CHOOSE i \in deciding : \A j \in deciding : i <= j
        t == IF deciding = {} THEN tasks[1] ELSE tasks[first]
    IN  [ok |-> deciding = {} \/ ~terminalReportStatus(t.status),
         status |-> t.status, tasks |-> tasks]

runPlanReportTerminal(f) ==
    \/ terminalReportStatus(f.status)
    \/ \A i \in DOMAIN f.tasks : terminalReportStatus(f.tasks[i].status)

---------------------------------------------------------------------------
(* The daemon *)

Init ==
    /\ \E sc \in Scenarios : policy = sc[1] /\ callers = sc[2]
    /\ run = [r \in Runs |-> "none"]
    /\ step = [s \in StepIds |-> "none"]
    /\ plan = [at |-> "idle", task |-> 1, attempt |-> 1, reports |-> << >>]
    /\ submit = [at |-> "idle", run |-> None, wait |-> FALSE]
    /\ file = [r \in Runs |-> None]
    /\ reader = [i \in Readers |-> [at |-> "idle", run |-> None, copy |-> None]]

stepRun(s) == IF s[1] = 0 THEN submit.run ELSE "plan"

\* The daemon finishes a step, or leaves it to a person; a person answers.
daemonSettles(s) ==
    /\ \/ step[s] = "running" /\ \E o \in Outcomes : step' = [step EXCEPT ![s] = o]
       \/ /\ step[s] \in Waiting
          /\ \E o \in Outcomes \ Waiting : step' = [step EXCEPT ![s] = o]
    /\ UNCHANGED <<run, policy, plan, submit, file, reader, callers>>

\* CancelRun asks the daemon to abort the run; the daemon stops its steps.
CancelRun(r) ==
    /\ run[r] = "open"
    /\ run' = [run EXCEPT ![r] = "cancelled"]
    /\ step' = [s \in StepIds |-> IF stepRun(s) = r /\ step[s] \in {"running"} \cup Waiting
                                  THEN "cancelled" ELSE step[s]]
    /\ UNCHANGED <<policy, plan, submit, file, reader, callers>>

---------------------------------------------------------------------------
(* RunPlan *)

\* The plan starts with a run of its own.  The daemon may refuse, or its
\* answer may be lost after it has made the run: no report is written then.
RunPlan ==
    /\ plan.at = "idle" /\ "RunPlan" \in callers
    /\ \/ run' = [run EXCEPT !["plan"] = "open"] /\ plan' = [plan EXCEPT !.at = "submit"]
       \/ \E r \in {"none", "open"} :
            run' = [run EXCEPT !["plan"] = r] /\ plan' = [plan EXCEPT !.at = "refused"]
    /\ UNCHANGED <<step, policy, submit, file, reader, callers>>

attempts == IF policy.retry THEN MaxAttempts ELSE 1

\* Mutant: only a blocker stops the plan.
stopsAtBlocker(r) == r.exit = "blocked" /\ policy.onBlocker

\* policy.stop_on_blocker and policy.stop_on_failure
stopsAt(r) ==
    /\ r.exit # "success"
    /\ IF r.exit = "blocked" THEN policy.onBlocker ELSE policy.onFailure

\* The report file is replaced by a rename, after the last task.
writeRunPlanReport(r, report) == file' = [file EXCEPT ![r] = report]

taskIsDone(r) ==
    \/ r.exit = "success" \/ plan.attempt = attempts \/ ~retryableForManifest(r)

\* Mutant: a retry does not count.
sameAttempt == plan.attempt

nextAttempt == plan.attempt + 1

\* An attempt has ended with report r: try again, go on, or stop.
attemptEnds(r) ==
    IF ~taskIsDone(r)
    THEN plan' = [plan EXCEPT !.at = "submit", !.attempt = nextAttempt] /\ UNCHANGED file
    ELSE LET reports == Append(plan.reports, r)
         IN  IF stopsAt(r) \/ plan.task = NTasks
             THEN /\ plan' = [plan EXCEPT !.at = "done", !.reports = reports]
                  /\ writeRunPlanReport("plan", planReport(reports))
             ELSE /\ plan' = [at |-> "submit", task |-> plan.task + 1, attempt |-> 1,
                              reports |-> reports]
                  /\ UNCHANGED file

\* One attempt at the current task is handed to the daemon, which takes it
\* only into a run that is open.
executeManifestTask ==
    /\ plan.at = "submit"
    /\ LET s == <<plan.task, plan.attempt>>
           accepted == run["plan"] = "open" /\ step' = [step EXCEPT ![s] = "running"]
       IN  \/ attemptEnds(unusableTaskReport) /\ UNCHANGED step
           \/ accepted /\ plan' = [plan EXCEPT !.at = "wait"] /\ UNCHANGED file
           \/ accepted /\ attemptEnds(daemonTaskReport("bridge_error"))
           \/ \E k \in daemonErrors : attemptEnds(daemonTaskReport(k)) /\ UNCHANGED step
    /\ UNCHANGED <<run, policy, submit, reader, callers>>

\* How a wait for step s can end: a failed poll, a step that has settled, or
\* the wait's own timeout.
waitReports(s) ==
    { daemonTaskReport("bridge_error") } \cup
    (IF settled(step[s]) THEN settledReports(s)
                         ELSE { taskReportFromStep(s, step[s], waitTimedOut) })

waitForTask ==
    /\ plan.at = "wait"
    /\ \E r \in waitReports(<<plan.task, plan.attempt>>) : attemptEnds(r)
    /\ UNCHANGED <<run, step, policy, submit, reader, callers>>

\* The process of the plan is interrupted: what it has reported so far is lost.
planKilled ==
    /\ plan.at \in {"submit", "wait"}
    /\ plan' = [plan EXCEPT !.at = "killed"]
    /\ UNCHANGED <<run, step, policy, submit, file, reader, callers>>

---------------------------------------------------------------------------
(* Submit *)

\* A single task is submitted into a new run or into the manifest's run, which
\* is looked up.  The daemon may refuse, or its answer be lost.
Submit ==
    /\ submit.at = "idle" /\ "Submit" \in callers
    /\ \E r \in Runs, w \in BOOLEAN, a \in {"submit", "refused"} :
          /\ r = "plan" /\ a = "submit" => run[r] # "none"
          /\ submit' = [at |-> a, run |-> r, wait |-> w]
          /\ \/ r = "own" /\ run' = [run EXCEPT ![r] = "open"]
             \/ (r = "plan" \/ a = "refused") /\ UNCHANGED run
    /\ UNCHANGED <<step, policy, plan, file, reader, callers>>

\* The step is accepted; without wait its report is written at once.  A
\* refusal, or an answer that is lost, is reported to the caller only.
submitTask ==
    /\ submit.at = "submit"
    /\ \/ /\ run[submit.run] = "open"
          /\ step' = [step EXCEPT ![<<0, 1>>] = "running"]
          /\ \/ /\ submit.wait /\ submit' = [submit EXCEPT !.at = "wait"] /\ UNCHANGED file
             \/ /\ ~submit.wait /\ submit' = [submit EXCEPT !.at = "done"]
                /\ writeRunPlanReport(submit.run,
                       submitReport(taskReportFromStep(<<0, 1>>, "running", noBlocker)))
             \/ submit' = [submit EXCEPT !.at = "refused"] /\ UNCHANGED file
       \/ submit' = [submit EXCEPT !.at = "refused"] /\ UNCHANGED <<step, file>>
    /\ UNCHANGED <<run, policy, plan, reader, callers>>

\* With wait, the report is written when the wait ends.
writeSubmitRunReport ==
    /\ submit.at = "wait"
    /\ \E r \in waitReports(<<0, 1>>) : writeRunPlanReport(submit.run, submitReport(r))
    /\ submit' = [submit EXCEPT !.at = "done"]
    /\ UNCHANGED <<run, step, policy, plan, reader, callers>>

---------------------------------------------------------------------------
(* GetRunPlanReport *)

\* The report is read; only one that is not final is looked up again.
GetRunPlanReport(i, r) ==
    /\ reader[i].at = "idle" /\ i \in callers /\ file[r] # None
    /\ ~runPlanReportTerminal(file[r])
    /\ reader' = [reader EXCEPT ![i] = [at |-> "refresh", run |-> r, copy |-> file[r]]]
    /\ UNCHANGED <<run, step, policy, plan, submit, file, callers>>

\* What one task of the report may become, from the daemon's state of its step.
refreshTaskReport(t) ==
    IF t.step = None \/ terminalReportStatus(t.status) THEN {t}
    ELSE IF settled(step[t.step]) THEN settledReports(t.step)
         ELSE {[t EXCEPT !.status = step[t.step]]}

\* The tasks are looked up and the report is made again, or every lookup
\* fails and the report is left as it was.
refreshNonTerminalRunPlanReport(i) ==
    /\ reader[i].at = "refresh"
    /\ \/ LET copy == reader[i].copy.tasks
          IN  \E tasks \in [DOMAIN copy -> UNION { refreshTaskReport(copy[k]) : k \in DOMAIN copy }] :
                /\ \A k \in DOMAIN copy : tasks[k] \in refreshTaskReport(copy[k])
                /\ reader' = [reader EXCEPT ![i].at = "write",
                                            ![i].copy = applyTaskReportsToRunPlan(tasks)]
       \/ reader' = [reader EXCEPT ![i] = [at |-> "idle", run |-> None, copy |-> None]]
    /\ UNCHANGED <<run, step, policy, plan, submit, file, callers>>

\* The refreshed report replaces whatever the file holds by now.
writeRefreshed(i) ==
    /\ reader[i].at = "write"
    /\ writeRunPlanReport(reader[i].run, reader[i].copy)
    /\ reader' = [reader EXCEPT ![i] = [at |-> "idle", run |-> None, copy |-> None]]
    /\ UNCHANGED <<run, step, policy, plan, submit, callers>>

---------------------------------------------------------------------------
Next ==
    \/ \E s \in StepIds : daemonSettles(s)
    \/ \E r \in Runs : CancelRun(r)
    \/ RunPlan \/ executeManifestTask \/ waitForTask \/ planKilled
    \/ Submit \/ submitTask \/ writeSubmitRunReport
    \/ \E i \in Readers, r \in Runs : GetRunPlanReport(i, r)
    \/ \E i \in Readers : refreshNonTerminalRunPlanReport(i) \/ writeRefreshed(i)

Spec == Init /\ [][Next]_vars

\* A plan's own steps all end: calls have a deadline and waits time out
\* (client.go:37, service.go:801).  Reports are asked for again and again, and
\* now and then the daemon answers (strong fairness); nothing is assumed of the
\* daemon's steps, of people or of the other callers.
Fairness ==
    /\ WF_vars(executeManifestTask) /\ WF_vars(waitForTask)
    /\ \A i \in Readers : /\ WF_vars(writeRefreshed(i))
                          /\ \A r \in Runs : SF_vars(GetRunPlanReport(i, r))
    /\ \A i \in Readers : SF_vars(refreshNonTerminalRunPlanReport(i) /\ reader'[i].at = "write")

LiveSpec == Spec /\ Fairness

---------------------------------------------------------------------------
(* Properties *)

\* A report file that says success is true: every task it lists was completed
\* by the daemon, whoever wrote the file last and however stale the copy it
\* was made from (taskReportFromStep, applyTaskReportsToRunPlan, RunPlan).
SuccessIsReal ==
    \A r \in Runs :
        (file[r] # None /\ file[r].ok /\ runPlanReportTerminal(file[r])) =>
            \A i \in DOMAIN file[r].tasks :
                file[r].tasks[i].step # None /\ step[file[r].tasks[i].step] \in Succeeded

\* Under a policy that stops on blockers and on failures, the daemon is never
\* given a step of a task unless every earlier task has a step that was
\* completed, through retries, lost answers and waits that time out (RunPlan).
NothingAfterStop ==
    (policy.onBlocker /\ policy.onFailure) =>
        \A t \in 1..NTasks : \A a \in 1..MaxAttempts :
            step[<<t, a>>] # "none" =>
                \A e \in 1..(t - 1) : \E b \in 1..MaxAttempts : step[<<e, b>>] \in Succeeded

\* A plan that has started ends, whatever the daemon does: with its report
\* written, unless its process is killed (executeManifestTask, waitForTask).
PlanEnds == plan.at = "submit" ~> plan.at \in {"done", "killed"}

\* The report of a submitted task catches up: as long as it is asked for, a
\* file that is not final becomes final once its step has settled for good,
\* although a slow reader may put an older copy back (GetRunPlanReport).
ReportCatchesUp ==
    \A r \in Runs :
        file[r] # None ~>
            /\ file[r] # None
            /\ \/ runPlanReportTerminal(file[r])
               \/ \E i \in DOMAIN file[r].tasks :
                     file[r].tasks[i].step # None /\ step[file[r].tasks[i].step] = "running"
=============================================================================
