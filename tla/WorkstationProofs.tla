-------------------------- MODULE WorkstationProofs --------------------------
(***************************************************************************)
(* Theorems about what runs on a workstation, for manifests, commands and  *)
(* services in any number.                                                 *)
(*                                                                         *)
(* Manifest runner (LocalExec): what a report says stays true only if a    *)
(* completed step is never handed out again, so the steps of attempts still*)
(* to come must be untouched; what a reader writes is true only if its copy*)
(* was, task by task; and under a strict policy a task is reached only if  *)
(* the step before it was completed.                                       *)
(*                                                                         *)
(* Language servers and connector (Workstation): what an attempt has seen  *)
(* refused is kept until it ends; what was advertised is in the config that*)
(* the connector process holds.                                            *)
(*                                                                         *)
(* Services: a stop is described by its stages, and by what the platform's *)
(* manager says of the units it has been through.                          *)
(*                                                                         *)
(* Files under CODENCER_HOME: a killed command leaves a prefix of its      *)
(* program, so coherence rests on the order in every program: what is named*)
(* is written before the file that names it.                               *)
(***************************************************************************)
EXTENDS LocalExec, Workstation, WellFoundedInduction, SequenceTheorems, TLAPS

StepStates == Outcomes \cup {"none", "running", "cancelled"}
BlockerTypes == {None, "validation_failed", "manual_approval", "adapter_error", "bridge_error",
                 "timeout", "failed_terminal", "invalid_input"}
ExitCodes == {"success", "validation_failed", "blocked", "adapter_failed", "daemon_failed",
              "timeout", "failed_terminal", "invalid_input"}
Statuses == StepStates \cup BlockerTypes \cup {"completed", "blocked"}
Blockers == [type : BlockerTypes, exit : ExitCodes, retryable : BOOLEAN]
TaskReports == [step : StepIds \cup {None}, exit : ExitCodes, type : BlockerTypes,
                retryable : BOOLEAN, status : Statuses]
Reports == [ok : BOOLEAN, status : Statuses, tasks : Seq(TaskReports) \ {<< >>}]

TypeOK ==
  /\ run \in [Runs -> {"none", "open", "cancelled"}]
  /\ step \in [StepIds -> StepStates]
  /\ policy \in Policies
  /\ plan \in [at : {"idle", "submit", "wait", "done", "refused", "killed"},
               task : 1..NTasks, attempt : 1..MaxAttempts, reports : Seq(TaskReports)]
  /\ plan.attempt <= attempts
  /\ submit \in [at : {"idle", "submit", "wait", "done", "refused"},
                 run : Runs \cup {None}, wait : BOOLEAN]
  /\ submit.at \in {"submit", "wait"} => submit.run \in Runs
  /\ file \in [Runs -> Reports \cup {None}]
  /\ reader \in [Readers -> [at : {"idle", "refresh", "write"}, run : Runs \cup {None},
                             copy : Reports \cup {None}]]
  /\ \A i \in Readers :
       reader[i].at # "idle" => reader[i].run \in Runs /\ reader[i].copy \in Reports

\* The attempts still to come are steps the daemon has never been given.
Untouched ==
  /\ \A t \in 1..NTasks, a \in 1..MaxAttempts :
       \/ t > plan.task
       \/ t = plan.task /\ a > plan.attempt
       \/ t = plan.task /\ a = plan.attempt /\ plan.at \in {"idle", "submit"}
       => step[<<t, a>>] = "none"
  /\ submit.at \in {"idle", "submit"} => step[<<0, 1>>] = "none"

\* A task that was completed, by the states st of the steps.
earned(t, st) == t.step # None /\ st[t.step] \in Succeeded

\* A report of a task that says success, and is final, was earned.
trueTask(t, st) ==
  t.exit = "success" => /\ t.step # None
                        /\ st[t.step] \in Succeeded \/ ~terminalReportStatus(t.status)

\* A report of a run whose tasks are true, and that says success in the end
\* only when all of them were completed.
trueReport(f, st) ==
  /\ \A i \in DOMAIN f.tasks : trueTask(f.tasks[i], st)
  /\ f.ok /\ runPlanReportTerminal(f) => \A i \in DOMAIN f.tasks : earned(f.tasks[i], st)

Truthful ==
  /\ \A i \in DOMAIN plan.reports :
       plan.reports[i].exit = "success" => earned(plan.reports[i], step)
  /\ \A r \in Runs : file[r] # None => trueReport(file[r], step)
  /\ \A i \in Readers : reader[i].at # "idle" => trueReport(reader[i].copy, step)

\* Under a strict policy the tasks before the current one were completed.
Completed ==
  (policy.onBlocker /\ policy.onFailure) =>
    \A e \in 1..(plan.task - 1) : \E b \in 1..MaxAttempts : step[<<e, b>>] \in Succeeded

IInv == TypeOK /\ Untouched /\ Truthful /\ Completed

-----------------------------------------------------------------------------
(* Operators *)

\* A nonempty set of natural numbers has a least member.
LEMMA LeastNumber ==
  ASSUME NEW S \in SUBSET Nat, S # {}
  PROVE  \E i \in S : \A j \in S : i <= j
<1>1. PICK x \in S : \A y \in S : ~ (<<y, x>> \in OpToRel(<, Nat))
  BY NatLessThanWellFounded, WFMin
<1>2. \A y \in S : ~ (y < x)
  BY <1>1 DEF OpToRel
<1> QED BY <1>2

\* One that is bounded has a greatest.
LEMMA GreatestNumber ==
  ASSUME NEW n \in Nat, NEW S \in SUBSET (1..n), S # {}
  PROVE  \E i \in S : \A j \in S : j <= i
<1> DEFINE T == {n - i : i \in S}
<1>1. T \in SUBSET Nat /\ T # {}
  <2>1. \A i \in S : n - i \in Nat
    OBVIOUS
  <2> QED BY <2>1
<1>2. PICK m \in T : \A j \in T : m <= j
  <2> HIDE DEF T
  <2> QED BY <1>1, LeastNumber
<1>3. PICK i \in S : m = n - i
  BY <1>2
<1>4. ASSUME NEW j \in S PROVE j <= i
  <2>1. n - j \in T
    OBVIOUS
  <2>2. n - i <= n - j
    BY <1>2, <1>3, <2>1
  <2> QED BY <2>2
<1> QED BY <1>4

\* Only a step that was completed has the exit code of success.
LEMMA BlockerType ==
  ASSUME NEW s
  PROVE  /\ blockerForResult(s) \in Blockers
         /\ blockerForResult(s).exit = "success" => s \in Succeeded
BY DEF blockerForResult, Blockers, Succeeded, Waiting, BlockerTypes, ExitCodes

\* A report on a step names the step and has the blocker's exit code.
LEMMA StepReport ==
  ASSUME NEW id \in StepIds, NEW s \in StepStates, NEW b \in Blockers
  PROVE  /\ taskReportFromStep(id, s, b) \in TaskReports
         /\ taskReportFromStep(id, s, b).step = id
         /\ taskReportFromStep(id, s, b).exit = b.exit
BY DEF taskReportFromStep, TaskReports, Statuses, Blockers

\* Success is reported of a settled step only if it was completed.
LEMMA SettledReport ==
  ASSUME step \in [StepIds -> StepStates], NEW id \in StepIds, NEW r \in settledReports(id)
  PROVE  /\ r \in TaskReports /\ r.step = id
         /\ r.exit = "success" => step[id] \in Succeeded
<1>1. PICK res \in fetchEvidence(step[id]) :
        r = taskReportFromStep(id, step[id],
              blockerForResult(IF res = None \/ step[id] \in Waiting THEN step[id] ELSE res))
  BY DEF settledReports
<1>2. (IF res = None \/ step[id] \in Waiting THEN step[id] ELSE res) = step[id]
  BY DEF fetchEvidence
<1>3. r = taskReportFromStep(id, step[id], blockerForResult(step[id]))
  BY <1>1, <1>2
<1> QED BY <1>3, BlockerType, StepReport

\* The reports that do not come from a step are no success.
LEMMA ErrorReport ==
  /\ unusableTaskReport \in TaskReports /\ unusableTaskReport.exit # "success"
  /\ \A k \in daemonErrors : /\ daemonTaskReport(k) \in TaskReports
                             /\ daemonTaskReport(k).exit # "success"
BY DEF unusableTaskReport, daemonTaskReport, daemonErrors, TaskReports, Statuses,
       BlockerTypes, ExitCodes

\* However a wait ends, it reports success only of a step that was completed.
LEMMA WaitReport ==
  ASSUME step \in [StepIds -> StepStates], NEW id \in StepIds, NEW r \in waitReports(id)
  PROVE  /\ r \in TaskReports
         /\ r.exit = "success" => r.step = id /\ step[id] \in Succeeded
<1>1. CASE r = daemonTaskReport("bridge_error")
  BY <1>1, ErrorReport DEF daemonErrors
<1>2. CASE r \in settledReports(id)
  BY <1>2, SettledReport
<1>3. CASE r = taskReportFromStep(id, step[id], waitTimedOut)
  <2>1. waitTimedOut \in Blockers /\ waitTimedOut.exit # "success"
    BY DEF waitTimedOut, Blockers, BlockerTypes, ExitCodes
  <2>2. step[id] \in StepStates
    OBVIOUS
  <2> QED BY <1>3, <2>1, <2>2, StepReport
<1> QED BY <1>1, <1>2, <1>3 DEF waitReports

\* A completed step has a final status.
LEMMA CompletedIsFinal ==
  ASSUME NEW s \in Succeeded PROVE terminalReportStatus(s) /\ settled(s)
BY DEF terminalReportStatus, Succeeded, settled

\* The report of a plan whose successes were earned is true.
LEMMA PlanReportIsTrue ==
  ASSUME NEW q \in Seq(TaskReports), NEW st, q # << >>,
         \A i \in DOMAIN q : q[i].exit = "success" => earned(q[i], st)
  PROVE  planReport(q) \in Reports /\ trueReport(planReport(q), st)
<1> DEFINE failed == { i \in DOMAIN q : q[i].exit # "success" }
           last == CHOOSE i \in failed : \A j \in failed : j <= i
<1>1. planReport(q).ok = (failed = {}) /\ planReport(q).tasks = q
  BY DEF planReport
<1>2. planReport(q) \in Reports
  <2>1. failed # {} => last \in failed
    <3>1. failed \in SUBSET (1..Len(q)) /\ Len(q) \in Nat
      OBVIOUS
    <3>2. failed # {} => \E i \in failed : \A j \in failed : j <= i
      <4> HIDE DEF failed
      <4> QED BY <3>1, GreatestNumber
    <3> QED BY <3>2
  <2>2. failed # {} => q[last].status \in Statuses
    <3>1. \A i \in DOMAIN q : q[i] \in TaskReports
      OBVIOUS
    <3> QED BY <2>1, <3>1 DEF TaskReports
  <2>3. (IF failed = {} THEN "completed" ELSE q[last].status) \in Statuses
    BY <2>2 DEF Statuses
  <2>4. planReport(q) = [ok |-> failed = {},
                         status |-> IF failed = {} THEN "completed" ELSE q[last].status,
                         tasks |-> q]
    BY DEF planReport
  <2>5. (failed = {}) \in BOOLEAN
    OBVIOUS
  <2> HIDE DEF failed, last
  <2> QED BY <2>3, <2>4, <2>5 DEF Reports
<1>3. \A i \in DOMAIN q : trueTask(q[i], st)
  BY DEF trueTask, earned
<1>4. failed = {} => \A i \in DOMAIN q : earned(q[i], st)
  OBVIOUS
<1> QED BY <1>1, <1>2, <1>3, <1>4 DEF trueReport

\* The report of a submitted task is true, whether it was waited for or not.
LEMMA SubmitReportIsTrue ==
  ASSUME NEW r \in TaskReports, NEW st,
         r.exit = "success" =>
           r.step # None /\ (st[r.step] \in Succeeded \/ ~terminalReportStatus(r.status))
  PROVE  submitReport(r) \in Reports /\ trueReport(submitReport(r), st)
<1>1. submitReport(r) = [ok |-> r.exit = "success", status |-> r.status, tasks |-> <<r>>]
  BY DEF submitReport
<1>2. <<r>> \in Seq(TaskReports) \ {<< >>} /\ DOMAIN <<r>> = {1} /\ <<r>>[1] = r
  OBVIOUS
<1>3. r.status \in Statuses /\ (r.exit = "success") \in BOOLEAN
  BY DEF TaskReports
<1>4. submitReport(r) \in Reports
  BY <1>1, <1>2, <1>3 DEF Reports
<1>5. submitReport(r).ok /\ runPlanReportTerminal(submitReport(r)) => earned(r, st)
  <2>1. /\ submitReport(r).ok = (r.exit = "success") /\ submitReport(r).status = r.status
        /\ submitReport(r).tasks = <<r>>
    BY <1>1
  <2>2. runPlanReportTerminal(submitReport(r)) => terminalReportStatus(r.status)
    BY <1>2, <2>1 DEF runPlanReportTerminal
  <2> QED BY <2>1, <2>2 DEF earned
<1>6. trueTask(r, st)
  BY DEF trueTask
<1> QED BY <1>1, <1>2, <1>4, <1>5, <1>6 DEF trueReport

\* A task that is looked up again stays true.
LEMMA RefreshedTask ==
  ASSUME step \in [StepIds -> StepStates], NEW t \in TaskReports, trueTask(t, step),
         NEW u \in refreshTaskReport(t)
  PROVE  u \in TaskReports /\ trueTask(u, step)
<1>1. CASE u = t
  BY <1>1
<1>2. CASE t.step # None /\ u \in settledReports(t.step)
  <2>1. t.step \in StepIds
    BY <1>2 DEF TaskReports
  <2>2. u \in TaskReports /\ u.step = t.step /\ (u.exit = "success" => step[t.step] \in Succeeded)
    BY <1>2, <2>1, SettledReport
  <2> QED BY <1>2, <2>2 DEF trueTask
<1>3. CASE t.step # None /\ ~settled(step[t.step]) /\ u = [t EXCEPT !.status = step[t.step]]
  <2>1. t.step \in StepIds
    BY <1>3 DEF TaskReports
  <2>2. step[t.step] \in StepStates
    BY <2>1
  <2>3. u \in TaskReports /\ u.status = step[t.step] /\ u.step = t.step /\ u.exit = t.exit
    BY <1>3, <2>2 DEF TaskReports, Statuses
  <2>4. ~terminalReportStatus(u.status)
    BY <1>3, <2>3 DEF settled, terminalReportStatus, Succeeded
  <2> QED BY <1>3, <2>3, <2>4 DEF trueTask
<1> QED BY <1>1, <1>2, <1>3 DEF refreshTaskReport

\* A report that is made again of true tasks is true.
LEMMA AppliedReportIsTrue ==
  ASSUME NEW q \in Seq(TaskReports), NEW st, q # << >>,
         \A i \in DOMAIN q : trueTask(q[i], st)
  PROVE  applyTaskReportsToRunPlan(q) \in Reports /\ trueReport(applyTaskReportsToRunPlan(q), st)
<1> DEFINE deciding == { i \in DOMAIN q : \/ ~terminalReportStatus(q[i].status)
                                          \/ q[i].exit # "success" }
           first == CHOOSE i \in deciding : \A j \in deciding : i <= j
           t == IF deciding = {} THEN q[1] ELSE q[first]
           f == applyTaskReportsToRunPlan(q)
<1>1. f = [ok |-> deciding = {} \/ ~terminalReportStatus(t.status), status |-> t.status, tasks |-> q]
  BY DEF applyTaskReportsToRunPlan
<1>2. deciding # {} => first \in deciding
  <2>1. deciding \in SUBSET Nat
    OBVIOUS
  <2>2. deciding # {} => \E i \in deciding : \A j \in deciding : i <= j
    <3> HIDE DEF deciding
    <3> QED BY <2>1, LeastNumber
  <2> QED BY <2>2
<1>3. t \in TaskReports
  <2>1. 1 \in DOMAIN q /\ \A i \in DOMAIN q : q[i] \in TaskReports
    OBVIOUS
  <2>2. deciding # {} => first \in DOMAIN q
    BY <1>2
  <2> QED BY <2>1, <2>2
<1>4. deciding = {} => \A i \in DOMAIN q : earned(q[i], st)
  BY DEF trueTask, earned
<1>5. deciding # {} => first \in DOMAIN q /\ t = q[first]
  BY <1>2
<1>6. f \in Reports
  <2>1. t.status \in Statuses
    BY <1>3 DEF TaskReports
  <2>2. (deciding = {} \/ ~terminalReportStatus(t.status)) \in BOOLEAN
    OBVIOUS
  <2> HIDE DEF deciding, t, first
  <2> QED BY <1>1, <2>1, <2>2 DEF Reports
<1>7. f.ok /\ runPlanReportTerminal(f) => deciding = {}
  <2>1. f.ok = (deciding = {} \/ ~terminalReportStatus(t.status)) /\ f.status = t.status /\ f.tasks = q
    BY <1>1
  <2>2. deciding # {} /\ f.ok => ~terminalReportStatus(t.status)
    BY <2>1
  <2>3. deciding # {} /\ ~terminalReportStatus(t.status) => ~runPlanReportTerminal(f)
    <3> HIDE DEF deciding, t, first, f
    <3> QED BY <1>5, <2>1 DEF runPlanReportTerminal
  <2> QED BY <2>2, <2>3
<1> HIDE DEF deciding, t, first
<1> QED BY <1>1, <1>4, <1>6, <1>7 DEF trueReport

\* What is true of a report stays true while completed steps stay completed.
LEMMA TruthIsKept ==
  ASSUME NEW f \in Reports, NEW st, NEW st2, trueReport(f, st),
         \A s \in StepIds : st[s] \in Succeeded => st2[s] \in Succeeded
  PROVE  trueReport(f, st2)
<1>1. \A i \in DOMAIN f.tasks : f.tasks[i] \in TaskReports
  BY DEF Reports
<1>2. \A i \in DOMAIN f.tasks : f.tasks[i].step \in StepIds \cup {None}
  BY <1>1 DEF TaskReports
<1> QED BY <1>2 DEF trueReport, trueTask, earned

-----------------------------------------------------------------------------
(* Steps *)

\* Steps that were completed stay so.
successKept == \A s \in StepIds : step[s] \in Succeeded => step'[s] \in Succeeded

\* The reports under way stay true if the new ones are.
LEMMA TruthfulStep ==
  ASSUME TypeOK, Truthful, successKept,
         \A i \in DOMAIN plan'.reports :
           plan'.reports[i].exit = "success" => earned(plan'.reports[i], step'),
         \A r \in Runs : file'[r] = file[r] \/ trueReport(file'[r], step'),
         \A i \in Readers : \/ reader'[i] = reader[i] \/ reader'[i].at = "idle"
                            \/ trueReport(reader'[i].copy, step')
  PROVE  Truthful'
<1>1. ASSUME NEW r \in Runs, file'[r] # None PROVE trueReport(file'[r], step')
  <2>1. CASE file'[r] = file[r]
    <3>1. file[r] \in Reports /\ trueReport(file[r], step)
      BY <1>1, <2>1 DEF TypeOK, Truthful
    <3> QED BY <2>1, <3>1, TruthIsKept DEF successKept
  <2> QED BY <2>1
<1>2. ASSUME NEW i \in Readers, reader'[i].at # "idle" PROVE trueReport(reader'[i].copy, step')
  <2>1. CASE reader'[i] = reader[i]
    <3>1. reader[i].copy \in Reports /\ trueReport(reader[i].copy, step)
      BY <1>2, <2>1 DEF TypeOK, Truthful
    <3> QED BY <2>1, <3>1, TruthIsKept DEF successKept
  <2> QED BY <1>2, <2>1
<1> QED BY <1>1, <1>2 DEF Truthful

\* The reports of the plan stay earned.
LEMMA EarnedIsKept ==
  ASSUME TypeOK, Truthful, successKept
  PROVE  \A i \in DOMAIN plan.reports :
           plan.reports[i].exit = "success" => earned(plan.reports[i], step')
<1>1. \A i \in DOMAIN plan.reports : plan.reports[i] \in TaskReports
  BY DEF TypeOK
<1>2. \A i \in DOMAIN plan.reports : plan.reports[i].step \in StepIds \cup {None}
  BY <1>1 DEF TaskReports
<1> QED BY <1>2 DEF Truthful, earned, successKept

\* The tasks that were completed stay so.
LEMMA CompletedIsKept ==
  ASSUME TypeOK, Completed, successKept, UNCHANGED policy, plan'.task = plan.task
  PROVE  Completed'
<1>1. \A e \in 1..(plan.task - 1), b \in 1..MaxAttempts : <<e, b>> \in StepIds
  BY LocalExecAssumption DEF TypeOK, StepIds
<1> QED BY <1>1 DEF Completed, successKept

\* Where an attempt that has ended leaves the plan: at the next attempt, at the
\* next task or at its end, with a true report.
LEMMA AttemptEnds ==
  ASSUME TypeOK, Truthful, Completed, plan.at \in {"submit", "wait"}, successKept,
         UNCHANGED policy, NEW r \in TaskReports, attemptEnds(r),
         r.exit = "success" => /\ r.step = <<plan.task, plan.attempt>>
                               /\ step'[r.step] \in Succeeded
  PROVE  /\ plan' \in [at : {"submit", "done"}, task : 1..NTasks, attempt : 1..MaxAttempts,
                       reports : Seq(TaskReports)]
         /\ (plan.attempt <= attempts)'
         /\ \/ plan'.task = plan.task /\ plan'.attempt = plan.attempt /\ plan'.at = "done"
            \/ plan'.task = plan.task /\ plan'.attempt = plan.attempt + 1
            \/ plan'.task = plan.task + 1
         /\ \A i \in DOMAIN plan'.reports :
              plan'.reports[i].exit = "success" => earned(plan'.reports[i], step')
         /\ file' \in [Runs -> Reports \cup {None}]
         /\ \A x \in Runs : file'[x] = file[x] \/ trueReport(file'[x], step')
         /\ Completed'
<1> DEFINE reports == Append(plan.reports, r)
           PlanType == [at : {"idle", "submit", "wait", "done", "refused", "killed"},
               task : 1..NTasks, attempt : 1..MaxAttempts, reports : Seq(TaskReports)]
<1>0. /\ NTasks \in Nat /\ MaxAttempts \in Nat /\ plan.task \in 1..NTasks
      /\ plan.attempt \in 1..MaxAttempts /\ plan.reports \in Seq(TaskReports)
      /\ attempts \in 1..MaxAttempts /\ plan.attempt <= attempts
      /\ <<plan.task, plan.attempt>> \in StepIds
      /\ attempts' = attempts
      /\ plan \in PlanType
  BY LocalExecAssumption DEF TypeOK, attempts, StepIds
<1>1. reports \in Seq(TaskReports) /\ reports # << >>
  <2>1. reports \in Seq(TaskReports) /\ Len(reports) = Len(plan.reports) + 1
    BY <1>0
  <2>2. Len(plan.reports) \in Nat
    BY <1>0
  <2>3. Len(reports) # 0
    BY <2>1, <2>2
  <2> HIDE DEF reports
  <2> QED BY <2>1, <2>3
<1>2. \A i \in DOMAIN reports : reports[i].exit = "success" => earned(reports[i], step')
  <2>1. r.exit = "success" => earned(r, step')
    BY <1>0, LocalExecAssumption DEF earned
  <2>2. \A i \in DOMAIN plan.reports :
          plan.reports[i].exit = "success" => earned(plan.reports[i], step')
    BY EarnedIsKept
  <2>3. \A i \in DOMAIN reports :
          reports[i] = r \/ (i \in DOMAIN plan.reports /\ reports[i] = plan.reports[i])
    BY <1>0
  <2> HIDE DEF reports
  <2> QED BY <2>1, <2>2, <2>3
<1>3. CASE ~taskIsDone(r)
  <2>1. plan' = [plan EXCEPT !.at = "submit", !.attempt = plan.attempt + 1] /\ UNCHANGED file
    BY <1>3 DEF attemptEnds, nextAttempt
  <2>2. plan.attempt # attempts
    BY <1>3 DEF taskIsDone
  <2>3. plan.attempt + 1 \in 1..MaxAttempts /\ plan.attempt + 1 <= attempts
    BY <1>0, <2>2
  <2>4. /\ plan'.at = "submit" /\ plan'.task = plan.task /\ plan'.attempt = plan.attempt + 1
        /\ plan'.reports = plan.reports
    BY <1>0, <2>1
  <2>5. plan' \in [at : {"submit", "done"}, task : 1..NTasks, attempt : 1..MaxAttempts,
                   reports : Seq(TaskReports)]
    BY <1>0, <2>1, <2>3
  <2>6. Completed'
    BY <2>4, CompletedIsKept
  <2>7. file' \in [Runs -> Reports \cup {None}] /\ \A x \in Runs : file'[x] = file[x]
    BY <2>1 DEF TypeOK
  <2>8. \A i \in DOMAIN plan'.reports :
          plan'.reports[i].exit = "success" => earned(plan'.reports[i], step')
    BY <2>4, EarnedIsKept
  <2>9. (plan.attempt <= attempts)'
    BY <1>0, <2>3, <2>4
  <2> QED BY <2>4, <2>5, <2>6, <2>7, <2>8, <2>9
<1>4. CASE taskIsDone(r) /\ (stopsAt(r) \/ plan.task = NTasks)
  <2>1. /\ plan' = [plan EXCEPT !.at = "done", !.reports = reports]
        /\ file' = [file EXCEPT !["plan"] = planReport(reports)]
    BY <1>4 DEF attemptEnds, writeRunPlanReport
  <2>2. planReport(reports) \in Reports /\ trueReport(planReport(reports), step')
    <3> HIDE DEF reports
    <3> QED BY <1>1, <1>2, PlanReportIsTrue
  <2> HIDE DEF reports
  <2>3. /\ plan'.at = "done" /\ plan'.task = plan.task /\ plan'.attempt = plan.attempt
        /\ plan'.reports = reports
    BY <1>0, <2>1
  <2>4. plan' \in [at : {"submit", "done"}, task : 1..NTasks, attempt : 1..MaxAttempts,
                   reports : Seq(TaskReports)]
    BY <1>0, <1>1, <2>1
  <2>5. Completed'
    BY <2>3, CompletedIsKept
  <2>6. file' \in [Runs -> Reports \cup {None}]
    BY <2>1, <2>2 DEF TypeOK
  <2>7. \A x \in Runs : file'[x] = file[x] \/ trueReport(file'[x], step')
    BY <2>1, <2>2 DEF TypeOK
  <2>8. (plan.attempt <= attempts)'
    BY <1>0, <2>3
  <2> QED BY <1>2, <2>3, <2>4, <2>5, <2>6, <2>7, <2>8
<1>5. CASE taskIsDone(r) /\ ~stopsAt(r) /\ plan.task # NTasks
  <2>1. /\ plan' = [at |-> "submit", task |-> plan.task + 1, attempt |-> 1, reports |-> reports]
        /\ UNCHANGED file
    BY <1>5 DEF attemptEnds
  <2>2. plan.task + 1 \in 1..NTasks /\ 1 \in 1..MaxAttempts /\ 1 <= attempts
    BY <1>0, <1>5
  <2> HIDE DEF reports
  <2>3. plan'.at = "submit" /\ plan'.task = plan.task + 1 /\ plan'.attempt = 1 /\ plan'.reports = reports
    BY <2>1
  <2>4. plan' \in [at : {"submit", "done"}, task : 1..NTasks, attempt : 1..MaxAttempts,
                   reports : Seq(TaskReports)]
    BY <1>1, <2>1, <2>2
  <2>5. Completed'
    <3> SUFFICES ASSUME policy.onBlocker, policy.onFailure, NEW e \in 1..plan.task
                 PROVE  \E b \in 1..MaxAttempts : step'[<<e, b>>] \in Succeeded
      <4>1. policy' = policy /\ plan'.task - 1 = plan.task
        BY <1>0, <2>3
      <4> QED BY <4>1 DEF Completed
    <3>1. CASE e = plan.task
      <4>1. r.exit = "success"
        BY <1>5 DEF stopsAt
      <4> QED BY <1>0, <3>1, <4>1
    <3>2. CASE e # plan.task
      <4>1. e \in 1..(plan.task - 1)
        BY <1>0, <3>2
      <4>2. PICK b \in 1..MaxAttempts : step[<<e, b>>] \in Succeeded
        BY <4>1 DEF Completed
      <4>3. <<e, b>> \in StepIds
        BY <1>0, <4>1 DEF StepIds
      <4> QED BY <4>2, <4>3 DEF successKept
    <3> QED BY <3>1, <3>2
  <2>6. file' \in [Runs -> Reports \cup {None}] /\ \A x \in Runs : file'[x] = file[x]
    BY <2>1 DEF TypeOK
  <2>7. (plan.attempt <= attempts)'
    BY <1>0, <2>2, <2>3
  <2> QED BY <1>2, <2>3, <2>4, <2>5, <2>6, <2>7
<1> QED BY <1>3, <1>4, <1>5

\* The cursor of the plan leaves what lies beyond it untouched.
LEMMA CursorMoves ==
  ASSUME TypeOK, Untouched, plan.at \in {"submit", "wait"},
         plan'.task \in 1..NTasks, plan'.attempt \in 1..MaxAttempts,
         \/ plan'.task = plan.task /\ plan'.attempt = plan.attempt /\ plan'.at \notin {"idle", "submit"}
         \/ plan'.task = plan.task /\ plan'.attempt = plan.attempt + 1
         \/ plan'.task = plan.task + 1,
         \A s \in StepIds \ {<<plan.task, plan.attempt>>} : step'[s] = step[s],
         UNCHANGED submit
  PROVE  Untouched'
<1>0. plan.task \in 1..NTasks /\ plan.attempt \in 1..MaxAttempts
  BY DEF TypeOK
<1>1. ASSUME NEW t \in 1..NTasks, NEW a \in 1..MaxAttempts,
             \/ t > plan'.task
             \/ t = plan'.task /\ a > plan'.attempt
             \/ t = plan'.task /\ a = plan'.attempt /\ plan'.at \in {"idle", "submit"}
      PROVE  step'[<<t, a>>] = "none"
  <2>1. t > plan.task \/ (t = plan.task /\ a > plan.attempt)
    BY <1>0, <1>1, LocalExecAssumption
  <2>2. <<t, a>> \in StepIds /\ <<t, a>> # <<plan.task, plan.attempt>>
    BY <1>0, <2>1, LocalExecAssumption DEF StepIds
  <2>3. step[<<t, a>>] = "none"
    BY <2>1 DEF Untouched
  <2> QED BY <2>2, <2>3
<1>2. <<0, 1>> \in StepIds \ {<<plan.task, plan.attempt>>}
  BY <1>0 DEF StepIds
<1>3. submit'.at \in {"idle", "submit"} => step'[<<0, 1>>] = "none"
  BY <1>2 DEF Untouched
<1> QED BY <1>1, <1>3 DEF Untouched

\* A step that only moves the daemon's steps on, none of them back from
\* success and none that was never given.
LEMMA DaemonMoves ==
  ASSUME IInv, successKept, step' \in [StepIds -> StepStates],
         \A s \in StepIds : step[s] = "none" => step'[s] = "none",
         run' \in [Runs -> {"none", "open", "cancelled"}],
         UNCHANGED <<policy, plan, submit, file, reader>>
  PROVE  IInv'
<1>1. TypeOK'
  BY DEF IInv, TypeOK, attempts
<1>2. Untouched'
  <2>1. \A t \in 1..NTasks, a \in 1..MaxAttempts : <<t, a>> \in StepIds
    BY DEF StepIds
  <2>2. <<0, 1>> \in StepIds
    BY DEF StepIds
  <2> QED BY <2>1, <2>2 DEF IInv, Untouched
<1>3. Truthful'
  <2>1. \A i \in DOMAIN plan'.reports :
          plan'.reports[i].exit = "success" => earned(plan'.reports[i], step')
    BY EarnedIsKept DEF IInv
  <2> QED BY <2>1, TruthfulStep DEF IInv
<1>4. Completed'
  BY CompletedIsKept DEF IInv
<1> QED BY <1>1, <1>2, <1>3, <1>4 DEF IInv

\* The daemon and the people it waits for.
LEMMA SettlesInv ==
  ASSUME IInv, NEW s \in StepIds, daemonSettles(s)
  PROVE  IInv'
<1>1. PICK o \in Outcomes : step' = [step EXCEPT ![s] = o]
  BY DEF daemonSettles
<1>2. step[s] = "running" \/ step[s] \in Waiting
  BY DEF daemonSettles
<1>3. step[s] \notin Succeeded \cup {"none"}
  BY <1>2 DEF Waiting, Succeeded
<1>4. step' \in [StepIds -> StepStates] /\ \A x \in StepIds \ {s} : step'[x] = step[x]
  BY <1>1 DEF IInv, TypeOK, StepStates
<1>5. successKept /\ \A x \in StepIds : step[x] = "none" => step'[x] = "none"
  BY <1>3, <1>4 DEF successKept
<1>6. run' = run /\ UNCHANGED <<policy, plan, submit, file, reader>>
  BY DEF daemonSettles
<1>7. run' \in [Runs -> {"none", "open", "cancelled"}]
  BY <1>6 DEF IInv, TypeOK
<1> QED BY <1>4, <1>5, <1>6, <1>7, DaemonMoves

\* CancelRun stops what runs or waits.
LEMMA CancelInv ==
  ASSUME IInv, NEW r \in Runs, CancelRun(r)
  PROVE  IInv'
<1>1. \A x \in StepIds : \/ step'[x] = step[x]
                         \/ step'[x] = "cancelled" /\ step[x] \in {"running"} \cup Waiting
  BY DEF CancelRun
<1>2. step' \in [StepIds -> StepStates]
  BY DEF IInv, TypeOK, StepStates, CancelRun
<1>3. successKept /\ \A x \in StepIds : step[x] = "none" => step'[x] = "none"
  BY <1>1 DEF successKept, Succeeded, Waiting
<1>4. UNCHANGED <<policy, plan, submit, file, reader>>
  BY DEF CancelRun
<1>5. run' \in [Runs -> {"none", "open", "cancelled"}]
  BY DEF CancelRun, IInv, TypeOK
<1> QED BY <1>2, <1>3, <1>4, <1>5, DaemonMoves

\* A step that leaves the steps, the files and the readers alone.
LEMMA QuietMoves ==
  ASSUME IInv, run' \in [Runs -> {"none", "open", "cancelled"}],
         UNCHANGED <<step, policy, file, reader>>,
         plan' \in [at : {"idle", "submit", "wait", "done", "refused", "killed"},
                    task : 1..NTasks, attempt : 1..MaxAttempts, reports : Seq(TaskReports)],
         plan'.task = plan.task, plan'.attempt = plan.attempt, plan'.reports = plan.reports,
         plan.at = "idle" \/ plan'.at \notin {"idle", "submit"} \/ plan' = plan,
         submit' \in [at : {"idle", "submit", "wait", "done", "refused"},
                      run : Runs \cup {None}, wait : BOOLEAN],
         submit'.at \in {"submit", "wait"} => submit'.run \in Runs,
         submit.at = "idle" \/ submit' = submit
  PROVE  IInv'
<1>1. TypeOK'
  BY DEF IInv, TypeOK, attempts
<1>2. Untouched'
  BY DEF IInv, Untouched
<1>3. Truthful' /\ Completed'
  BY DEF IInv, Truthful, Completed
<1> QED BY <1>1, <1>2, <1>3 DEF IInv

\* RunPlan, and a plan that is interrupted.
LEMMA PlanInv ==
  ASSUME IInv, RunPlan \/ planKilled
  PROVE  IInv'
<1> DEFINE PlanType == [at : {"idle", "submit", "wait", "done", "refused", "killed"},
                        task : 1..NTasks, attempt : 1..MaxAttempts, reports : Seq(TaskReports)]
<1>0. plan \in PlanType /\ run \in [Runs -> {"none", "open", "cancelled"}]
  BY DEF IInv, TypeOK
<1>1. UNCHANGED <<step, policy, submit, file, reader>>
  BY DEF RunPlan, planKilled
<1>2. PICK at \in {"submit", "refused", "killed"} :
        plan' = [plan EXCEPT !.at = at] /\ (plan.at = "idle" \/ at = "killed")
  BY DEF RunPlan, planKilled
<1>3. /\ plan' \in PlanType /\ plan'.at = at /\ plan'.task = plan.task
      /\ plan'.attempt = plan.attempt /\ plan'.reports = plan.reports
  BY <1>0, <1>2
<1>4. run' \in [Runs -> {"none", "open", "cancelled"}]
  BY <1>0 DEF RunPlan, planKilled, Runs
<1> QED BY <1>1, <1>2, <1>3, <1>4, QuietMoves DEF IInv, TypeOK

\* Submit begins.
LEMMA SubmitInv ==
  ASSUME IInv, Submit
  PROVE  IInv'
<1>1. PICK r \in Runs, w \in BOOLEAN, a \in {"submit", "refused"} :
        /\ submit' = [at |-> a, run |-> r, wait |-> w]
        /\ \/ run' = [run EXCEPT ![r] = "open"]
           \/ UNCHANGED run
  BY DEF Submit
<1>2. submit.at = "idle" /\ UNCHANGED <<step, policy, plan, file, reader>>
  BY DEF Submit
<1>3. run' \in [Runs -> {"none", "open", "cancelled"}]
  BY <1>1 DEF IInv, TypeOK
<1>4. /\ submit' \in [at : {"idle", "submit", "wait", "done", "refused"},
                      run : Runs \cup {None}, wait : BOOLEAN]
      /\ submit'.run \in Runs
  BY <1>1
<1> QED BY <1>2, <1>3, <1>4, QuietMoves DEF IInv, TypeOK

\* Whatever the report an attempt ends with, if its success was earned.
LEMMA AttemptInv ==
  ASSUME IInv, plan.at \in {"submit", "wait"}, NEW r \in TaskReports, attemptEnds(r),
         r.exit = "success" => /\ r.step = <<plan.task, plan.attempt>>
                               /\ step'[r.step] \in Succeeded,
         successKept, step' \in [StepIds -> StepStates],
         \A s \in StepIds \ {<<plan.task, plan.attempt>>} : step'[s] = step[s],
         UNCHANGED <<run, policy, submit, reader>>
  PROVE  IInv'
<1>1. /\ plan' \in [at : {"submit", "done"}, task : 1..NTasks, attempt : 1..MaxAttempts,
                    reports : Seq(TaskReports)]
      /\ (plan.attempt <= attempts)'
      /\ \/ plan'.task = plan.task /\ plan'.attempt = plan.attempt /\ plan'.at = "done"
         \/ plan'.task = plan.task /\ plan'.attempt = plan.attempt + 1
         \/ plan'.task = plan.task + 1
      /\ \A i \in DOMAIN plan'.reports :
           plan'.reports[i].exit = "success" => earned(plan'.reports[i], step')
      /\ file' \in [Runs -> Reports \cup {None}]
      /\ \A x \in Runs : file'[x] = file[x] \/ trueReport(file'[x], step')
      /\ Completed'
  BY AttemptEnds DEF IInv
<1>2. plan' \in [at : {"idle", "submit", "wait", "done", "refused", "killed"},
                 task : 1..NTasks, attempt : 1..MaxAttempts, reports : Seq(TaskReports)]
  BY <1>1
<1>3. TypeOK'
  BY <1>1, <1>2 DEF IInv, TypeOK
<1>4. plan'.task \in 1..NTasks /\ plan'.attempt \in 1..MaxAttempts
  BY <1>1
<1>5. Untouched'
  BY <1>1, <1>4, CursorMoves DEF IInv
<1>6. Truthful'
  BY <1>1, TruthfulStep DEF IInv
<1> QED BY <1>1, <1>3, <1>5, <1>6 DEF IInv

\* executeManifestTask: the step it hands out was never given before.
LEMMA ExecuteInv ==
  ASSUME IInv, executeManifestTask
  PROVE  IInv'
<1> DEFINE s == <<plan.task, plan.attempt>>
<1>1. /\ plan.at = "submit" /\ UNCHANGED <<run, policy, submit, reader>>
      /\ s \in StepIds /\ step[s] = "none" /\ step \in [StepIds -> StepStates]
  BY LocalExecAssumption DEF executeManifestTask, IInv, TypeOK, StepIds, Untouched
<1>2. ASSUME step' = [step EXCEPT ![s] = "running"]
      PROVE  /\ successKept /\ step' \in [StepIds -> StepStates]
             /\ \A x \in StepIds \ {s} : step'[x] = step[x]
  <2> HIDE DEF s
  <2>1. step' \in [StepIds -> StepStates] /\ \A x \in StepIds \ {s} : step'[x] = step[x]
    BY <1>1, <1>2 DEF StepStates
  <2>2. step[s] \notin Succeeded
    BY <1>1 DEF Succeeded
  <2> QED BY <2>1, <2>2 DEF successKept
<1>3. ASSUME UNCHANGED step
      PROVE  /\ successKept /\ step' \in [StepIds -> StepStates]
             /\ \A x \in StepIds \ {s} : step'[x] = step[x]
  BY <1>1, <1>3 DEF successKept
<1>4. CASE attemptEnds(unusableTaskReport) /\ UNCHANGED step
  BY <1>1, <1>3, <1>4, ErrorReport, AttemptInv
<1>5. CASE step' = [step EXCEPT ![s] = "running"] /\ plan' = [plan EXCEPT !.at = "wait"] /\ UNCHANGED file
  <2>1. /\ plan' \in [at : {"idle", "submit", "wait", "done", "refused", "killed"},
                      task : 1..NTasks, attempt : 1..MaxAttempts, reports : Seq(TaskReports)]
        /\ plan'.at = "wait" /\ plan'.task = plan.task /\ plan'.attempt = plan.attempt
        /\ plan'.reports = plan.reports
        /\ plan.task \in 1..NTasks /\ plan.attempt \in 1..MaxAttempts
    BY <1>5 DEF IInv, TypeOK
  <2>2. /\ successKept /\ step' \in [StepIds -> StepStates]
        /\ \A x \in StepIds \ {s} : step'[x] = step[x]
    BY <1>2, <1>5
  <2>3. TypeOK'
    BY <1>1, <1>5, <2>1, <2>2 DEF IInv, TypeOK, attempts
  <2>4. Untouched'
    BY <1>1, <2>1, <2>2, CursorMoves DEF IInv
  <2>5. \A i \in DOMAIN plan'.reports :
          plan'.reports[i].exit = "success" => earned(plan'.reports[i], step')
    BY <2>1, <2>2, EarnedIsKept DEF IInv
  <2>6. Truthful'
    BY <1>1, <1>5, <2>2, <2>5, TruthfulStep DEF IInv
  <2>7. Completed'
    BY <1>1, <2>1, <2>2, CompletedIsKept DEF IInv
  <2> QED BY <2>3, <2>4, <2>6, <2>7 DEF IInv
<1>6. CASE step' = [step EXCEPT ![s] = "running"] /\ attemptEnds(daemonTaskReport("bridge_error"))
  <2>1. /\ successKept /\ step' \in [StepIds -> StepStates]
        /\ \A x \in StepIds \ {s} : step'[x] = step[x]
    BY <1>2, <1>6
  <2>2. "bridge_error" \in daemonErrors
    BY DEF daemonErrors
  <2> QED BY <1>1, <1>6, <2>1, <2>2, ErrorReport, AttemptInv
<1>7. ASSUME NEW k \in daemonErrors, attemptEnds(daemonTaskReport(k)), UNCHANGED step
      PROVE  IInv'
  <2>1. /\ successKept /\ step' \in [StepIds -> StepStates]
        /\ \A x \in StepIds \ {s} : step'[x] = step[x]
    BY <1>3, <1>7
  <2> QED BY <1>1, <1>7, <2>1, ErrorReport, AttemptInv
<1> QED BY <1>4, <1>5, <1>6, <1>7 DEF executeManifestTask

\* waitForTask
LEMMA WaitInv ==
  ASSUME IInv, waitForTask
  PROVE  IInv'
<1> DEFINE s == <<plan.task, plan.attempt>>
<1>1. /\ plan.at = "wait" /\ UNCHANGED <<run, step, policy, submit, reader>>
      /\ s \in StepIds /\ step \in [StepIds -> StepStates]
  BY LocalExecAssumption DEF waitForTask, IInv, TypeOK, StepIds
<1>2. PICK r \in waitReports(s) : attemptEnds(r)
  BY DEF waitForTask
<1>3. r \in TaskReports /\ (r.exit = "success" => r.step = s /\ step[s] \in Succeeded)
  <2> HIDE DEF s
  <2> QED BY <1>1, WaitReport
<1>4. successKept
  BY <1>1 DEF successKept
<1> QED BY <1>1, <1>2, <1>3, <1>4, AttemptInv

\* Submit's own step is handed out once, and its report written.
LEMMA SubmitMoves ==
  ASSUME IInv, submit.at \in {"submit", "wait"},
         step' \in [StepIds -> StepStates], \A x \in StepIds \ {<<0, 1>>} : step'[x] = step[x],
         step'[<<0, 1>>] = step[<<0, 1>>] \/ step[<<0, 1>>] = "none",
         submit' \in [at : {"wait", "done", "refused"}, run : Runs \cup {None}, wait : BOOLEAN],
         submit'.run = submit.run,
         UNCHANGED <<run, policy, plan, reader>>,
         \/ UNCHANGED file
         \/ \E f \in Reports : trueReport(f, step') /\ file' = [file EXCEPT ![submit.run] = f]
  PROVE  IInv'
<1>0. <<0, 1>> \in StepIds /\ submit.run \in Runs /\ file \in [Runs -> Reports \cup {None}]
  BY DEF StepIds, IInv, TypeOK
<1>1. successKept
  <2>1. "none" \notin Succeeded
    BY DEF Succeeded
  <2> QED BY <2>1 DEF successKept
<1>2. file' \in [Runs -> Reports \cup {None}]
  BY <1>0
<1>3. \A r \in Runs : file'[r] = file[r] \/ trueReport(file'[r], step')
  BY <1>0
<1>4. submit' \in [at : {"idle", "submit", "wait", "done", "refused"},
                   run : Runs \cup {None}, wait : BOOLEAN]
  OBVIOUS
<1>5. TypeOK'
  BY <1>0, <1>2, <1>4 DEF IInv, TypeOK, attempts
<1>6. Untouched'
  <2>1. \A t \in 1..NTasks, a \in 1..MaxAttempts : <<t, a>> \in StepIds \ {<<0, 1>>}
    BY LocalExecAssumption DEF StepIds
  <2>2. submit'.at \notin {"idle", "submit"}
    OBVIOUS
  <2> QED BY <2>1, <2>2 DEF IInv, Untouched
<1>7. \A i \in DOMAIN plan'.reports :
        plan'.reports[i].exit = "success" => earned(plan'.reports[i], step')
  BY <1>1, EarnedIsKept DEF IInv
<1>8. Truthful'
  BY <1>1, <1>3, <1>7, TruthfulStep DEF IInv
<1>9. Completed'
  BY <1>1, CompletedIsKept DEF IInv
<1> QED BY <1>5, <1>6, <1>8, <1>9 DEF IInv

\* submitTask
LEMMA SubmitTaskInv ==
  ASSUME IInv, submitTask
  PROVE  IInv'
<1> DEFINE S == [at : {"wait", "done", "refused"}, run : Runs \cup {None}, wait : BOOLEAN]
<1>0. /\ submit.at = "submit" /\ UNCHANGED <<run, policy, plan, reader>>
      /\ <<0, 1>> \in StepIds /\ step[<<0, 1>>] = "none" /\ step \in [StepIds -> StepStates]
      /\ submit \in [at : {"idle", "submit", "wait", "done", "refused"},
                     run : Runs \cup {None}, wait : BOOLEAN]
  BY DEF submitTask, IInv, TypeOK, StepIds, Untouched
<1>1. PICK at \in {"wait", "done", "refused"} : submit' = [submit EXCEPT !.at = at]
  BY DEF submitTask
<1>2. submit' \in S /\ submit'.run = submit.run
  BY <1>0, <1>1
<1>3. step' = [step EXCEPT ![<<0, 1>>] = "running"] \/ UNCHANGED step
  BY DEF submitTask
<1>4. step' \in [StepIds -> StepStates] /\ \A x \in StepIds \ {<<0, 1>>} : step'[x] = step[x]
  BY <1>0, <1>3 DEF StepStates
<1>5. CASE UNCHANGED file
  BY <1>0, <1>2, <1>4, <1>5, SubmitMoves
<1>6. CASE ~UNCHANGED file
  <2> DEFINE r == taskReportFromStep(<<0, 1>>, "running", noBlocker)
  <2>1. file' = [file EXCEPT ![submit.run] = submitReport(r)]
    BY <1>6 DEF submitTask, writeRunPlanReport
  <2>2. noBlocker \in Blockers /\ "running" \in StepStates
    BY DEF noBlocker, Blockers, BlockerTypes, ExitCodes, StepStates
  <2>3. r \in TaskReports /\ r.step = <<0, 1>>
    BY <1>0, <2>2, StepReport
  <2>4. r.status = "running"
    BY DEF taskReportFromStep, noBlocker
  <2>5. ~terminalReportStatus(r.status)
    BY <2>4 DEF terminalReportStatus, Succeeded
  <2> HIDE DEF r
  <2>6. r.step # None
    BY <1>0, <2>3, LocalExecAssumption
  <2>7. submitReport(r) \in Reports /\ trueReport(submitReport(r), step')
    BY <2>3, <2>5, <2>6, SubmitReportIsTrue
  <2> QED BY <1>0, <1>2, <1>4, <2>1, <2>7, SubmitMoves
<1> QED BY <1>5, <1>6

\* writeSubmitRunReport
LEMMA SubmitReportInv ==
  ASSUME IInv, writeSubmitRunReport
  PROVE  IInv'
<1>0. /\ submit.at = "wait" /\ UNCHANGED <<run, step, policy, plan, reader>>
      /\ <<0, 1>> \in StepIds /\ step \in [StepIds -> StepStates]
      /\ submit \in [at : {"idle", "submit", "wait", "done", "refused"},
                     run : Runs \cup {None}, wait : BOOLEAN]
  BY DEF writeSubmitRunReport, IInv, TypeOK, StepIds
<1>1. PICK r \in waitReports(<<0, 1>>) : file' = [file EXCEPT ![submit.run] = submitReport(r)]
  BY DEF writeSubmitRunReport, writeRunPlanReport
<1>2. r \in TaskReports /\ (r.exit = "success" => r.step = <<0, 1>> /\ step[<<0, 1>>] \in Succeeded)
  BY <1>0, WaitReport
<1>3. submitReport(r) \in Reports /\ trueReport(submitReport(r), step')
  BY <1>0, <1>2, SubmitReportIsTrue, LocalExecAssumption
<1>4. /\ submit' \in [at : {"wait", "done", "refused"}, run : Runs \cup {None}, wait : BOOLEAN]
      /\ submit'.run = submit.run
  BY <1>0 DEF writeSubmitRunReport
<1> QED BY <1>0, <1>1, <1>3, <1>4, SubmitMoves

\* A step of one reader keeps the invariant if its copy is true, and what it
\* writes as well.
LEMMA ReaderMoves ==
  ASSUME IInv, NEW i \in Readers, UNCHANGED <<run, step, policy, plan, submit>>,
         NEW c \in [at : {"idle", "refresh", "write"}, run : Runs \cup {None},
                    copy : Reports \cup {None}],
         reader' = [reader EXCEPT ![i] = c],
         c.at # "idle" => c.run \in Runs /\ c.copy \in Reports /\ trueReport(c.copy, step),
         file' \in [Runs -> Reports \cup {None}],
         \A r \in Runs : file'[r] = file[r] \/ trueReport(file'[r], step)
  PROVE  IInv'
<1>1. /\ reader' \in [Readers -> [at : {"idle", "refresh", "write"}, run : Runs \cup {None},
                                  copy : Reports \cup {None}]]
      /\ reader'[i] = c /\ \A j \in Readers \ {i} : reader'[j] = reader[j]
  BY DEF IInv, TypeOK
<1>2. TypeOK'
  BY <1>1 DEF IInv, TypeOK, attempts
<1>3. Untouched' /\ Completed'
  BY DEF IInv, Untouched, Completed
<1>4. successKept
  BY DEF successKept
<1>5. \A j \in DOMAIN plan'.reports :
        plan'.reports[j].exit = "success" => earned(plan'.reports[j], step')
  BY <1>4, EarnedIsKept DEF IInv
<1>6. Truthful'
  BY <1>1, <1>4, <1>5, TruthfulStep DEF IInv
<1> QED BY <1>2, <1>3, <1>6 DEF IInv

\* The reader that has nothing in hand.
LEMMA IdleReader ==
  /\ [at |-> "idle", run |-> None, copy |-> None] \in
       [at : {"idle", "refresh", "write"}, run : Runs \cup {None}, copy : Reports \cup {None}]
  /\ [at |-> "idle", run |-> None, copy |-> None].at = "idle"
OBVIOUS

\* GetRunPlanReport reads a report that is not final.
LEMMA ReadInv ==
  ASSUME IInv, NEW i \in Readers, NEW r \in Runs, GetRunPlanReport(i, r)
  PROVE  IInv'
<1> DEFINE c == [at |-> "refresh", run |-> r, copy |-> file[r]]
<1>1. /\ file[r] # None /\ reader' = [reader EXCEPT ![i] = c]
      /\ UNCHANGED <<run, step, policy, plan, submit, file>>
  BY DEF GetRunPlanReport
<1>2. file[r] \in Reports /\ trueReport(file[r], step)
  BY <1>1 DEF IInv, TypeOK, Truthful
<1>3. /\ c \in [at : {"idle", "refresh", "write"}, run : Runs \cup {None},
                copy : Reports \cup {None}]
      /\ c.run = r /\ c.copy = file[r]
  BY <1>2
<1>4. file' \in [Runs -> Reports \cup {None}] /\ \A x \in Runs : file'[x] = file[x]
  BY <1>1 DEF IInv, TypeOK
<1> HIDE DEF c
<1> QED BY <1>1, <1>2, <1>3, <1>4, ReaderMoves

\* refreshNonTerminalRunPlanReport makes a true report of a true copy.
LEMMA RefreshInv ==
  ASSUME IInv, NEW i \in Readers, refreshNonTerminalRunPlanReport(i)
  PROVE  IInv'
<1> DEFINE q == reader[i].copy.tasks
<1>0. /\ reader[i].at = "refresh" /\ UNCHANGED <<run, step, policy, plan, submit, file>>
      /\ reader[i].run \in Runs /\ reader[i].copy \in Reports /\ trueReport(reader[i].copy, step)
      /\ reader \in [Readers -> [at : {"idle", "refresh", "write"}, run : Runs \cup {None},
                                 copy : Reports \cup {None}]]
  BY DEF refreshNonTerminalRunPlanReport, IInv, TypeOK, Truthful
<1>1. file' \in [Runs -> Reports \cup {None}] /\ \A x \in Runs : file'[x] = file[x]
  BY <1>0 DEF IInv, TypeOK
<1>2. CASE reader' = [reader EXCEPT ![i] = [at |-> "idle", run |-> None, copy |-> None]]
  <2> DEFINE c == [at |-> "idle", run |-> None, copy |-> None]
  <2>1. /\ c \in [at : {"idle", "refresh", "write"}, run : Runs \cup {None},
                  copy : Reports \cup {None}]
        /\ c.at = "idle" /\ reader' = [reader EXCEPT ![i] = c]
    BY <1>2, IdleReader
  <2> HIDE DEF c
  <2> QED BY <1>0, <1>1, <2>1, ReaderMoves
<1>3. ASSUME NEW again \in [DOMAIN q -> UNION { refreshTaskReport(q[k]) : k \in DOMAIN q }],
             \A k \in DOMAIN q : again[k] \in refreshTaskReport(q[k]),
             reader' = [reader EXCEPT ![i].at = "write",
                                      ![i].copy = applyTaskReportsToRunPlan(again)]
      PROVE  IInv'
  <2> DEFINE f == applyTaskReportsToRunPlan(again)
             c == [reader[i] EXCEPT !.at = "write", !.copy = f]
  <2>1. /\ q \in Seq(TaskReports) /\ q # << >>
        /\ \A k \in DOMAIN q : q[k] \in TaskReports /\ trueTask(q[k], step)
    BY <1>0 DEF Reports, trueReport
  <2>2. \A k \in DOMAIN q : again[k] \in TaskReports /\ trueTask(again[k], step)
    <3> SUFFICES ASSUME NEW k \in DOMAIN q
                 PROVE  again[k] \in TaskReports /\ trueTask(again[k], step)
      OBVIOUS
    <3>1. again[k] \in refreshTaskReport(q[k]) /\ q[k] \in TaskReports /\ trueTask(q[k], step)
      BY <1>3, <2>1
    <3>2. step \in [StepIds -> StepStates]
      BY DEF IInv, TypeOK
    <3> HIDE DEF q
    <3> QED BY <3>1, <3>2, RefreshedTask
  <2>3. again \in Seq(TaskReports) /\ again # << >> /\ DOMAIN again = DOMAIN q
    <3> HIDE DEF q
    <3>1. DOMAIN again = DOMAIN q
      OBVIOUS
    <3>2. DOMAIN q = 1..Len(q) /\ Len(q) \in Nat /\ Len(q) # 0
      BY <2>1
    <3>3. again \in [1..Len(q) -> TaskReports]
      BY <2>2, <3>1, <3>2
    <3>4. again \in Seq(TaskReports)
      BY <3>2, <3>3
    <3>5. DOMAIN again # {}
      BY <3>1, <3>2
    <3> QED BY <3>1, <3>4, <3>5
  <2>4. f \in Reports /\ trueReport(f, step)
    <3> HIDE DEF q
    <3> QED BY <2>2, <2>3, AppliedReportIsTrue
  <2> HIDE DEF f
  <2>5. reader' = [reader EXCEPT ![i] = c]
    <3>1. reader' = [reader EXCEPT ![i].at = "write", ![i].copy = f]
      BY <1>3 DEF f
    <3>2. reader' = [reader EXCEPT ![i] = [reader[i] EXCEPT !.at = "write", !.copy = f]]
      BY <1>0, <3>1
    <3> QED BY <3>2
  <2>6. /\ c \in [at : {"idle", "refresh", "write"}, run : Runs \cup {None},
                  copy : Reports \cup {None}]
        /\ c.run \in Runs /\ c.copy = f
    <3> DEFINE e == reader[i]
    <3>1. /\ e \in [at : {"idle", "refresh", "write"}, run : Runs \cup {None},
                    copy : Reports \cup {None}]
          /\ e.run \in Runs
      BY <1>0
    <3>2. c = [e EXCEPT !.at = "write", !.copy = f]
      OBVIOUS
    <3> HIDE DEF e, c
    <3> QED BY <2>4, <3>1, <3>2
  <2> HIDE DEF c
  <2> QED BY <1>0, <1>1, <2>4, <2>5, <2>6, ReaderMoves
<1> QED BY <1>2, <1>3 DEF refreshNonTerminalRunPlanReport

\* writeRefreshed puts the copy in the place of whatever the file holds.
LEMMA WriteInv ==
  ASSUME IInv, NEW i \in Readers, writeRefreshed(i)
  PROVE  IInv'
<1> DEFINE c == [at |-> "idle", run |-> None, copy |-> None]
<1>1. /\ reader[i].at = "write" /\ UNCHANGED <<run, step, policy, plan, submit>>
      /\ file' = [file EXCEPT ![reader[i].run] = reader[i].copy]
      /\ reader' = [reader EXCEPT ![i] = c]
  BY DEF writeRefreshed, writeRunPlanReport
<1>2. reader[i].run \in Runs /\ reader[i].copy \in Reports /\ trueReport(reader[i].copy, step)
  BY <1>1 DEF IInv, TypeOK, Truthful
<1>3. /\ file' \in [Runs -> Reports \cup {None}]
      /\ \A r \in Runs : file'[r] = file[r] \/ trueReport(file'[r], step)
  BY <1>1, <1>2 DEF IInv, TypeOK
<1>4. /\ c \in [at : {"idle", "refresh", "write"}, run : Runs \cup {None},
                copy : Reports \cup {None}]
      /\ c.at = "idle"
  BY IdleReader
<1> HIDE DEF c
<1> QED BY <1>1, <1>3, <1>4, ReaderMoves

-----------------------------------------------------------------------------
(* The specification *)

\* Nothing has been handed out or reported yet.
LEMMA InitInv == Init => IInv
<1> SUFFICES ASSUME Init PROVE IInv
  OBVIOUS
<1>1. PICK sc \in Scenarios : policy = sc[1] /\ callers = sc[2]
  BY DEF Init
<1>2. policy \in Policies
  BY <1>1, LocalExecAssumption
<1>3. plan \in [at : {"idle", "submit", "wait", "done", "refused", "killed"},
                task : 1..NTasks, attempt : 1..MaxAttempts, reports : Seq(TaskReports)]
  BY LocalExecAssumption DEF Init
<1>4. plan.attempt <= attempts
  BY LocalExecAssumption DEF Init, attempts
<1>5. /\ submit \in [at : {"idle", "submit", "wait", "done", "refused"},
                     run : Runs \cup {None}, wait : BOOLEAN]
      /\ submit.at = "idle"
  BY DEF Init
<1>6. /\ reader \in [Readers -> [at : {"idle", "refresh", "write"}, run : Runs \cup {None},
                                 copy : Reports \cup {None}]]
      /\ \A i \in Readers : reader[i].at = "idle"
  BY DEF Init
<1>7. /\ run \in [Runs -> {"none", "open", "cancelled"}]
      /\ step \in [StepIds -> StepStates]
      /\ file \in [Runs -> Reports \cup {None}]
  BY DEF Init, StepStates
<1>8. TypeOK
  BY <1>2, <1>3, <1>4, <1>5, <1>6, <1>7 DEF TypeOK
<1>9. Untouched
  BY DEF Init, Untouched, StepIds
<1>10. Truthful /\ Completed
  BY <1>6, LocalExecAssumption DEF Init, Truthful, Completed
<1> QED BY <1>8, <1>9, <1>10 DEF IInv

\* Every step keeps the invariant.
LEMMA NextInv == IInv /\ [Next]_vars => IInv'
<1> SUFFICES ASSUME IInv, [Next]_vars PROVE IInv'
  OBVIOUS
<1>1. CASE UNCHANGED vars
  BY <1>1 DEF vars, IInv, TypeOK, attempts, Untouched, Truthful, Completed
<1> QED
  BY <1>1, SettlesInv, CancelInv, PlanInv, ExecuteInv, WaitInv, SubmitInv, SubmitTaskInv,
     SubmitReportInv, ReadInv, RefreshInv, WriteInv DEF Next

\* The plan, the submission, the files and the readers keep their types.
THEOREM TypeCorrect == Spec => []TypeOK
<1>1. IInv => TypeOK
  BY DEF IInv
<1> QED BY <1>1, InitInv, NextInv, PTL DEF Spec

\* A report file that says success is true, for any manifest and however many
\* readers put older copies back (taskReportFromStep, applyTaskReportsToRunPlan,
\* RunPlan).
THEOREM SuccessesAreReal == Spec => []SuccessIsReal
<1>1. IInv => SuccessIsReal
  BY DEF IInv, Truthful, trueReport, earned, SuccessIsReal
<1> QED BY <1>1, InitInv, NextInv, PTL DEF Spec

\* Under a strict policy no task is begun before all earlier ones were
\* completed, for any number of tasks and attempts (RunPlan).
THEOREM PlanStopsInTime == Spec => []NothingAfterStop
<1>1. ASSUME IInv PROVE NothingAfterStop
  <2> SUFFICES ASSUME policy.onBlocker, policy.onFailure, NEW t \in 1..NTasks,
                      NEW a \in 1..MaxAttempts, step[<<t, a>>] # "none", NEW e \in 1..(t - 1)
               PROVE  \E b \in 1..MaxAttempts : step[<<e, b>>] \in Succeeded
    BY DEF NothingAfterStop
  <2>1. t <= plan.task
    BY <1>1, LocalExecAssumption DEF IInv, TypeOK, Untouched
  <2>2. e \in 1..(plan.task - 1)
    BY <1>1, <2>1, LocalExecAssumption DEF IInv, TypeOK
  <2> QED BY <1>1, <2>2 DEF IInv, Completed
<1> QED BY <1>1, InitInv, NextInv, PTL DEF Spec

-----------------------------------------------------------------------------
(* Attempts on an Antigravity language server.                             *)

\* Where an attempt is, and how it ends.
AdapterPC == {"new", "starting", "sending", "polling", "inspecting", "inspectingIdle",
              "approving", "approvingIdle", "collecting", "normalizing", "done"}
Surfaced == {"needs_manual_attention", "failed_adapter", "failed_bridge"}
Results == Surfaced \cup {"none", "completed", "failed_terminal", "cancelled"}
Adapters == [pc : AdapterPC, inst : Agents \cup {NoOne}, blocked : BOOLEAN,
             approved : BOOLEAN, result : Results]

\* The adapter remembers that it was blocked until it has a result, and through
\* the broker nobody looks at the requests at all.
AgentInv ==
  /\ attempt \in [Attempts -> Adapters]
  /\ binding \in Agents \cup {NoOne}
  /\ refused \subseteq Attempts
  /\ agentMode # "direct" =>
       /\ refused = {}
       /\ \A a \in Attempts :
            attempt[a].pc \in {"new", "polling", "collecting", "normalizing", "done"}
  /\ \A a \in Attempts : attempt[a].pc # "done" => attempt[a].result = "none"
  /\ \A a \in refused :
       \/ attempt[a].pc \in {"collecting", "normalizing"} /\ attempt[a].blocked
       \/ attempt[a].pc = "done" /\ attempt[a].result \in Surfaced

\* What a step may do to the adapter's side of one attempt.
moves(a, w) ==
  /\ attempt' = [attempt EXCEPT ![a] = w]
  /\ w \in Adapters
  /\ w.pc # "done" => w.result = "none"
  /\ agentMode # "direct" => w.pc \in {"new", "polling", "collecting", "normalizing", "done"}
  /\ a \in refused' =>
       \/ w.pc \in {"collecting", "normalizing"} /\ w.blocked
       \/ w.pc = "done" /\ w.result \in Surfaced

\* Such a step preserves the invariant.
LEMMA MovesInv ==
  ASSUME AgentInv, NEW a \in Attempts, NEW w, moves(a, w),
         UNCHANGED <<agentMode, binding>>,
         \/ refused' = refused
         \/ refused' = refused \cup {a} /\ agentMode = "direct"
  PROVE  AgentInv'
<1>1. /\ attempt'[a] = w /\ \A b \in Attempts : b # a => attempt'[b] = attempt[b]
      /\ attempt' \in [Attempts -> Adapters]
  BY DEF AgentInv, moves
<1>2. /\ refused' \subseteq Attempts
      /\ agentMode' # "direct" => refused' = {}
      /\ \A b \in refused' : b # a => b \in refused
  BY DEF AgentInv
<1>3. \A b \in refused' :
        \/ attempt'[b].pc \in {"collecting", "normalizing"} /\ attempt'[b].blocked
        \/ attempt'[b].pc = "done" /\ attempt'[b].result \in Surfaced
  BY <1>1, <1>2 DEF AgentInv, moves
<1>4. \A b \in Attempts :
        /\ attempt'[b].pc # "done" => attempt'[b].result = "none"
        /\ agentMode' # "direct" =>
             attempt'[b].pc \in {"new", "polling", "collecting", "normalizing", "done"}
  BY <1>1 DEF AgentInv, moves
<1> QED BY <1>1, <1>2, <1>3, <1>4 DEF AgentInv

\* A recorded end preserves it, if it surfaces what was refused.
LEMMA EndsInv ==
  ASSUME AgentInv, NEW a \in Attempts, NEW r \in Results \ {"none"}, ends(a, r),
         a \in refused => r \in Surfaced,
         UNCHANGED <<agentMode, binding, refused>>
  PROVE  AgentInv'
<1> DEFINE w == [Fresh EXCEPT !.pc = "done", !.result = r]
<1>1. Fresh \in Adapters
  BY DEF Fresh, Adapters, AdapterPC, Results
<1>2. w \in Adapters /\ w.pc = "done" /\ w.result = r
  BY <1>1 DEF Adapters, AdapterPC
<1>3. attempt' = [attempt EXCEPT ![a] = w]
  BY DEF ends
<1> HIDE DEF w
<1>4. moves(a, w)
  BY <1>2, <1>3 DEF moves
<1> QED BY <1>4, MovesInv

\* So does a move to another place, of an attempt that was not refused or that
\* stays on the way to its result.
LEMMA ToInv ==
  ASSUME AgentInv, NEW a \in Attempts, NEW pc \in AdapterPC \ {"done"}, to(a, pc),
         attempt[a].pc # "done",
         agentMode # "direct" => pc \in {"new", "polling", "collecting", "normalizing"},
         a \in refused => pc \in {"collecting", "normalizing"},
         UNCHANGED <<agentMode, binding, refused>>
  PROVE  AgentInv'
<1> DEFINE w == [attempt[a] EXCEPT !.pc = pc]
<1>1. /\ attempt' = [attempt EXCEPT ![a] = w] /\ attempt[a] \in Adapters
      /\ attempt[a].result = "none"
  BY DEF to, AgentInv
<1>2. /\ w \in Adapters /\ w.pc = pc /\ w.result = "none"
      /\ w.blocked = attempt[a].blocked
  BY <1>1 DEF Adapters
<1>3. a \in refused => attempt[a].blocked
  BY DEF AgentInv
<1> HIDE DEF w
<1>4. moves(a, w)
  BY <1>1, <1>2, <1>3 DEF moves
<1> QED BY <1>4, MovesInv

\* Every step preserves the invariant.
LEMMA AgentStepInv == AgentInv /\ [agentStep]_agentVars => AgentInv'
<1> SUFFICES ASSUME AgentInv, [agentStep]_agentVars PROVE AgentInv'
  OBVIOUS
<1>0. /\ attempt \in [Attempts -> Adapters]
      /\ binding \in Agents \cup {NoOne}
      /\ {"failed_adapter", "failed_bridge"} \subseteq Results \ {"none"}
      /\ {"failed_adapter", "failed_bridge"} \subseteq Surfaced
  BY DEF AgentInv, Results, Surfaced
<1>1. ASSUME UNCHANGED <<agentMode, attempt, refused>>, binding' \in Agents \cup {NoOne}
      PROVE  AgentInv'
  BY <1>1 DEF AgentInv
<1>2. CASE Bind \/ Unbind
  BY <1>1, <1>2 DEF Bind, Unbind
<1>3. CASE brokerRestarts \/ serverExits
  BY <1>0, <1>1, <1>3 DEF brokerRestarts, serverExits
<1>4. ASSUME NEW a \in Attempts, GetBinding(a)
      PROVE  AgentInv'
  <2>1. CASE ends(a, "failed_adapter")
    BY <1>0, <1>4, <2>1, EndsInv DEF GetBinding
  <2>2. CASE attempt' = [attempt EXCEPT ![a] = [@ EXCEPT !.pc = "starting", !.inst = binding]]
    <3> DEFINE w == [attempt[a] EXCEPT !.pc = "starting", !.inst = binding]
    <3>1. /\ attempt' = [attempt EXCEPT ![a] = w] /\ attempt[a] \in Adapters
          /\ attempt[a].result = "none" /\ a \notin refused /\ agentMode = "direct"
          /\ UNCHANGED <<agentMode, binding, refused>>
      BY <1>4, <2>2 DEF AgentInv, GetBinding
    <3>2. w \in Adapters /\ w.pc = "starting" /\ w.result = "none"
      BY <1>0, <3>1 DEF Adapters, AdapterPC
    <3> HIDE DEF w
    <3>3. moves(a, w)
      BY <3>1, <3>2 DEF moves
    <3> QED BY <3>1, <3>3, MovesInv
  <2> QED BY <1>4, <2>1, <2>2 DEF GetBinding
<1>5. ASSUME NEW a \in Attempts, StartCascade(a)
      PROVE  AgentInv'
  <2>1. /\ attempt[a].pc = "starting" /\ a \notin refused /\ agentMode = "direct"
        /\ UNCHANGED <<agentMode, binding, refused>>
        /\ to(a, "sending") \/ ends(a, "failed_adapter")
    BY <1>5 DEF StartCascade, AgentInv
  <2> QED BY <1>0, <2>1, EndsInv, ToInv DEF AdapterPC
<1>6. ASSUME NEW a \in Attempts, SendUserCascadeMessage(a)
      PROVE  AgentInv'
  <2>1. /\ attempt[a].pc = "sending" /\ a \notin refused /\ agentMode = "direct"
        /\ UNCHANGED <<agentMode, binding, refused>>
        /\ to(a, "polling") \/ ends(a, "failed_adapter")
    BY <1>6 DEF SendUserCascadeMessage, AgentInv
  <2> QED BY <1>0, <2>1, EndsInv, ToInv DEF AdapterPC
<1>7. ASSUME NEW a \in Attempts, Poll(a)
      PROVE  AgentInv'
  <2>1. /\ attempt[a].pc = "polling" /\ a \notin refused /\ agentMode = "direct"
        /\ UNCHANGED <<agentMode, binding, refused>>
        /\ \/ \E pc \in {"inspecting", "inspectingIdle", "collecting"} : to(a, pc)
           \/ ends(a, "failed_adapter")
    BY <1>7 DEF Poll, AgentInv
  <2> QED BY <1>0, <2>1, EndsInv, ToInv DEF AdapterPC
<1>8. ASSUME NEW a \in Attempts, inspectAndApprovePendingInteractions(a)
      PROVE  AgentInv'
  <2>1. /\ attempt[a].pc \in {"inspecting", "inspectingIdle"} /\ a \notin refused
        /\ agentMode = "direct" /\ UNCHANGED <<agentMode, binding>>
    BY <1>8 DEF inspectAndApprovePendingInteractions, AgentInv
  <2>2. CASE ends(a, "failed_adapter") /\ UNCHANGED refused
    BY <1>0, <2>1, <2>2, EndsInv
  <2>3. CASE /\ \E pc \in {"approving", "approvingIdle", "polling", "collecting"} : to(a, pc)
             /\ UNCHANGED refused
    BY <2>1, <2>3, ToInv DEF AdapterPC
  <2>4. CASE /\ attempt' = [attempt EXCEPT ![a] = [@ EXCEPT !.pc = "collecting", !.blocked = TRUE]]
             /\ refused' = refused \cup {a}
    <3> DEFINE w == [attempt[a] EXCEPT !.pc = "collecting", !.blocked = TRUE]
    <3>1. /\ attempt' = [attempt EXCEPT ![a] = w] /\ attempt[a] \in Adapters
          /\ attempt[a].result = "none"
      BY <2>1, <2>4 DEF AgentInv
    <3>2. w \in Adapters /\ w.pc = "collecting" /\ w.result = "none" /\ w.blocked
      BY <3>1 DEF Adapters, AdapterPC
    <3> HIDE DEF w
    <3>3. moves(a, w)
      BY <3>1, <3>2 DEF moves
    <3> QED BY <2>1, <2>4, <3>3, MovesInv
  <2> QED BY <1>8, <2>2, <2>3, <2>4 DEF inspectAndApprovePendingInteractions
<1>9. ASSUME NEW a \in Attempts, HandleCascadeUserInteraction(a)
      PROVE  AgentInv'
  <2>1. /\ attempt[a].pc \in {"approving", "approvingIdle"} /\ a \notin refused
        /\ agentMode = "direct" /\ UNCHANGED <<agentMode, binding, refused>>
    BY <1>9 DEF HandleCascadeUserInteraction, AgentInv
  <2>2. CASE ends(a, "failed_adapter")
    BY <1>0, <2>1, <2>2, EndsInv
  <2>3. CASE attempt' = [attempt EXCEPT ![a] =
                [@ EXCEPT !.approved = TRUE, !.pc = IF attempt[a].pc = "approving" THEN "polling" ELSE "collecting"]]
    <3> DEFINE pc == IF attempt[a].pc = "approving" THEN "polling" ELSE "collecting"
               w == [attempt[a] EXCEPT !.approved = TRUE, !.pc = pc]
    <3>0. attempt' = [attempt EXCEPT ![a] = w]
      <4>1. CASE attempt[a].pc = "approving"
        BY <2>3, <4>1
      <4>2. CASE attempt[a].pc # "approving"
        BY <2>3, <4>2
      <4> QED BY <4>1, <4>2
    <3>1. /\ attempt[a] \in Adapters /\ attempt[a].result = "none"
          /\ pc \in {"polling", "collecting"}
      BY <1>0, <2>1 DEF AgentInv
    <3> HIDE DEF pc
    <3>2. w \in Adapters /\ w.pc = pc /\ w.result = "none"
      BY <3>1 DEF Adapters, AdapterPC
    <3> HIDE DEF w
    <3>3. moves(a, w)
      BY <2>1, <3>0, <3>1, <3>2 DEF moves
    <3> QED BY <2>1, <3>3, MovesInv
  <2> QED BY <1>9, <2>2, <2>3 DEF HandleCascadeUserInteraction
<1>10. ASSUME NEW a \in Attempts, CollectArtifacts(a)
      PROVE  AgentInv'
  <2>1. /\ attempt[a].pc = "collecting" /\ UNCHANGED <<agentMode, binding, refused>>
        /\ to(a, "normalizing") \/ ends(a, "failed_bridge")
    BY <1>10 DEF CollectArtifacts
  <2> QED BY <1>0, <2>1, EndsInv, ToInv DEF AdapterPC
<1>11. ASSUME NEW a \in Attempts, NormalizeResult(a)
      PROVE  AgentInv'
  <2>1. /\ attempt[a].pc = "normalizing" /\ UNCHANGED <<agentMode, binding, refused>>
        /\ \/ ends(a, resultOf(attempt[a].blocked, cascades[a].status))
           \/ ends(a, "failed_bridge")
    BY <1>11 DEF NormalizeResult
  <2>2. /\ resultOf(attempt[a].blocked, cascades[a].status) \in Results \ {"none"}
        /\ a \in refused =>
             resultOf(attempt[a].blocked, cascades[a].status) \in Surfaced
    <3>1. a \in refused => attempt[a].blocked
      BY <2>1 DEF AgentInv
    <3>2. attempt[a].blocked \in BOOLEAN
      BY <1>0 DEF Adapters
    <3> QED BY <3>1, <3>2 DEF resultOf, Results, Surfaced
  <2> QED BY <1>0, <2>1, <2>2, EndsInv
<1>12. ASSUME NEW a \in Attempts,
              Cancel(a) \/ serverWorks(a) \/ userAnswers(a) \/ brokerCancel(a)
      PROVE  AgentInv'
  BY <1>0, <1>1, <1>12 DEF Cancel, serverWorks, userAnswers, brokerCancel
<1>13. ASSUME NEW a \in Attempts, postTask(a)
      PROVE  AgentInv'
  <2>1. /\ attempt[a].pc = "new" /\ a \notin refused
        /\ UNCHANGED <<agentMode, binding, refused>>
    BY <1>13 DEF postTask, AgentInv
  <2>2. CASE ends(a, "failed_adapter")
    BY <1>0, <2>1, <2>2, EndsInv
  <2>3. CASE attempt' = [attempt EXCEPT ![a] = [@ EXCEPT !.pc = "polling", !.inst = binding]]
    <3> DEFINE w == [attempt[a] EXCEPT !.pc = "polling", !.inst = binding]
    <3>1. /\ attempt' = [attempt EXCEPT ![a] = w] /\ attempt[a] \in Adapters
          /\ attempt[a].result = "none"
      BY <2>1, <2>3 DEF AgentInv
    <3>2. w \in Adapters /\ w.pc = "polling" /\ w.result = "none"
      BY <1>0, <3>1 DEF Adapters, AdapterPC
    <3> HIDE DEF w
    <3>3. moves(a, w)
      BY <2>1, <3>1, <3>2 DEF moves
    <3> QED BY <2>1, <3>3, MovesInv
  <2> QED BY <1>13, <2>2, <2>3 DEF postTask
<1>14. ASSUME NEW a \in Attempts, brokerPoll(a) \/ brokerCollect(a) \/ brokerNormalize(a)
      PROVE  AgentInv'
  <2>1. /\ attempt[a].pc # "done" /\ a \notin refused
        /\ UNCHANGED <<agentMode, binding, refused>>
    BY <1>14 DEF brokerPoll, brokerCollect, brokerNormalize, AgentInv
  <2>2. \/ \E pc \in {"polling", "collecting", "normalizing"} : to(a, pc)
        \/ \E r \in Results \ {"none"} : ends(a, r)
    <3>1. CASE brokerPoll(a)
      BY <1>0, <3>1 DEF brokerPoll, getTask
    <3>2. CASE brokerCollect(a)
      BY <1>0, <3>2 DEF brokerCollect, getTask
    <3>3. CASE brokerNormalize(a)
      <4>1. \A state : brokerResult(state) \in Results \ {"none"}
        BY DEF brokerResult, Results, Surfaced
      <4> QED BY <1>0, <3>3, <4>1 DEF brokerNormalize, getTask
    <3> QED BY <1>14, <3>1, <3>2, <3>3
  <2>3. ASSUME NEW pc \in {"polling", "collecting", "normalizing"}, to(a, pc)
        PROVE  AgentInv'
    BY <2>1, <2>3, ToInv DEF AdapterPC
  <2>4. ASSUME NEW r \in Results \ {"none"}, ends(a, r)
        PROVE  AgentInv'
    BY <2>1, <2>4, EndsInv
  <2> QED BY <2>2, <2>3, <2>4
<1>15. CASE UNCHANGED agentVars
  BY <1>0, <1>1, <1>15 DEF agentVars
<1> QED
  BY <1>2, <1>3, <1>4, <1>5, <1>6, <1>7, <1>8, <1>9, <1>10, <1>11, <1>12, <1>13,
     <1>14, <1>15 DEF agentStep

\* Whatever servers, users, the operator and a restarting broker do, an attempt
\* whose cascade made a request that no rule approves ends for a human to look
\* at or as a failure (Adapter.NormalizeResult of the Antigravity adapter), for
\* any number of attempts and servers.
THEOREM RefusalsSurface == WorkstationSpec => []BlockedIsSurfaced
<1>1. workstationInit => AgentInv
  <2>1. /\ Fresh \in Adapters /\ Fresh.pc = "new" /\ Fresh.result = "none"
    BY DEF Fresh, Adapters, AdapterPC, Results
  <2> QED BY <2>1 DEF workstationInit, agentInit, AgentInv
<1>2. [workstationStep]_workstationVars => [agentStep]_agentVars
  BY DEF workstationStep, workstationVars
<1>3. AgentInv => BlockedIsSurfaced
  BY DEF AgentInv, BlockedIsSurfaced, Surfaced
<1> QED BY <1>1, <1>2, <1>3, AgentStepInv, PTL DEF WorkstationSpec

-----------------------------------------------------------------------------
(* The connector's advertisement.                                          *)

ConnOps == {"connecting", "connect", "registry", "machine", "backfill", "advertise",
            "send", "connected", "reload", "failed", "stopped"}
ConnFields == {"todo", "on", "cfg", "reg", "ads", "last"}

\* Every advertisement is resolved, sent and noted at the end of the work
\* queued, in this order and nowhere else.
Orderly(t) ==
  /\ t \in Seq(ConnOps)
  /\ \A i \in 1..Len(t) :
       /\ i = Len(t) => t[i] = "connected"
       /\ i = Len(t) - 1 <=> t[i] = "send"
       /\ i = Len(t) - 2 <=> t[i] = "advertise"
       /\ t[i] # "stopped"

\* An advertisement was chosen and is about to be sent; none is on its way.
Chosen(t) == Len(t) = 2
Sent(t) == Len(t) <= 1
Pending(t) == Len(t) >= 3

\* What was sent last is what the relay has; what is about to be sent, and
\* after that what was, is shared by the config now in force.
ConnInv ==
  /\ DOMAIN conn = ConnFields
  /\ Orderly(conn.todo) \/ conn.todo = <<"stopped">>
  /\ conn.on \in BOOLEAN
  /\ ~conn.on => conn.todo = << >>
  /\ ~conn.on \/ conn.todo = <<"stopped">> => advertised = Nothing
  /\ conn.todo # <<"stopped">> =>
       /\ conn.last \in {Nothing, advertised}
       /\ conn.last = Nothing => advertised = Nothing
       /\ Sent(conn.todo) => advertised.instances \subseteq shared(conn.cfg)
       /\ Chosen(conn.todo) => conn.ads.instances \subseteq shared(conn.cfg)

\* An operation done leaves the rest in order.
LEMMA TailOrderly ==
  ASSUME NEW t, Orderly(t), t # << >>
  PROVE  /\ Orderly(Tail(t)) /\ Len(Tail(t)) = Len(t) - 1 /\ Len(t) \in Nat \ {0}
         /\ Head(t) = t[1] /\ Tail(t) # <<"stopped">>
<1>1. /\ t \in Seq(ConnOps) /\ Len(t) \in Nat \ {0} /\ Tail(t) \in Seq(ConnOps)
      /\ Len(Tail(t)) = Len(t) - 1 /\ Head(t) = t[1]
      /\ \A i \in 1..Len(Tail(t)) : Tail(t)[i] = t[i + 1]
  BY DEF Orderly
<1>2. ASSUME NEW i \in 1..Len(Tail(t))
      PROVE  /\ i = Len(Tail(t)) => Tail(t)[i] = "connected"
             /\ i = Len(Tail(t)) - 1 <=> Tail(t)[i] = "send"
             /\ i = Len(Tail(t)) - 2 <=> Tail(t)[i] = "advertise"
             /\ Tail(t)[i] # "stopped"
  <2>1. i + 1 \in 1..Len(t) /\ Tail(t)[i] = t[i + 1]
    BY <1>1
  <2>2. /\ i + 1 = Len(t) => t[i + 1] = "connected"
        /\ i + 1 = Len(t) - 1 <=> t[i + 1] = "send"
        /\ i + 1 = Len(t) - 2 <=> t[i + 1] = "advertise"
        /\ t[i + 1] # "stopped"
    BY <2>1 DEF Orderly
  <2>3. /\ i = Len(Tail(t)) <=> i + 1 = Len(t)
        /\ i = Len(Tail(t)) - 1 <=> i + 1 = Len(t) - 1
        /\ i = Len(Tail(t)) - 2 <=> i + 1 = Len(t) - 2
    BY <1>1
  <2> QED BY <2>1, <2>2, <2>3
<1>3. Tail(t) # <<"stopped">>
  <2>1. Len(<<"stopped">>) = 1 /\ <<"stopped">>[1] = "stopped"
    OBVIOUS
  <2>2. Len(Tail(t)) = 1 => Tail(t)[1] # "stopped"
    BY <1>2
  <2> QED BY <2>1, <2>2, Zenon
<1> QED BY <1>1, <1>2, <1>3 DEF Orderly

\* Work put before an advertisement leaves it in order.
LEMMA PrefixOrderly ==
  ASSUME NEW t, Orderly(t), Pending(t),
         NEW s \in Seq(ConnOps \ {"send", "advertise", "stopped"})
  PROVE  Orderly(s \o t) /\ Pending(s \o t)
<1>1. /\ t \in Seq(ConnOps) /\ s \in Seq(ConnOps) /\ s \o t \in Seq(ConnOps)
      /\ Len(s) \in Nat /\ Len(t) \in Nat /\ Len(s \o t) = Len(s) + Len(t)
  BY DEF Orderly
<1>2. ASSUME NEW i \in 1..Len(s \o t)
      PROVE  /\ i = Len(s \o t) => (s \o t)[i] = "connected"
             /\ i = Len(s \o t) - 1 <=> (s \o t)[i] = "send"
             /\ i = Len(s \o t) - 2 <=> (s \o t)[i] = "advertise"
             /\ (s \o t)[i] # "stopped"
  <2>1. CASE i <= Len(s)
    <3>1. (s \o t)[i] = s[i] /\ i \in 1..Len(s)
      BY <1>1, <2>1
    <3>2. s[i] \notin {"send", "advertise", "stopped"}
      BY <3>1
    <3> QED BY <1>1, <2>1, <3>1, <3>2 DEF Pending
  <2>2. CASE i > Len(s)
    <3> DEFINE j == i - Len(s)
    <3>1. (s \o t)[i] = t[j] /\ j \in 1..Len(t)
      BY <1>1, <2>2
    <3>2. /\ j = Len(t) <=> i = Len(s \o t)
          /\ j = Len(t) - 1 <=> i = Len(s \o t) - 1
          /\ j = Len(t) - 2 <=> i = Len(s \o t) - 2
      BY <1>1
    <3> HIDE DEF j
    <3> QED BY <3>1, <3>2 DEF Orderly
  <2> QED BY <1>1, <2>1, <2>2
<1> QED BY <1>1, <1>2 DEF Orderly, Pending

\* Both programs of the connector are in order.
LEMMA ProgramsOrderly ==
  /\ Orderly(runOnce) /\ Pending(runOnce)
  /\ Orderly(heartbeat) /\ Pending(heartbeat)
<1> DEFINE last == <<"advertise", "send", "connected">>
           first == <<"connecting", "connect", "registry", "machine", "backfill">>
           beat == <<"reload", "registry", "machine", "backfill">>
<1>1. Orderly(last) /\ Pending(last)
  BY DEF Orderly, ConnOps, Pending
<1>2. runOnce = first \o last /\ heartbeat = beat \o last
  BY DEF runOnce, heartbeat, Advertisements
<1>3. /\ first \in Seq(ConnOps \ {"send", "advertise", "stopped"})
      /\ beat \in Seq(ConnOps \ {"send", "advertise", "stopped"})
  BY DEF ConnOps
<1> HIDE DEF last, first, beat
<1> QED BY <1>1, <1>2, <1>3, PrefixOrderly

\* The queue is in one of three stages; an empty one has sent.
LEMMA Stages ==
  /\ \A t : Pending(t) /\ Orderly(t) => ~Chosen(t) /\ ~Sent(t) /\ t # <<"stopped">>
  /\ \A t : ~(Chosen(t) /\ Sent(t))
  /\ Orderly(<< >>) /\ Sent(<< >>) /\ ~Chosen(<< >>) /\ << >> # <<"stopped">>
<1>1. Len(<<"stopped">>) = 1 /\ Len(<< >>) = 0 /\ << >> # <<"stopped">>
  OBVIOUS
<1>2. \A t : Orderly(t) => Len(t) \in Nat
  BY DEF Orderly
<1>3. Orderly(<< >>)
  BY DEF Orderly
<1> QED BY <1>1, <1>2, <1>3 DEF Pending, Chosen, Sent

\* What the operation at its head says of a queue and of the rest of it.
LEMMA HeadAt ==
  ASSUME NEW t, Orderly(t), t # << >>
  PROVE  /\ Orderly(Tail(t)) /\ Tail(t) # <<"stopped">> /\ Head(t) # "stopped"
         /\ Head(t) = "send" => Chosen(t) /\ Sent(Tail(t))
         /\ Head(t) = "advertise" <=> Chosen(Tail(t))
         /\ Head(t) # "send" /\ Sent(Tail(t)) => Sent(t) /\ Head(t) = "connected"
         /\ Head(t) = "reload" => Pending(Tail(t))
<1>1. /\ Orderly(Tail(t)) /\ Len(Tail(t)) = Len(t) - 1 /\ Len(t) \in Nat \ {0}
      /\ Head(t) = t[1] /\ Tail(t) # <<"stopped">>
  BY TailOrderly
<1>2. /\ 1 = Len(t) => Head(t) = "connected"
      /\ 1 = Len(t) - 1 <=> Head(t) = "send"
      /\ 1 = Len(t) - 2 <=> Head(t) = "advertise"
      /\ Head(t) # "stopped"
  <2>1. 1 \in 1..Len(t)
    BY <1>1
  <2>2. /\ 1 = Len(t) => t[1] = "connected"
        /\ 1 = Len(t) - 1 <=> t[1] = "send"
        /\ 1 = Len(t) - 2 <=> t[1] = "advertise"
        /\ t[1] # "stopped"
    BY <2>1 DEF Orderly
  <2> QED BY <1>1, <2>2
<1>3. PICK n, m : n = Len(t) /\ m = Len(Tail(t))
  OBVIOUS
<1>4. /\ n \in Nat \ {0} /\ m = n - 1
      /\ n = 1 => Head(t) = "connected"
      /\ n = 2 <=> Head(t) = "send"
      /\ n = 3 <=> Head(t) = "advertise"
  BY <1>1, <1>2, <1>3
<1>5. /\ Head(t) = "send" => n = 2 /\ m <= 1
      /\ Head(t) = "advertise" <=> m = 2
      /\ Head(t) # "send" /\ m <= 1 => n <= 1 /\ Head(t) = "connected"
      /\ Head(t) = "reload" => m >= 3
  BY <1>4
<1> QED BY <1>1, <1>2, <1>3, <1>5 DEF Chosen, Sent, Pending

\* The operation at hand, and where in the queue it stands.
LEMMA BusyAt ==
  ASSUME ConnInv, NEW op, op # "stopped", busy(op)
  PROVE  /\ conn.on /\ conn.todo # <<"stopped">>
         /\ Orderly(Tail(conn.todo)) /\ Tail(conn.todo) # <<"stopped">>
         /\ op = "send" => Chosen(conn.todo) /\ Sent(Tail(conn.todo))
         /\ op = "advertise" <=> Chosen(Tail(conn.todo))
         /\ op # "send" /\ Sent(Tail(conn.todo)) => Sent(conn.todo) /\ op = "connected"
         /\ op = "reload" => Pending(Tail(conn.todo))
<1>1. conn.todo # <<"stopped">>
  <2>1. Head(<<"stopped">>) = "stopped"
    OBVIOUS
  <2> QED BY <2>1, Zenon DEF busy
<1>2. Orderly(conn.todo) /\ conn.todo # << >> /\ Head(conn.todo) = op /\ conn.on
  BY <1>1 DEF ConnInv, busy
<1> QED BY <1>1, <1>2, HeadAt, Zenon

\* What the connector holds once it has gone on.
LEMMA Proceeds ==
  ASSUME NEW c, DOMAIN c = ConnFields, proceed(c)
  PROVE  /\ DOMAIN conn' = ConnFields
         /\ conn'.todo = Tail(conn.todo) /\ conn'.on = c.on /\ conn'.cfg = c.cfg
         /\ conn'.ads = c.ads /\ conn'.last = c.last
BY DEF proceed, ConnFields

\* Operations that neither choose, send nor reload keep the invariant.
LEMMA PlainInv ==
  ASSUME ConnInv, NEW op \in ConnOps \ {"stopped", "send", "advertise"}, busy(op),
         NEW c, DOMAIN c = ConnFields, proceed(c), c.on = conn.on, c.ads = conn.ads,
         c.last = conn.last, c.cfg = conn.cfg \/ op = "reload",
         UNCHANGED advertised
  PROVE  ConnInv'
<1>1. /\ conn.on /\ conn.todo # <<"stopped">>
      /\ Orderly(Tail(conn.todo)) /\ Tail(conn.todo) # <<"stopped">>
      /\ ~Chosen(Tail(conn.todo))
      /\ Sent(Tail(conn.todo)) => Sent(conn.todo) /\ op = "connected"
  BY BusyAt
<1>2. /\ DOMAIN conn' = ConnFields
      /\ conn'.todo = Tail(conn.todo) /\ conn'.on = conn.on /\ conn'.cfg = c.cfg
      /\ conn'.ads = conn.ads /\ conn'.last = conn.last
  BY Proceeds
<1>4. conn'.last \in {Nothing, advertised'} /\ (conn'.last = Nothing => advertised' = Nothing)
  BY <1>1, <1>2 DEF ConnInv
<1>5. Sent(conn'.todo) => advertised'.instances \subseteq shared(conn'.cfg)
  BY <1>1, <1>2 DEF ConnInv
<1> QED BY <1>1, <1>2, <1>4, <1>5 DEF ConnInv

\* So does a program queued anew.
LEMMA QueueInv ==
  ASSUME ConnInv, conn.todo # <<"stopped">>, NEW t, Orderly(t), Pending(t), conn'.on,
         DOMAIN conn' = ConnFields, conn'.todo = t,
         \/ conn'.last = conn.last /\ UNCHANGED advertised
         \/ conn'.last = Nothing /\ advertised' = Nothing
  PROVE  ConnInv'
<1>1. t # <<"stopped">> /\ ~Chosen(t) /\ ~Sent(t)
  BY Stages
<1>2. conn'.last \in {Nothing, advertised'} /\ (conn'.last = Nothing => advertised' = Nothing)
  BY DEF ConnInv
<1> QED BY <1>1, <1>2 DEF ConnInv

\* A connector that is off, or about to stop, advertises nothing.
LEMMA OffInv ==
  ASSUME conn' = Off, advertised' = Nothing
  PROVE  ConnInv'
<1>3. /\ DOMAIN Off = ConnFields /\ Off.todo = << >> /\ Off.on = FALSE /\ Off.last = Nothing
  BY DEF Off, ConnFields
<1>4. Nothing.instances = {}
  BY DEF Nothing
<1> QED BY <1>3, <1>4, Stages DEF ConnInv

\* Every step of the connector preserves the invariant.
LEMMA ConnStepInv == ConnInv /\ [connectorStep]_connVars => ConnInv'
<1> SUFFICES ASSUME ConnInv, [connectorStep]_connVars PROVE ConnInv'
  OBVIOUS
<1>0. /\ DOMAIN conn = ConnFields
      /\ {"connecting", "connected", "failed", "connect", "reload", "registry", "machine",
          "backfill"} \subseteq ConnOps
      /\ Nothing.instances = {}
  BY DEF ConnInv, ConnOps, Nothing
<1>1. CASE NewClient
  <2> DEFINE w == [Off EXCEPT !.on = TRUE, !.cfg = home.connector, !.todo = runOnce]
  <2>1. /\ conn' = w /\ ~conn.on /\ UNCHANGED advertised
    BY <1>1 DEF NewClient
  <2>2. DOMAIN w = ConnFields /\ w.todo = runOnce /\ w.on /\ w.last = Nothing
    BY DEF Off, ConnFields
  <2>3. conn.todo = << >> /\ advertised' = Nothing
    BY <2>1 DEF ConnInv
  <2>4. << >> # <<"stopped">>
    OBVIOUS
  <2> HIDE DEF w
  <2>5. conn.todo # <<"stopped">> /\ DOMAIN conn' = ConnFields /\ conn'.todo = runOnce
        /\ conn'.on /\ conn'.last = Nothing
    BY <2>1, <2>2, <2>3, <2>4
  <2> QED BY <2>3, <2>5, ProgramsOrderly, QueueInv
<1>2. ASSUME NEW op \in {"connecting", "connected", "failed"}, busy(op), proceed(conn),
             UNCHANGED advertised
      PROVE  ConnInv'
  BY <1>0, <1>2, PlainInv DEF ConnOps
<1>3. CASE MarkConnecting \/ MarkConnectedWithProjects \/ MarkFailure
  BY <1>2, <1>3 DEF MarkConnecting, MarkConnectedWithProjects, MarkFailure, update
<1>4. CASE MarkDisconnected
  <2>1. busy("stopped") /\ conn' = Off /\ UNCHANGED advertised
    BY <1>4 DEF MarkDisconnected, update
  <2>2. conn.todo = <<"stopped">>
    <3>1. ASSUME Orderly(conn.todo) PROVE FALSE
      <4>1. conn.todo # << >> /\ Head(conn.todo) = "stopped"
        BY <2>1 DEF busy
      <4>2. Head(conn.todo) = conn.todo[1] /\ Len(conn.todo) \in Nat \ {0}
        BY <3>1, <4>1, TailOrderly
      <4> QED BY <3>1, <4>1, <4>2 DEF Orderly
    <3> QED BY <3>1 DEF ConnInv
  <2>3. advertised = Nothing
    BY <2>2 DEF ConnInv
  <2> QED BY <2>1, <2>3, OffInv
<1>5. CASE fetchChallenge
  <2>1. busy("connect") /\ UNCHANGED advertised
    BY <1>5 DEF fetchChallenge
  <2>2. CASE proceed(conn)
    BY <1>0, <2>1, <2>2, PlainInv DEF ConnOps
  <2>3. CASE conn' = [conn EXCEPT !.todo = <<"failed">> \o runOnce]
    <3>1. /\ DOMAIN conn' = ConnFields /\ conn'.todo = <<"failed">> \o runOnce
          /\ conn'.on = conn.on /\ conn'.last = conn.last
      BY <1>0, <2>3 DEF ConnFields
    <3>2. <<"failed">> \in Seq(ConnOps \ {"send", "advertise", "stopped"})
      BY DEF ConnOps
    <3>3. Orderly(<<"failed">> \o runOnce) /\ Pending(<<"failed">> \o runOnce)
      BY <3>2, ProgramsOrderly, PrefixOrderly
    <3>4. conn.on /\ conn.todo # <<"stopped">>
      BY <2>1, BusyAt
    <3> QED BY <2>1, <3>1, <3>3, <3>4, QueueInv
  <2> QED BY <1>5, <2>2, <2>3 DEF fetchChallenge
<1>6. CASE reloadConfig
  <2>1. busy("reload") /\ UNCHANGED advertised
    BY <1>6 DEF reloadConfig
  <2>2. CASE proceed([conn EXCEPT !.cfg = home.connector])
    <3> DEFINE c == [conn EXCEPT !.cfg = home.connector]
    <3>1. /\ DOMAIN c = ConnFields /\ c.on = conn.on /\ c.ads = conn.ads /\ c.last = conn.last
      BY <1>0 DEF ConnFields
    <3>2. proceed(c)
      BY <2>2
    <3> HIDE DEF c
    <3> QED BY <2>1, <3>1, <3>2, PlainInv DEF ConnOps
  <2>3. CASE conn' = [conn EXCEPT !.todo = <<"failed">> \o Tail(@)]
    <3>1. /\ DOMAIN conn' = ConnFields /\ conn'.todo = <<"failed">> \o Tail(conn.todo)
          /\ conn'.on = conn.on /\ conn'.last = conn.last
      BY <1>0, <2>3 DEF ConnFields
    <3>2. <<"failed">> \in Seq(ConnOps \ {"send", "advertise", "stopped"})
      BY DEF ConnOps
    <3>3. /\ conn.on /\ conn.todo # <<"stopped">> /\ Orderly(Tail(conn.todo))
          /\ Pending(Tail(conn.todo))
      BY <2>1, BusyAt
    <3>4. Orderly(<<"failed">> \o Tail(conn.todo)) /\ Pending(<<"failed">> \o Tail(conn.todo))
      BY <3>2, <3>3, PrefixOrderly
    <3> QED BY <2>1, <3>1, <3>3, <3>4, QueueInv
  <2> QED BY <1>6, <2>2, <2>3 DEF reloadConfig
<1>7. CASE SharedProjects
  <2> DEFINE c == [conn EXCEPT !.reg = IF home.projects = Absent THEN EmptyRegistry ELSE home.projects]
  <2>1. busy("registry") /\ UNCHANGED advertised /\ proceed(c)
    BY <1>7 DEF SharedProjects
  <2>2. /\ DOMAIN c = ConnFields /\ c.on = conn.on /\ c.ads = conn.ads /\ c.last = conn.last
        /\ c.cfg = conn.cfg
    BY <1>0 DEF ConnFields
  <2> HIDE DEF c
  <2> QED BY <2>1, <2>2, PlainInv DEF ConnOps
<1>8. CASE ensureMachine
  BY <1>0, <1>8, PlainInv DEF ensureMachine, ConnOps
<1>9. CASE backfillRegistry
  <2>1. /\ busy("backfill") /\ UNCHANGED advertised
        /\ \E reg : proceed([conn EXCEPT !.reg = reg])
    BY <1>9 DEF backfillRegistry
  <2>2. PICK reg : proceed([conn EXCEPT !.reg = reg])
    BY <2>1
  <2> DEFINE c == [conn EXCEPT !.reg = reg]
  <2>3. /\ DOMAIN c = ConnFields /\ c.on = conn.on /\ c.ads = conn.ads /\ c.last = conn.last
        /\ c.cfg = conn.cfg /\ proceed(c)
    BY <1>0, <2>2 DEF ConnFields
  <2> HIDE DEF c
  <2> QED BY <2>1, <2>3, PlainInv DEF ConnOps
<1>10. CASE resolveInstances
  <2>1. /\ busy("advertise") /\ UNCHANGED advertised
        /\ \E i \in SUBSET shared(conn.cfg) : \E j :
             proceed([conn EXCEPT !.ads = [instances |-> i, projects |-> j], !.reg = Absent])
    BY <1>10 DEF resolveInstances
  <2>2. PICK i \in SUBSET shared(conn.cfg) : \E j :
          proceed([conn EXCEPT !.ads = [instances |-> i, projects |-> j], !.reg = Absent])
    BY <2>1
  <2>9. PICK j : proceed([conn EXCEPT !.ads = [instances |-> i, projects |-> j], !.reg = Absent])
    BY <2>2
  <2> DEFINE c == [conn EXCEPT !.ads = [instances |-> i, projects |-> j], !.reg = Absent]
  <2>3. /\ DOMAIN c = ConnFields /\ c.on = conn.on /\ c.last = conn.last /\ c.cfg = conn.cfg
        /\ c.ads = [instances |-> i, projects |-> j] /\ proceed(c)
    BY <1>0, <2>9 DEF ConnFields
  <2>4. c.ads.instances = i
    BY <2>3
  <2> HIDE DEF c
  <2>5. /\ DOMAIN conn' = ConnFields
        /\ conn'.todo = Tail(conn.todo) /\ conn'.on = conn.on /\ conn'.cfg = conn.cfg
        /\ conn'.ads.instances = i /\ conn'.last = conn.last
    BY <2>3, <2>4, Proceeds
  <2>6. /\ conn.on /\ conn.todo # <<"stopped">> /\ Orderly(Tail(conn.todo))
        /\ Tail(conn.todo) # <<"stopped">> /\ Chosen(Tail(conn.todo))
    BY <2>1, BusyAt
  <2>7. conn'.last \in {Nothing, advertised'} /\ (conn'.last = Nothing => advertised' = Nothing)
    BY <2>1, <2>5, <2>6 DEF ConnInv
  <2>8. i \subseteq shared(conn'.cfg)
    BY <2>2, <2>5
  <2> QED BY <2>5, <2>6, <2>7, <2>8, Stages DEF ConnInv
<1>11. CASE writeAdvertise
  <2>1. /\ busy("send")
        /\ \/ conn.last = Nothing /\ advertised' = conn.ads /\ proceed([conn EXCEPT !.last = conn.ads])
           \/ advertised' = conn.ads /\ proceed([conn EXCEPT !.last = conn.ads])
           \/ /\ conn.last # Nothing /\ conn.ads = conn.last
              /\ UNCHANGED advertised /\ proceed(conn)
    BY <1>11 DEF writeAdvertise, advertisedSetSignature
  <2>2. /\ conn.on /\ conn.todo # <<"stopped">> /\ Orderly(Tail(conn.todo))
        /\ Tail(conn.todo) # <<"stopped">> /\ Sent(Tail(conn.todo))
        /\ conn.ads.instances \subseteq shared(conn.cfg)
    BY <2>1, BusyAt DEF ConnInv
  <2>3. /\ DOMAIN conn' = ConnFields /\ conn'.todo = Tail(conn.todo) /\ conn'.on = conn.on
        /\ conn'.cfg = conn.cfg /\ advertised' = conn.ads /\ conn'.last = conn.ads
    <3>1. CASE advertised' = conn.ads /\ proceed([conn EXCEPT !.last = conn.ads])
      <4> DEFINE c == [conn EXCEPT !.last = conn.ads]
      <4>1. /\ DOMAIN c = ConnFields /\ c.on = conn.on /\ c.cfg = conn.cfg
            /\ c.last = conn.ads /\ proceed(c)
        BY <1>0, <3>1 DEF ConnFields
      <4> HIDE DEF c
      <4> QED BY <3>1, <4>1, Proceeds
    <3>2. CASE /\ conn.last # Nothing /\ conn.ads = conn.last
               /\ UNCHANGED advertised /\ proceed(conn)
      <4>1. conn.last = advertised
        BY <2>2, <3>2 DEF ConnInv
      <4> QED BY <1>0, <3>2, <4>1, Proceeds
    <3> QED BY <2>1, <3>1, <3>2
  <2> QED BY <2>2, <2>3, Stages DEF ConnInv
<1>12. CASE heartbeatLoop
  <2>1. /\ DOMAIN conn' = ConnFields /\ conn'.todo = heartbeat
        /\ conn'.on /\ conn'.last = conn.last /\ UNCHANGED advertised
    BY <1>0, <1>12 DEF heartbeatLoop, ConnFields
  <2>2. conn.todo = << >> /\ << >> # <<"stopped">>
    BY <1>12 DEF heartbeatLoop
  <2>3. conn.todo # <<"stopped">>
    BY <2>2
  <2> QED BY <2>1, <2>3, ProgramsOrderly, QueueInv
<1>13. CASE sessionLost
  <2>1. /\ connected /\ advertised' = Nothing
        /\ \E late \in {<< >>, <<"connected">>} :
             conn' = [conn EXCEPT !.todo = <<"failed">> \o late \o runOnce, !.last = Nothing, !.reg = Absent]
    BY <1>13 DEF sessionLost
  <2>2. PICK late \in {<< >>, <<"connected">>} :
          conn' = [conn EXCEPT !.todo = <<"failed">> \o late \o runOnce, !.last = Nothing, !.reg = Absent]
    BY <2>1
  <2>3. <<"failed">> \o late \in Seq(ConnOps \ {"send", "advertise", "stopped"})
    <3> DEFINE Others == ConnOps \ {"send", "advertise", "stopped"}
    <3>1. <<"failed">> \in Seq(Others) /\ <<"connected">> \in Seq(Others) /\ << >> \in Seq(Others)
      BY DEF ConnOps
    <3> HIDE DEF Others
    <3>2. late \in Seq(Others)
      BY <3>1
    <3>3. <<"failed">> \o late \in Seq(Others)
      BY <3>1, <3>2
    <3> QED BY <3>3 DEF Others
  <2>4. PICK t : t = <<"failed">> \o late \o runOnce
    OBVIOUS
  <2>5. Orderly(t) /\ Pending(t)
    BY <2>3, <2>4, ProgramsOrderly, PrefixOrderly
  <2>6. /\ DOMAIN conn' = ConnFields /\ conn'.todo = t
        /\ conn'.on = conn.on /\ conn'.last = Nothing
    BY <1>0, <2>2, <2>4 DEF ConnFields
  <2>7. conn.on /\ conn.todo # <<"stopped">>
    <3>1. 1 \in DOMAIN <<"stopped">> /\ <<"stopped">>[1] = "stopped"
      OBVIOUS
    <3> QED BY <2>1, <3>1, Zenon DEF connected
  <2> QED BY <2>1, <2>5, <2>6, <2>7, QueueInv
<1>14. CASE connectorStops
  <2>1. /\ conn.on /\ advertised' = Nothing
        /\ conn' = Off \/ conn' = [conn EXCEPT !.todo = <<"stopped">>]
    BY <1>14 DEF connectorStops
  <2>2. CASE conn' = [conn EXCEPT !.todo = <<"stopped">>]
    <3>1. DOMAIN conn' = ConnFields /\ conn'.todo = <<"stopped">> /\ conn'.on = conn.on
      BY <1>0, <2>2 DEF ConnFields
    <3> QED BY <2>1, <3>1 DEF ConnInv
  <2> QED BY <2>1, <2>2, OffInv
<1>15. CASE UNCHANGED connVars
  BY <1>15 DEF connVars, ConnInv
<1> QED
  BY <1>1, <1>3, <1>4, <1>5, <1>6, <1>7, <1>8, <1>9, <1>10, <1>11, <1>12, <1>13, <1>14,
     <1>15 DEF connectorStep

\* Between two heartbeats the relay has been told of no instance outside the
\* config the connector works with, whatever commands write into the files
\* meanwhile and however often sessions are lost (connector.runOnce and its
\* heartbeat loop), for any configs.
THEOREM AdvertisesWhatItShares == WorkstationSpec => []AdvertisedIsShared
<1>1. workstationInit => ConnInv
  <2>2. /\ DOMAIN Off = ConnFields /\ Off.todo = << >> /\ Off.on = FALSE /\ Off.last = Nothing
    BY DEF Off, ConnFields
  <2>3. Nothing.instances = {}
    BY DEF Nothing
  <2> QED BY <2>2, <2>3, Stages DEF workstationInit, connectorInit, ConnInv
<1>2. [workstationStep]_workstationVars => [connectorStep]_connVars
  BY DEF workstationStep, workstationVars
<1>3. ConnInv => AdvertisedIsShared
  BY Stages DEF ConnInv, AdvertisedIsShared
<1> QED BY <1>1, <1>2, <1>3, ConnStepInv, PTL DEF WorkstationSpec

-----------------------------------------------------------------------------
(* Commands on the files under CODENCER_HOME.                              *)

ProcFields == {"cmd", "todo", "open", "config", "projects", "machine", "gateway", "connector",
               "status", "token", "id", "svcs", "failed"}

\* The operations a command is made of.
HomeOps ==
  {"statConfig", "makeConfig", "statProjects", "makeProjects", "loadMachine",
   "makeMachine", "saveLabel", "loadConfig", "useProfile", "loadRegistry",
   "backfill", "use", "share", "unshare", "remove", "readProject", "saveProject",
   "register", "noteExecutor", "pickToken", "saveToken", "saveRelay",
   "saveConnector", "nameRelay", "saveGateway", "nameGateway", "selfHost",
   "readGateway", "addRelay", "nameConnector", "readConnector", "enroll",
   "resolveShare", "shareInstance", "unshareInstance", "readStatus", "saveStatus",
   "resolve", "pick", "writeDaemonConfig", "serve", "recover", "watch"}

\* Commands are records of what is to be done and was read; a process that the
\* scenario does not use is idle.
HomeTypes ==
  /\ DOMAIN home = Files
  /\ DOMAIN proc = Procs
  /\ \A p \in Procs : DOMAIN proc[p] = ProcFields /\ proc[p].todo \in Seq(HomeOps)
  /\ \A p \in Procs : p \notin scene.procs => proc[p].todo = << >>

\* What a command's operation does to the command: it ends with an error, or
\* some operations are done and the options are the same.
moved(p) ==
  \/ proc' = [proc EXCEPT ![p] = Idle]
  \/ \E w : \E n \in Nat :
       /\ DOMAIN w = ProcFields /\ w.cmd = proc[p].cmd /\ goOn(p, w, n)
       /\ Head(proc[p].todo) \in {"loadConfig", "loadRegistry"} => n = 1

\* The rest of a queue.
LEMMA RestOf ==
  ASSUME NEW t \in Seq(HomeOps), NEW n \in Nat
  PROVE  /\ SubSeq(t, n + 1, Len(t)) \in Seq(HomeOps)
         /\ n <= Len(t) => Len(SubSeq(t, n + 1, Len(t))) = Len(t) - n
         /\ n > Len(t) => Len(SubSeq(t, n + 1, Len(t))) = 0
         /\ \A i \in 1..(Len(t) - n) : SubSeq(t, n + 1, Len(t))[i] = t[i + n]
OBVIOUS

\* An idle command.
LEMMA IdleFields == DOMAIN Idle = ProcFields /\ Idle.todo = << >>
BY DEF Idle, ProcFields

\* Steps that a file operation is made of.
LEMMA SkipMoved ==
  ASSUME HomeTypes, NEW p \in Procs, NEW n \in Nat, skip(p, n),
         Head(proc[p].todo) \in {"loadConfig", "loadRegistry"} => n = 1
  PROVE  moved(p) /\ DOMAIN home' = Files
BY DEF HomeTypes, moved, skip

\* A command that ends with an error.
LEMMA FailMoved ==
  ASSUME HomeTypes, NEW p, fail(p)
  PROVE  moved(p) /\ DOMAIN home' = Files
BY DEF HomeTypes, moved, fail

\* A file that is replaced.
LEMMA AtomicMoved ==
  ASSUME HomeTypes, NEW p \in Procs, NEW f, NEW v, writeJSONAtomic(p, f, v)
  PROVE  moved(p) /\ DOMAIN home' = Files
BY DEF HomeTypes, moved, writeJSONAtomic

\* A file that is opened, or closed.
LEMMA OpenMoved ==
  ASSUME HomeTypes, NEW p \in Procs, NEW b, NEW n \in Nat, goOn(p, [proc[p] EXCEPT !.open = b], n),
         Head(proc[p].todo) \in {"loadConfig", "loadRegistry"} => n = 1
  PROVE  moved(p)
<1>1. DOMAIN [proc[p] EXCEPT !.open = b] = ProcFields /\ [proc[p] EXCEPT !.open = b].cmd = proc[p].cmd
  BY DEF HomeTypes, ProcFields
<1> QED BY <1>1 DEF moved

\* A file that is written in place.
LEMMA WriteMoved ==
  ASSUME HomeTypes, NEW p \in Procs, NEW f, NEW v, writeFile(p, f, v),
         Head(proc[p].todo) \notin {"loadConfig", "loadRegistry"}
  PROVE  moved(p) /\ DOMAIN home' = Files
<1>1. \/ goOn(p, [proc[p] EXCEPT !.open = FALSE], 1)
      \/ goOn(p, [proc[p] EXCEPT !.open = TRUE], 0)
  BY DEF writeFile
<1>2. moved(p)
  BY <1>1, OpenMoved
<1>3. DOMAIN home' = Files
  BY DEF HomeTypes, writeFile
<1> QED BY <1>2, <1>3

\* A registry that is saved.
LEMMA SaveRegistryMoved ==
  ASSUME HomeTypes, NEW p \in Procs, NEW reg, SaveRegistry(p, reg)
  PROVE  moved(p) /\ DOMAIN home' = Files
BY AtomicMoved, FailMoved DEF SaveRegistry

\* Reads keep the options.
LEMMA ReadMoved ==
  ASSUME HomeTypes, NEW p \in Procs, NEW v, NEW n \in Nat,
         \/ goOn(p, [proc[p] EXCEPT !.machine = v], n)
         \/ goOn(p, [proc[p] EXCEPT !.config = v], n)
         \/ goOn(p, [proc[p] EXCEPT !.projects = v], n)
         \/ goOn(p, [proc[p] EXCEPT !.id = v], n)
         \/ goOn(p, [proc[p] EXCEPT !.token = v], n)
         \/ goOn(p, [proc[p] EXCEPT !.gateway = v], n)
         \/ goOn(p, [proc[p] EXCEPT !.connector = v], n)
         \/ goOn(p, [proc[p] EXCEPT !.status = v], n)
         \/ goOn(p, [proc[p] EXCEPT !.open = FALSE, !.connector = v], n),
         Head(proc[p].todo) \in {"loadConfig", "loadRegistry"} => n = 1
  PROVE  moved(p)
<1>1. DOMAIN proc[p] = ProcFields
  BY DEF HomeTypes
<1>2. ASSUME NEW w, DOMAIN w = ProcFields, w.cmd = proc[p].cmd, goOn(p, w, n)
      PROVE  moved(p)
  BY <1>2 DEF moved
<1>3. CASE goOn(p, [proc[p] EXCEPT !.machine = v], n)
  BY <1>1, <1>2, <1>3 DEF ProcFields
<1>4. CASE goOn(p, [proc[p] EXCEPT !.config = v], n)
  BY <1>1, <1>2, <1>4 DEF ProcFields
<1>5. CASE goOn(p, [proc[p] EXCEPT !.projects = v], n)
  BY <1>1, <1>2, <1>5 DEF ProcFields
<1>6. CASE goOn(p, [proc[p] EXCEPT !.id = v], n)
  BY <1>1, <1>2, <1>6 DEF ProcFields
<1>7. CASE goOn(p, [proc[p] EXCEPT !.token = v], n)
  BY <1>1, <1>2, <1>7 DEF ProcFields
<1>8. CASE goOn(p, [proc[p] EXCEPT !.gateway = v], n)
  BY <1>1, <1>2, <1>8 DEF ProcFields
<1>9. CASE goOn(p, [proc[p] EXCEPT !.connector = v], n)
  BY <1>1, <1>2, <1>9 DEF ProcFields
<1>10. CASE goOn(p, [proc[p] EXCEPT !.status = v], n)
  BY <1>1, <1>2, <1>10 DEF ProcFields
<1>11. CASE goOn(p, [proc[p] EXCEPT !.open = FALSE, !.connector = v], n)
  BY <1>1, <1>2, <1>11 DEF ProcFields
<1> QED BY <1>3, <1>4, <1>5, <1>6, <1>7, <1>8, <1>9, <1>10, <1>11

\* The operations of the files themselves, as opposed to those of the services.
ServiceOps == {"resolve", "pick", "writeDaemonConfig", "serve", "recover", "watch"}

\* Every file operation moves its command, which had it to do.
LEMMA FileMoved ==
  ASSUME HomeTypes, NEW p \in Procs, fileStep(p)
  PROVE  /\ moved(p) /\ DOMAIN home' = Files
         /\ proc[p].todo # << >> /\ Head(proc[p].todo) \notin ServiceOps
<1>0. /\ DOMAIN home = Files /\ proc[p].todo \in Seq(HomeOps) /\ Len(proc[p].todo) \in Nat
  BY DEF HomeTypes
<1>1. ASSUME NEW op, next(p, op), op \notin ServiceOps
      PROVE  proc[p].todo # << >> /\ Head(proc[p].todo) = op /\ Head(proc[p].todo) \notin ServiceOps
  BY <1>1 DEF next
<1>2. CASE statConfig(p) \/ makeConfig(p) \/ statProjects(p) \/ makeProjects(p) \/ SaveMachine(p)
             \/ SetMachineHostLabel(p) \/ UseProfile(p) \/ nameRelay(p) \/ nameGateway(p)
             \/ SelfHost(p) \/ updateLocalConnectorConfigPath(p)
  <2>1. CASE statConfig(p)
    BY <1>1, <2>1, SkipMoved DEF statConfig, ServiceOps
  <2>2. CASE statProjects(p)
    BY <1>1, <2>2, SkipMoved DEF statProjects, ServiceOps
  <2>3. CASE makeConfig(p) \/ makeProjects(p) \/ SaveMachine(p) \/ SetMachineHostLabel(p)
    BY <1>1, <2>3, AtomicMoved DEF makeConfig, makeProjects, SaveMachine, SetMachineHostLabel, ServiceOps
  <2>4. CASE UseProfile(p) \/ nameRelay(p) \/ nameGateway(p) \/ SelfHost(p)
               \/ updateLocalConnectorConfigPath(p)
    BY <1>1, <2>4, AtomicMoved DEF UseProfile, nameRelay, nameGateway, SelfHost,
         updateLocalConnectorConfigPath, SaveConfig, ServiceOps
  <2> QED BY <1>2, <2>1, <2>2, <2>3, <2>4
<1>3. CASE EnsureMachine(p)
  <2>1. Head(proc[p].todo) = "loadMachine" /\ proc[p].todo # << >>
    BY <1>3 DEF EnsureMachine, next
  <2>2. CASE fail(p)
    BY <2>1, <2>2, FailMoved DEF ServiceOps
  <2>3. CASE ~fail(p)
    BY <1>0, <1>3, <2>1, <2>3, ReadMoved DEF EnsureMachine, ServiceOps
  <2> QED BY <2>2, <2>3
<1>4. CASE LoadConfig(p) \/ LoadRegistry(p)
  <2>1. Head(proc[p].todo) \in {"loadConfig", "loadRegistry"} /\ proc[p].todo # << >>
    BY <1>4 DEF LoadConfig, LoadRegistry, next
  <2>2. CASE fail(p)
    BY <2>1, <2>2, FailMoved DEF ServiceOps
  <2>3. CASE ~fail(p)
    BY <1>0, <1>4, <2>1, <2>3, ReadMoved DEF LoadConfig, LoadRegistry, ServiceOps
  <2> QED BY <2>2, <2>3
<1>5. CASE BackfillMachineMetadata(p)
  <2>1. Head(proc[p].todo) = "backfill" /\ proc[p].todo # << >>
    BY <1>5 DEF BackfillMachineMetadata, next
  <2>2. CASE fail(p) \/ skip(p, 1)
    BY <2>1, <2>2, FailMoved, SkipMoved DEF ServiceOps
  <2>3. CASE ~(fail(p) \/ skip(p, 1))
    <3>1. PICK reg : home' = [home EXCEPT !.projects = reg] /\ goOn(p, [proc[p] EXCEPT !.projects = reg], 1)
      BY <1>5, <2>3 DEF BackfillMachineMetadata
    <3> QED BY <1>0, <2>1, <3>1, ReadMoved DEF ServiceOps
  <2> QED BY <2>2, <2>3
<1>6. CASE runProjectUse(p) \/ runProjectShare(p) \/ runProjectUnshare(p) \/ runProjectRemove(p)
             \/ initOrAdoptProject(p) \/ setDefaultExecutor(p)
  <2>1. CASE runProjectUse(p)
    BY <1>1, <2>1, FailMoved, SaveRegistryMoved DEF runProjectUse, editRegistry, ServiceOps
  <2>2. CASE runProjectShare(p)
    BY <1>1, <2>2, FailMoved, SaveRegistryMoved DEF runProjectShare, editRegistry, ServiceOps
  <2>3. CASE runProjectUnshare(p)
    BY <1>1, <2>3, FailMoved, SaveRegistryMoved DEF runProjectUnshare, editRegistry, ServiceOps
  <2>4. CASE runProjectRemove(p)
    BY <1>1, <2>4, FailMoved, SaveRegistryMoved DEF runProjectRemove, editRegistry, ServiceOps
  <2>5. CASE initOrAdoptProject(p)
    BY <1>1, <2>5, SaveRegistryMoved DEF initOrAdoptProject, ServiceOps
  <2>6. CASE setDefaultExecutor(p)
    BY <1>1, <2>6, SkipMoved, SaveRegistryMoved DEF setDefaultExecutor, ServiceOps
  <2> QED BY <1>6, <2>1, <2>2, <2>3, <2>4, <2>5, <2>6
<1>7. CASE readProject(p) \/ saveProject(p)
  <2>1. CASE readProject(p)
    <3>1. Head(proc[p].todo) = "readProject" /\ proc[p].todo # << >>
      BY <2>1 DEF readProject, next
    <3>2. CASE fail(p)
      BY <3>1, <3>2, FailMoved DEF ServiceOps
    <3>3. CASE ~fail(p)
      <4>1. PICK n \in {1, 2} : (\E v : goOn(p, [proc[p] EXCEPT !.id = v], n)) /\ UNCHANGED home
        BY <2>1, <3>3 DEF readProject
      <4> QED BY <1>0, <3>1, <4>1, ReadMoved DEF ServiceOps
    <3> QED BY <3>2, <3>3
  <2>2. CASE saveProject(p)
    <3>1. /\ Head(proc[p].todo) = "saveProject" /\ proc[p].todo # << >> /\ UNCHANGED home
          /\ \/ goOn(p, [proc[p] EXCEPT !.open = FALSE], 1)
             \/ goOn(p, [proc[p] EXCEPT !.open = TRUE], 0)
      BY <2>2 DEF saveProject, next
    <3> QED BY <1>0, <3>1, OpenMoved DEF ServiceOps
  <2> QED BY <1>7, <2>1, <2>2
<1>8. CASE pickToken(p)
  <2>1. Head(proc[p].todo) = "pickToken" /\ proc[p].todo # << >> /\ UNCHANGED home
    BY <1>8 DEF pickToken, next
  <2>2. \/ \E v : goOn(p, [proc[p] EXCEPT !.token = v], 1) \/ goOn(p, [proc[p] EXCEPT !.token = v], 2)
        \/ proc' = [proc EXCEPT ![p] = Idle]
    BY <1>8 DEF pickToken
  <2> QED BY <1>0, <2>1, <2>2, ReadMoved DEF moved, ServiceOps
<1>9. CASE saveToken(p) \/ saveRelay(p) \/ saveConnector(p) \/ saveGateway(p) \/ UpsertRelayProfile(p)
  BY <1>1, <1>9, WriteMoved DEF saveToken, saveRelay, saveConnector, saveGateway, UpsertRelayProfile, ServiceOps
<1>10. CASE loadOrDefaultGatewayConfig(p)
  <2>1. Head(proc[p].todo) = "readGateway" /\ proc[p].todo # << >>
    BY <1>10 DEF loadOrDefaultGatewayConfig, next
  <2>2. CASE fail(p) \/ skip(p, 1)
    BY <2>1, <2>2, FailMoved, SkipMoved DEF ServiceOps
  <2>3. CASE ~(fail(p) \/ skip(p, 1))
    <3>1. Len(proc[p].todo) - 1 \in Nat
      BY <1>0, <2>1
    <3> QED BY <1>0, <1>10, <2>1, <2>3, <3>1, ReadMoved DEF loadOrDefaultGatewayConfig, ServiceOps
  <2> QED BY <2>2, <2>3
<1>11. CASE readConnector(p) \/ resolveShareEntry(p) \/ loadStatusFile(p) \/ SyncConfig(p)
  <2>1. CASE readConnector(p) \/ resolveShareEntry(p)
    BY <1>0, <1>1, <2>1, ReadMoved, FailMoved, SkipMoved DEF readConnector, resolveShareEntry, ServiceOps
  <2>2. CASE loadStatusFile(p) \/ SyncConfig(p)
    BY <1>0, <1>1, <2>2, ReadMoved, AtomicMoved DEF loadStatusFile, SyncConfig, ServiceOps
  <2> QED BY <1>11, <2>1, <2>2
<1>12. ASSUME NEW cfg, saveConnectorConfig(p, cfg), Head(proc[p].todo) \notin {"loadConfig", "loadRegistry"}
       PROVE  moved(p) /\ DOMAIN home' = Files
  BY <1>0, <1>12, ReadMoved, WriteMoved DEF saveConnectorConfig
<1>13. CASE Enroll(p) \/ ShareInstance(p) \/ UnshareInstance(p)
  BY <1>1, <1>12, <1>13, FailMoved DEF Enroll, ShareInstance, UnshareInstance, ServiceOps
<1> QED BY <1>2, <1>3, <1>4, <1>5, <1>6, <1>7, <1>8, <1>9, <1>10, <1>11, <1>13 DEF fileStep

\* The programs of the commands are sequences of operations.
LEMMA Programs == \A cmd : program(cmd) \in Seq(HomeOps) /\ serviceProgram(cmd) \in Seq(HomeOps)
<1>1. ensureHome \in Seq(HomeOps)
  BY DEF ensureHome, HomeOps
<1>2. /\ runProjectInit \in Seq(HomeOps) /\ setupLocal \in Seq(HomeOps) /\ setupRelay \in Seq(HomeOps)
      /\ setupGateway \in Seq(HomeOps) /\ loadRegistryWithMachine \in Seq(HomeOps)
      /\ runGatewayRelay \in Seq(HomeOps) /\ runConnector \in Seq(HomeOps)
      /\ runConfig \in Seq(HomeOps) /\ runMachine \in Seq(HomeOps)
  BY <1>1 DEF runProjectInit, setupLocal, setupRelay, setupGateway, loadRegistryWithMachine,
       runGatewayRelay, runConnector, runConfig, runMachine, HomeOps
<1>3. runExecutor \in Seq(HomeOps) /\ setupSelfHost \in Seq(HomeOps) /\ runProjectList \in Seq(HomeOps)
  BY <1>2 DEF runExecutor, setupSelfHost, runProjectList, HomeOps
<1>4. runShare \in Seq(HomeOps) /\ runUnshare \in Seq(HomeOps)
  BY DEF runShare, runUnshare, HomeOps
<1>5. \A cmd : cmd.name \in {"use", "share", "unshare", "remove"} =>
        loadRegistryWithMachine \o <<cmd.name>> \in Seq(HomeOps)
  <2>1. \A x \in HomeOps : <<x>> \in Seq(HomeOps)
    OBVIOUS
  <2>2. \A x \in HomeOps : loadRegistryWithMachine \o <<x>> \in Seq(HomeOps)
    BY <1>2, <2>1
  <2> QED BY <2>2 DEF HomeOps
<1>6. \A cmd : runService(cmd) \in Seq(HomeOps)
  <2> TAKE cmd
  <2>1. (IF cmd.name \in {"install", "start", "restart"} THEN ensureHome \o <<"writeDaemonConfig">> ELSE <<>>)
          \in Seq(HomeOps)
    <3>1. ensureHome \o <<"writeDaemonConfig">> \in Seq(HomeOps) /\ << >> \in Seq(HomeOps)
      BY <1>1 DEF HomeOps
    <3> QED BY <3>1, Zenon
  <2> QED BY <2>1 DEF runService, HomeOps
<1>7. \A cmd : serviceProgram(cmd) \in Seq(HomeOps)
  <2>1. runRecover \in Seq(HomeOps) /\ runWatchdog \in Seq(HomeOps)
    BY DEF runRecover, runWatchdog, HomeOps
  <2> QED BY <1>6, <2>1, Zenon DEF serviceProgram
<1>8. << >> \in Seq(HomeOps)
  OBVIOUS
<1>9. ASSUME NEW cmd PROVE program(cmd) \in Seq(HomeOps)
  BY <1>2, <1>3, <1>4, <1>5, <1>8 DEF program
<1> QED BY <1>7, <1>9

\* A step of a process moves it, or begins a command of the scenario.
begun(p) ==
  /\ p \in scene.procs /\ proc[p].todo = << >> /\ UNCHANGED home
  /\ \E cmd : \E t \in Seq(HomeOps) : proc' = [proc EXCEPT ![p] = [Idle EXCEPT !.cmd = cmd, !.todo = t]]

\* What a moved or begun process looks like.
LEMMA MovedTypes ==
  ASSUME HomeTypes, NEW p \in Procs, UNCHANGED scene, DOMAIN home' = Files,
         begun(p) \/ (moved(p) /\ proc[p].todo # << >>)
  PROVE  HomeTypes' /\ \A q \in Procs : q # p => proc'[q] = proc[q]
<1>1. PICK w : /\ proc' = [proc EXCEPT ![p] = w] /\ DOMAIN w = ProcFields /\ w.todo \in Seq(HomeOps)
  <2>1. CASE begun(p)
    <3>1. PICK cmd, t : /\ proc' = [proc EXCEPT ![p] = [Idle EXCEPT !.cmd = cmd, !.todo = t]]
                        /\ t \in Seq(HomeOps)
      BY <2>1 DEF begun
    <3>2. /\ DOMAIN [Idle EXCEPT !.cmd = cmd, !.todo = t] = ProcFields
          /\ [Idle EXCEPT !.cmd = cmd, !.todo = t].todo = t
      BY IdleFields DEF ProcFields
    <3> QED BY <3>1, <3>2
  <2>2. CASE proc' = [proc EXCEPT ![p] = Idle]
    <3>1. << >> \in Seq(HomeOps)
      OBVIOUS
    <3> QED BY <2>2, <3>1, IdleFields
  <2>3. ASSUME NEW w, NEW n \in Nat, DOMAIN w = ProcFields, goOn(p, w, n)
        PROVE  \E x : proc' = [proc EXCEPT ![p] = x] /\ DOMAIN x = ProcFields /\ x.todo \in Seq(HomeOps)
    <3>1. proc' = [proc EXCEPT ![p] = [w EXCEPT !.todo = rest(p, n)]]
      BY <2>3 DEF goOn
    <3>2. rest(p, n) \in Seq(HomeOps)
      BY RestOf DEF rest, HomeTypes
    <3>3. DOMAIN [w EXCEPT !.todo = rest(p, n)] = ProcFields /\ [w EXCEPT !.todo = rest(p, n)].todo = rest(p, n)
      BY <2>3 DEF ProcFields
    <3> QED BY <3>1, <3>2, <3>3
  <2> QED BY <2>1, <2>2, <2>3 DEF moved
<1>2. p \in scene.procs
  BY DEF begun, HomeTypes
<1> QED BY <1>1, <1>2 DEF HomeTypes

\* The steps of one process.
LEMMA HomeStepMoves ==
  ASSUME HomeTypes, NEW p \in Procs, homeStep(p)
  PROVE  /\ UNCHANGED scene /\ DOMAIN home' = Files
         /\ begun(p) \/ (moved(p) /\ proc[p].todo # << >>)
<1>1. CASE begin(p)
  <2>1. PICK cmd \in scene.cmds : beginWith(p, cmd, program(cmd))
    BY <1>1 DEF begin
  <2> QED BY <2>1, Programs DEF beginWith, begun, free, HomeTypes, homeStep
<1>2. CASE killed(p)
  BY <1>2, FailMoved DEF killed, free, homeStep
<1>3. CASE fileStep(p)
  BY <1>3, FileMoved DEF homeStep
<1> QED BY <1>1, <1>2, <1>3 DEF homeStep

\* The steps of a service command.
LEMMA ServiceStepMoves ==
  ASSUME HomeTypes, NEW p \in Procs, serviceStep(p) \/ beginService(p)
  PROVE  /\ UNCHANGED scene /\ UNCHANGED home
         /\ begun(p) \/ (moved(p) /\ proc[p].todo # << >>)
<1>1. CASE beginService(p)
  <2>1. PICK cmd \in scene.cmds : beginWith(p, cmd, serviceProgram(cmd)) /\ UNCHANGED scene
    BY <1>1 DEF beginService
  <2> QED BY <2>1, Programs DEF beginWith, begun, free
<1>2. CASE serviceStep(p)
  <2>1. DOMAIN proc[p] = ProcFields
    BY DEF HomeTypes
  <2>2. ASSUME NEW w, NEW n \in Nat, DOMAIN w = ProcFields, w.cmd = proc[p].cmd, goOn(p, w, n),
               Head(proc[p].todo) \in ServiceOps
        PROVE  moved(p)
    BY <2>2 DEF moved, ServiceOps
  <2>3. /\ UNCHANGED scene /\ UNCHANGED home /\ proc[p].todo # << >>
        /\ Head(proc[p].todo) \in ServiceOps
    BY <1>2 DEF serviceStep, resolveRuntimeContext, pickServices, writeGeneratedConfigs,
         performServiceAction, serviceReported, inspectService, recoverServices, Recover, WatchdogOnce,
         skip, next, ServiceOps
  <2>4. CASE resolveRuntimeContext(p)
    <3>1. PICK v : goOn(p, [proc[p] EXCEPT !.id = v], 1)
      BY <2>4 DEF resolveRuntimeContext
    <3> QED BY <2>1, <2>2, <2>3, <3>1 DEF ProcFields
  <2>5. CASE pickServices(p)
    <3>1. PICK v : goOn(p, [proc[p] EXCEPT !.svcs = v], 1)
      BY <2>5 DEF pickServices
    <3> QED BY <2>1, <2>2, <2>3, <3>1 DEF ProcFields
  <2>6. CASE writeGeneratedConfigs(p)
    BY <2>1, <2>2, <2>3, <2>6 DEF writeGeneratedConfigs
  <2>7. CASE performServiceAction(p)
    <3> DEFINE later == [proc[p] EXCEPT !.svcs = Tail(proc[p].svcs)]
               noted == [later EXCEPT !.failed = @ \cup {Head(proc[p].svcs)}]
    <3>1. goOn(p, later, 0) \/ goOn(p, noted, 0)
      BY <2>7 DEF performServiceAction
    <3>2. DOMAIN later = ProcFields /\ later.cmd = proc[p].cmd
      BY <2>1 DEF ProcFields
    <3>3. DOMAIN noted = ProcFields /\ noted.cmd = proc[p].cmd
      BY <3>2 DEF ProcFields
    <3> HIDE DEF later, noted
    <3> QED BY <2>2, <2>3, <3>1, <3>2, <3>3
  <2>8. CASE serviceReported(p) \/ Recover(p) \/ WatchdogOnce(p)
    BY <2>1, <2>2, <2>3, <2>8 DEF serviceReported, Recover, WatchdogOnce, skip
  <2>9. CASE inspectService(p)
    <3>1. goOn(p, [proc[p] EXCEPT !.open = TRUE], 0) \/ goOn(p, [proc[p] EXCEPT !.svcs = Tail(@)], 0)
      BY <2>9 DEF inspectService
    <3> QED BY <2>1, <2>2, <2>3, <3>1 DEF ProcFields
  <2>10. CASE recoverServices(p)
    <3> DEFINE later == [proc[p] EXCEPT !.svcs = Tail(@), !.open = FALSE]
               noted == [later EXCEPT !.failed = @ \cup {Head(proc[p].svcs)}]
    <3>1. goOn(p, later, 0) \/ goOn(p, noted, 0)
      BY <2>10 DEF recoverServices
    <3>2. DOMAIN later = ProcFields /\ later.cmd = proc[p].cmd
      BY <2>1 DEF ProcFields
    <3>3. DOMAIN noted = ProcFields /\ noted.cmd = proc[p].cmd
      BY <3>2 DEF ProcFields
    <3> HIDE DEF later, noted
    <3> QED BY <2>2, <2>3, <3>1, <3>2, <3>3
  <2> QED BY <1>2, <2>3, <2>4, <2>5, <2>6, <2>7, <2>8, <2>9, <2>10 DEF serviceStep
<1> QED BY <1>1, <1>2

\* The connector writes its status, the registry and the machine only.
LEMMA ConnectorHome ==
  ASSUME HomeTypes, connectorStep
  PROVE  /\ HomeTypes' /\ UNCHANGED <<scene, proc, repos>>
         /\ home'.relay = home.relay /\ home'.connector = home.connector /\ home'.config = home.config
         /\ home'.token = home.token
<1>1. CASE UNCHANGED homeVars
  BY <1>1 DEF homeVars, HomeTypes
<1>2. ASSUME NEW f \in {"status", "machine", "projects"}, NEW v, files([home EXCEPT ![f] = v])
      PROVE  /\ HomeTypes' /\ UNCHANGED <<scene, proc, repos>>
             /\ home'.relay = home.relay /\ home'.connector = home.connector /\ home'.config = home.config
             /\ home'.token = home.token
  <2>1. /\ DOMAIN home' = Files /\ UNCHANGED <<scene, proc, repos>>
        /\ \A g \in Files : g # f => home'[g] = home[g]
    BY <1>2 DEF files, HomeTypes
  <2>2. /\ home'.relay = home.relay /\ home'.connector = home.connector /\ home'.config = home.config
        /\ home'.token = home.token
    BY <2>1 DEF Files
  <2> QED BY <2>1, <2>2 DEF HomeTypes
<1>3. ASSUME NEW op, NEW st, update(op, st)
      PROVE  \E v : files([home EXCEPT !.status = v])
  BY <1>3 DEF update
<1>4. CASE MarkConnecting \/ MarkConnectedWithProjects \/ MarkFailure \/ MarkDisconnected
  <2>1. \E v : files([home EXCEPT !.status = v])
    BY <1>3, <1>4 DEF MarkConnecting, MarkConnectedWithProjects, MarkFailure, MarkDisconnected
  <2> QED BY <1>2, <2>1
<1>5. CASE ensureMachine
  BY <1>1, <1>2, <1>5 DEF ensureMachine
<1>6. CASE backfillRegistry
  BY <1>1, <1>2, <1>6 DEF backfillRegistry
<1>7. CASE \/ NewClient \/ fetchChallenge \/ reloadConfig \/ SharedProjects \/ resolveInstances
           \/ writeAdvertise \/ heartbeatLoop \/ sessionLost \/ connectorStops
  BY <1>1, <1>7 DEF NewClient, fetchChallenge, reloadConfig, SharedProjects, resolveInstances,
       writeAdvertise, heartbeatLoop, sessionLost, connectorStops
<1> QED BY <1>4, <1>5, <1>6, <1>7 DEF connectorStep

\* Every step of the workstation preserves the types.
LEMMA HomeTypesInv == HomeTypes /\ [workstationStep]_workstationVars => HomeTypes'
<1> SUFFICES ASSUME HomeTypes, [workstationStep]_workstationVars PROVE HomeTypes'
  OBVIOUS
<1>1. ASSUME NEW p \in Procs, homeStep(p) \/ beginService(p) \/ serviceStep(p)
      PROVE  HomeTypes'
  <2>1. UNCHANGED scene /\ DOMAIN home' = Files /\ (begun(p) \/ (moved(p) /\ proc[p].todo # << >>))
    BY <1>1, HomeStepMoves, ServiceStepMoves DEF HomeTypes
  <2> QED BY <2>1, MovedTypes
<1>2. CASE UNCHANGED <<scene, home, proc>>
  BY <1>2 DEF HomeTypes
<1>3. CASE loseRepo
  BY <1>2, <1>3 DEF loseRepo
<1>4. CASE \E s \in ServiceNames : serviceExits(s) \/ managerRestarts(s)
  BY <1>2, <1>4 DEF serviceExits, managerRestarts, homeVars
<1>5. CASE connectorStep
  BY <1>5, ConnectorHome
<1> QED BY <1>1, <1>2, <1>3, <1>4, <1>5 DEF workstationStep, workstationVars, homeVars

-----------------------------------------------------------------------------
(* The order in which services stop.                                       *)

\* The operations of a stop, by how many are left after them.
stage(n) ==
  CASE n = 0 -> "serve" [] n = 1 -> "pick" [] n = 2 -> "resolve" [] n = 3 -> "loadRegistry"
    [] OTHER -> "loadConfig"

Stopping(t) ==
  /\ t \in Seq(HomeOps) /\ Len(t) <= 5
  /\ \A i \in 1..Len(t) : t[i] = stage(Len(t) - i)

\* The only process stops all services, and none of them exits by itself.
lone(p) == scene.procs = {p} /\ ~scene.exits /\ proc[p].cmd.service = "all"

\* Nothing was done yet, and the connector comes first, or it has been tried.
inTurn(p) ==
  /\ proc[p].svcs \in Seq(ServiceNames)
  /\ \/ /\ \A s \in ServiceNames : configured(p, s) => \E i \in 1..Len(proc[p].svcs) : proc[p].svcs[i] = s
        /\ connectorSpec(p) => proc[p].svcs[1] = "connector"
     \/ ~connectorSpec(p) \/ "connector" \in proc[p].failed \/ active["connector"] # "on"

ManagerInv ==
  /\ active \in [ServiceNames -> {"off", "on", "exited"}]
  /\ scene.manager = "manual" => loaded = {} /\ \A s \in ServiceNames : active[s] = "off"
  /\ ~scene.exits => \A s \in ServiceNames : active[s] # "exited"

\* A command that stops services goes through its stages, and takes the
\* connector first.
stopsInTurn(p) ==
  proc[p].todo # << >> /\ proc[p].cmd.name \in {"stop", "uninstall"} =>
    /\ Stopping(proc[p].todo)
    /\ Head(proc[p].todo) = "serve" /\ lone(p) => inTurn(p)

StopInv == HomeTypes /\ ManagerInv /\ \A p \in Procs : stopsInTurn(p)

\* Where a stop is, and the rest of it.
LEMMA StopAt ==
  ASSUME NEW t, Stopping(t), t # << >>
  PROVE  /\ Head(t) \in {"serve", "pick", "resolve", "loadRegistry", "loadConfig"}
         /\ Head(t) = "serve" => SubSeq(t, 2, Len(t)) = << >>
         /\ Head(t) # "serve" => SubSeq(t, 2, Len(t)) # << >>
         /\ Stopping(SubSeq(t, 2, Len(t)))
         /\ Head(t) \in {"resolve", "loadRegistry", "loadConfig"} => Head(SubSeq(t, 2, Len(t))) # "serve"
<1>1. /\ t \in Seq(HomeOps) /\ Len(t) \in 1..5 /\ Head(t) = t[1] /\ t[1] = stage(Len(t) - 1)
  <2>1. t \in Seq(HomeOps) /\ Len(t) \in 1..5
    <3>1. t \in Seq(HomeOps) /\ Len(t) \in Nat /\ Len(t) <= 5
      BY DEF Stopping
    <3>2. Len(t) # 0
      BY <3>1, EmptySeq
    <3>3. \A n \in Nat : n <= 5 /\ n # 0 => n \in 1..5
      OBVIOUS
    <3> QED BY <3>1, <3>2, <3>3, Zenon
  <2>2. 1 \in 1..Len(t)
    BY <2>1
  <2>3. t[1] = stage(Len(t) - 1)
    BY <2>2 DEF Stopping
  <2> QED BY <2>1, <2>3
<1>2. PICK r : r = SubSeq(t, 2, Len(t))
  OBVIOUS
<1>3. /\ r \in Seq(HomeOps) /\ Len(r) = Len(t) - 1 /\ \A i \in 1..Len(r) : r[i] = t[i + 1]
  <2>1. /\ SubSeq(t, 1 + 1, Len(t)) \in Seq(HomeOps)
        /\ 1 <= Len(t) => Len(SubSeq(t, 1 + 1, Len(t))) = Len(t) - 1
        /\ \A i \in 1..(Len(t) - 1) : SubSeq(t, 1 + 1, Len(t))[i] = t[i + 1]
    BY <1>1, RestOf
  <2>2. SubSeq(t, 1 + 1, Len(t)) = r
    BY <1>2
  <2> QED BY <1>1, <2>1, <2>2
<1>4. ASSUME NEW i \in 1..Len(r) PROVE r[i] = stage(Len(r) - i)
  <2>1. i + 1 \in 1..Len(t) /\ Len(t) - (i + 1) = Len(r) - i /\ r[i] = t[i + 1]
    BY <1>1, <1>3
  <2> QED BY <2>1 DEF Stopping
<1>5. Stopping(r)
  BY <1>1, <1>3, <1>4 DEF Stopping
<1>6. PICK n \in 1..5 : n = Len(t) /\ Head(t) = stage(n - 1) /\ Len(r) = n - 1
  BY <1>1, <1>3
<1>7. /\ Head(t) \in {"serve", "pick", "resolve", "loadRegistry", "loadConfig"}
      /\ Head(t) = "serve" <=> n = 1
      /\ Head(t) \in {"resolve", "loadRegistry", "loadConfig"} => n \in 3..5
  BY <1>6 DEF stage
<1>8. n \in 3..5 => Head(r) # "serve"
  <2> SUFFICES ASSUME n \in 3..5 PROVE Head(r) # "serve"
    OBVIOUS
  <2>1. 1 \in 1..Len(r) /\ Head(r) = r[1]
    BY <1>3, <1>6
  <2>2. Head(r) = stage(n - 2)
    BY <1>4, <1>6, <2>1
  <2> QED BY <2>2 DEF stage
<1>9. (n = 1 => r = << >>) /\ (n # 1 => r # << >>)
  BY <1>3, <1>6
<1> QED BY <1>2, <1>5, <1>7, <1>8, <1>9

\* Concatenation, and what is in it.
LEMMA Appended ==
  ASSUME NEW S, NEW a \in Seq(S), NEW b \in Seq(S)
  PROVE  /\ a \o b \in Seq(S) /\ Len(a \o b) = Len(a) + Len(b)
         /\ \A i \in 1..Len(a) : (a \o b)[i] = a[i]
         /\ \A i \in 1..Len(b) : (a \o b)[i + Len(a)] = b[i]
OBVIOUS

\* Four operations and one more.
LEMMA FourAndOne ==
  ASSUME NEW a \in Seq(HomeOps), NEW b \in Seq(HomeOps)
  PROVE  Len(a) = 4 /\ Len(b) = 1 =>
           /\ a \o b \in Seq(HomeOps) /\ Len(a \o b) = 5
           /\ (a \o b)[1] = a[1] /\ (a \o b)[2] = a[2] /\ (a \o b)[3] = a[3] /\ (a \o b)[4] = a[4]
           /\ (a \o b)[5] = b[1]
<1>1. PICK c : c = a \o b
  OBVIOUS
<1>2. /\ c \in Seq(HomeOps) /\ Len(c) = Len(a) + Len(b)
      /\ \A i \in 1..Len(a) : c[i] = a[i]
      /\ \A i \in 1..Len(b) : c[i + Len(a)] = b[i]
  <2>1. /\ a \o b \in Seq(HomeOps) /\ Len(a \o b) = Len(a) + Len(b)
        /\ \A i \in 1..Len(a) : (a \o b)[i] = a[i]
        /\ \A i \in 1..Len(b) : (a \o b)[i + Len(a)] = b[i]
    BY Appended
  <2> QED BY <1>1, <2>1, Zenon
<1> SUFFICES ASSUME Len(a) = 4, Len(b) = 1
             PROVE  /\ c \in Seq(HomeOps) /\ Len(c) = 5
                    /\ c[1] = a[1] /\ c[2] = a[2] /\ c[3] = a[3] /\ c[4] = a[4] /\ c[5] = b[1]
  BY <1>1, Zenon
<1>3. Len(c) = 5 /\ (\A i \in 1..4 : c[i] = a[i]) /\ \A i \in 1..1 : c[i + 4] = b[i]
  BY <1>2
<1>4. c[1] = a[1] /\ c[2] = a[2] /\ c[3] = a[3] /\ c[4] = a[4]
  BY <1>3
<1>5. c[5] = b[1]
  BY <1>3
<1> QED BY <1>2, <1>3, <1>4, <1>5, Zenon

\* The operations of a stop are in its stages.
LEMMA StopProgram ==
  ASSUME NEW cmd, cmd.name \in {"stop", "uninstall"}
  PROVE  /\ program(cmd) = << >>
         /\ Stopping(serviceProgram(cmd)) /\ Head(serviceProgram(cmd)) # "serve"
<1>1. program(cmd) = << >>
  BY DEF program
<1> DEFINE a == <<"loadConfig", "loadRegistry", "resolve", "pick">>
           b == <<"serve">>
<1>2. /\ a \in Seq(HomeOps) /\ Len(a) = 4 /\ b \in Seq(HomeOps) /\ Len(b) = 1
      /\ a[1] = "loadConfig" /\ a[2] = "loadRegistry" /\ a[3] = "resolve" /\ a[4] = "pick"
      /\ b[1] = "serve"
  BY DEF HomeOps
<1>3. serviceProgram(cmd) = a \o << >> \o b
  BY DEF serviceProgram, runService
<1> HIDE DEF a, b
<1>4. a \o << >> = a
  BY <1>2, ConcatEmptySeq, Zenon
<1>5. PICK t : t = a \o b
  OBVIOUS
<1>6. /\ t \in Seq(HomeOps) /\ Len(t) = 5 /\ t[1] = "loadConfig" /\ t[2] = "loadRegistry"
      /\ t[3] = "resolve" /\ t[4] = "pick" /\ t[5] = "serve"
  BY <1>2, <1>5, FourAndOne, Zenon
<1>7. Stopping(t) /\ Head(t) # "serve"
  <2>1. \A i \in 1..5 : t[i] = stage(5 - i)
    BY <1>6 DEF stage
  <2>2. Head(t) = t[1]
    BY <1>6
  <2> QED BY <1>6, <2>1, <2>2 DEF Stopping
<1> QED BY <1>1, <1>3, <1>4, <1>5, <1>7

\* What a service command that stops everything chooses.
LEMMA ChosenInTurn ==
  ASSUME NEW p, proc[p].cmd.name \in {"stop", "uninstall"}, proc[p].cmd.service = "all", NEW r,
         r = chosen(p, orderSpecsForAction(proc[p].cmd.name))
  PROVE  /\ r \in Seq(ServiceNames)
         /\ \A s \in ServiceNames : configured(p, s) => \E i \in 1..Len(r) : r[i] = s
         /\ connectorSpec(p) => r[1] = "connector"
<1> DEFINE kept(s) == IF s \in selectSpecs(p) /\ configured(p, s) THEN <<s>> ELSE <<>>
<1>1. PICK a, b, c : a = kept("connector") /\ b = kept("daemon") /\ c = kept("relay")
  OBVIOUS
<1>2. r = a \o b \o c
  BY <1>1 DEF chosen, orderSpecsForAction
<1>3. ASSUME NEW s \in ServiceNames, NEW k, k = kept(s)
      PROVE  /\ k \in Seq(ServiceNames)
             /\ configured(p, s) => 1 \in 1..Len(k) /\ k[1] = s
  BY <1>3 DEF selectSpecs
<1>4. /\ a \in Seq(ServiceNames) /\ b \in Seq(ServiceNames) /\ c \in Seq(ServiceNames)
      /\ configured(p, "connector") => 1 \in 1..Len(a) /\ a[1] = "connector"
      /\ configured(p, "daemon") => 1 \in 1..Len(b) /\ b[1] = "daemon"
      /\ configured(p, "relay") => 1 \in 1..Len(c) /\ c[1] = "relay"
  <2>1. "connector" \in ServiceNames /\ "daemon" \in ServiceNames /\ "relay" \in ServiceNames
    BY DEF ServiceNames
  <2> HIDE DEF kept
  <2> QED BY <1>1, <1>3, <2>1, Zenon
<1> HIDE DEF kept
<1>5. PICK d : d = a \o b
  OBVIOUS
<1>6. /\ d \in Seq(ServiceNames) /\ Len(d) = Len(a) + Len(b)
      /\ \A i \in 1..Len(a) : d[i] = a[i]
      /\ \A i \in 1..Len(b) : d[i + Len(a)] = b[i]
  <2>1. /\ a \o b \in Seq(ServiceNames) /\ Len(a \o b) = Len(a) + Len(b)
        /\ \A i \in 1..Len(a) : (a \o b)[i] = a[i]
        /\ \A i \in 1..Len(b) : (a \o b)[i + Len(a)] = b[i]
    BY <1>4, Appended
  <2> QED BY <1>5, <2>1, Zenon
<1>7. /\ r \in Seq(ServiceNames) /\ Len(r) = Len(d) + Len(c)
      /\ \A i \in 1..Len(d) : r[i] = d[i]
      /\ \A i \in 1..Len(c) : r[i + Len(d)] = c[i]
  <2>1. /\ d \o c \in Seq(ServiceNames) /\ Len(d \o c) = Len(d) + Len(c)
        /\ \A i \in 1..Len(d) : (d \o c)[i] = d[i]
        /\ \A i \in 1..Len(c) : (d \o c)[i + Len(d)] = c[i]
    <3>1. c \in Seq(ServiceNames) /\ d \in Seq(ServiceNames)
      BY <1>4, <1>6
    <3> QED BY <3>1, Appended
  <2> QED BY <1>2, <1>5, <2>1, Zenon
<1>8. Len(a) \in Nat /\ Len(b) \in Nat /\ Len(c) \in Nat /\ Len(d) \in Nat /\ Len(r) \in Nat
  BY <1>4, <1>6, <1>7
<1>9. configured(p, "connector") => 1 \in 1..Len(r) /\ r[1] = "connector"
  BY <1>4, <1>6, <1>7, <1>8
<1>10. configured(p, "daemon") => 1 + Len(a) \in 1..Len(r) /\ r[1 + Len(a)] = "daemon"
  BY <1>4, <1>6, <1>7, <1>8
<1>11. configured(p, "relay") => 1 + Len(d) \in 1..Len(r) /\ r[1 + Len(d)] = "relay"
  BY <1>4, <1>7, <1>8
<1>12. ASSUME NEW s \in ServiceNames, configured(p, s) PROVE \E i \in 1..Len(r) : r[i] = s
  BY <1>9, <1>10, <1>11, <1>12 DEF ServiceNames
<1>13. connectorSpec(p) => configured(p, "connector")
  BY DEF configured
<1> QED BY <1>7, <1>9, <1>12, <1>13

\* A process that works is one of the scenario's.
LEMMA Alone ==
  ASSUME HomeTypes, NEW p \in Procs, begun(p) \/ (moved(p) /\ proc[p].todo # << >>),
         NEW q \in Procs, lone(q)
  PROVE  q = p
BY DEF HomeTypes, begun, lone

\* A command whose options stay and that has not reached its services.
LEMMA EarlyStop ==
  ASSUME HomeTypes, NEW p \in Procs, stopsInTurn(p), moved(p), proc[p].todo # << >>,
         Head(proc[p].todo) \notin {"pick", "serve"},
         Head(proc[p].todo) = "resolve" => \E w : w.cmd = proc[p].cmd /\ DOMAIN w = ProcFields /\ goOn(p, w, 1)
  PROVE  stopsInTurn(p)'
<1> SUFFICES ASSUME proc'[p].todo # << >>, proc'[p].cmd.name \in {"stop", "uninstall"}
             PROVE  Stopping(proc'[p].todo) /\ Head(proc'[p].todo) # "serve"
  BY DEF stopsInTurn
<1>1. proc' # [proc EXCEPT ![p] = Idle]
  BY IdleFields DEF HomeTypes
<1>2. ASSUME NEW w, NEW n \in Nat, DOMAIN w = ProcFields, w.cmd = proc[p].cmd, goOn(p, w, n)
      PROVE  proc'[p].cmd = proc[p].cmd /\ proc'[p].todo = rest(p, n)
  BY <1>2 DEF goOn, HomeTypes, ProcFields
<1>3. proc'[p].cmd = proc[p].cmd
  BY <1>1, <1>2 DEF moved
<1>4. Stopping(proc[p].todo)
  BY <1>3 DEF stopsInTurn
<1>5. Head(proc[p].todo) \in {"resolve", "loadRegistry", "loadConfig"}
  BY <1>4, StopAt
<1>6. proc'[p].todo = rest(p, 1)
  BY <1>1, <1>2, <1>5 DEF moved
<1>7. proc'[p].todo = SubSeq(proc[p].todo, 2, Len(proc[p].todo))
  BY <1>6 DEF rest
<1> QED BY <1>4, <1>5, <1>7, StopAt

\* The services of a stop are chosen.
LEMMA PickInTurn ==
  ASSUME HomeTypes, NEW p \in Procs, stopsInTurn(p), pickServices(p), UNCHANGED scene
  PROVE  stopsInTurn(p)'
<1>1. /\ proc[p].todo # << >> /\ Head(proc[p].todo) = "pick" /\ UNCHANGED home /\ UNCHANGED serviceVars
  BY DEF pickServices, next
<1>2. PICK v : v = chosen(p, orderSpecsForAction(proc[p].cmd.name)) /\ goOn(p, [proc[p] EXCEPT !.svcs = v], 1)
  BY DEF pickServices
<1>3. /\ proc'[p].cmd = proc[p].cmd /\ proc'[p].todo = rest(p, 1) /\ proc'[p].svcs = v
      /\ proc'[p].id = proc[p].id /\ proc'[p].config = proc[p].config
  BY <1>2 DEF goOn, HomeTypes, ProcFields
<1> SUFFICES ASSUME proc'[p].todo # << >>, proc'[p].cmd.name \in {"stop", "uninstall"}
             PROVE  Stopping(proc'[p].todo) /\ (lone(p)' => inTurn(p)')
  BY DEF stopsInTurn
<1>4. Stopping(proc[p].todo)
  BY <1>1, <1>3 DEF stopsInTurn
<1>5. proc'[p].todo = SubSeq(proc[p].todo, 2, Len(proc[p].todo))
  BY <1>3 DEF rest
<1>6. Stopping(proc'[p].todo)
  BY <1>1, <1>4, <1>5, StopAt
<1>7. ASSUME lone(p)' PROVE inTurn(p)'
  <2>1. proc[p].cmd.name \in {"stop", "uninstall"} /\ proc[p].cmd.service = "all"
    BY <1>3, <1>7 DEF lone
  <2>2. /\ v \in Seq(ServiceNames)
        /\ \A s \in ServiceNames : configured(p, s) => \E i \in 1..Len(v) : v[i] = s
        /\ connectorSpec(p) => v[1] = "connector"
    BY <1>2, <2>1, ChosenInTurn
  <2>3. /\ \A s \in ServiceNames : configured(p, s)' <=> configured(p, s)
        /\ connectorSpec(p)' <=> connectorSpec(p)
    BY <1>1, <1>3 DEF configured, daemonSpec, relaySpec, connectorSpec
  <2> HIDE DEF configured, connectorSpec
  <2> QED BY <1>3, <2>2, <2>3 DEF inTurn
<1> QED BY <1>6, <1>7

\* What a manager does to a service that is to be stopped.
LEMMA Stopped ==
  ASSUME ManagerInv, NEW p, NEW s, NEW action \in {"stop", "uninstall"}, managerDoes(p, s, action)
  PROVE  /\ active' = [active EXCEPT ![s] = "off"]
         /\ scene.manager # "manual"
BY DEF ManagerInv, managerDoes, launchdDoes, systemdDoes, Uninstall, launchdStop, systemdStop

\* One service of a stop.
LEMMA ServeInTurn ==
  ASSUME HomeTypes, ManagerInv, NEW p \in Procs, stopsInTurn(p), performServiceAction(p), UNCHANGED scene
  PROVE  stopsInTurn(p)'
<1> DEFINE s == Head(proc[p].svcs)
           action == proc[p].cmd.name
           later == [proc[p] EXCEPT !.svcs = Tail(proc[p].svcs)]
           noted == [later EXCEPT !.failed = @ \cup {s}]
<1>1. /\ proc[p].todo # << >> /\ Head(proc[p].todo) = "serve" /\ proc[p].svcs # << >> /\ UNCHANGED home
      /\ \/ managerDoes(p, s, action) /\ goOn(p, later, 0)
         \/ managerFails(s, action) /\ goOn(p, noted, 0)
         \/ manualDoes /\ goOn(p, later, 0)
  BY DEF performServiceAction, next
<1>2. ASSUME NEW w, goOn(p, w, 0), w = later \/ w = noted
      PROVE  /\ proc'[p].todo = rest(p, 0) /\ proc'[p].cmd = proc[p].cmd /\ proc'[p].config = proc[p].config
             /\ proc'[p].id = proc[p].id /\ proc'[p].svcs = Tail(proc[p].svcs)
             /\ proc'[p].failed = IF w = later THEN proc[p].failed ELSE proc[p].failed \cup {s}
  <2>1. DOMAIN later = ProcFields /\ DOMAIN noted = ProcFields
    BY DEF HomeTypes, ProcFields
  <2>2. proc'[p] = [w EXCEPT !.todo = rest(p, 0)]
    BY <1>2 DEF goOn, HomeTypes
  <2>3. /\ w.cmd = proc[p].cmd /\ w.config = proc[p].config /\ w.id = proc[p].id
        /\ w.svcs = Tail(proc[p].svcs) /\ w.failed = IF w = later THEN proc[p].failed ELSE proc[p].failed \cup {s}
    BY <1>2, <2>1 DEF ProcFields, HomeTypes
  <2> HIDE DEF later, noted
  <2> QED BY <1>2, <2>1, <2>2, <2>3 DEF ProcFields
<1>3. rest(p, 0) = proc[p].todo
  BY DEF rest, HomeTypes
<1>4. /\ proc'[p].todo = proc[p].todo /\ proc'[p].cmd = proc[p].cmd /\ proc'[p].config = proc[p].config
      /\ proc'[p].id = proc[p].id /\ proc'[p].svcs = Tail(proc[p].svcs)
      /\ \A x \in proc[p].failed : x \in proc'[p].failed
      /\ managerFails(s, action) => s \in proc'[p].failed \/ managerDoes(p, s, action) \/ manualDoes
  <2> HIDE DEF s, action
  <2> SUFFICES ASSUME NEW w, w = later \/ w = noted, goOn(p, w, 0),
                      managerFails(s, action) => w = noted \/ managerDoes(p, s, action) \/ manualDoes
               PROVE  /\ proc'[p].todo = proc[p].todo /\ proc'[p].cmd = proc[p].cmd
                      /\ proc'[p].config = proc[p].config
                      /\ proc'[p].id = proc[p].id /\ proc'[p].svcs = Tail(proc[p].svcs)
                      /\ \A x \in proc[p].failed : x \in proc'[p].failed
                      /\ managerFails(s, action) => s \in proc'[p].failed \/ managerDoes(p, s, action) \/ manualDoes
    <3> HIDE DEF later, noted
    <3> QED BY <1>1
  <2>1. later # noted \/ s \in proc[p].failed
    <3>1. later.failed = proc[p].failed /\ noted.failed = proc[p].failed \cup {s}
      BY DEF HomeTypes, ProcFields
    <3> HIDE DEF later, noted
    <3> QED BY <3>1
  <2>2. /\ proc'[p].todo = rest(p, 0) /\ proc'[p].cmd = proc[p].cmd /\ proc'[p].config = proc[p].config
        /\ proc'[p].id = proc[p].id /\ proc'[p].svcs = Tail(proc[p].svcs)
        /\ proc'[p].failed = IF w = later THEN proc[p].failed ELSE proc[p].failed \cup {s}
    BY <1>2
  <2> HIDE DEF later, noted
  <2> QED BY <1>3, <2>1, <2>2
<1> HIDE DEF later, noted
<1> SUFFICES ASSUME action \in {"stop", "uninstall"}
             PROVE  Stopping(proc'[p].todo) /\ (lone(p)' => inTurn(p)')
  BY <1>4 DEF stopsInTurn
<1>5. Stopping(proc'[p].todo)
  BY <1>1, <1>4 DEF stopsInTurn
<1>6. ASSUME lone(p)' PROVE inTurn(p)'
  <2>1. lone(p) /\ inTurn(p)
    BY <1>1, <1>4, <1>6 DEF lone, stopsInTurn
  <2>2. Tail(proc[p].svcs) \in Seq(ServiceNames) /\ Head(proc[p].svcs) = proc[p].svcs[1]
    BY <1>1, <2>1 DEF inTurn
  <2>3. connectorSpec(p)' <=> connectorSpec(p)
    BY <1>1, <1>4 DEF connectorSpec
  <2>4. managerDoes(p, s, action) \/ managerFails(s, action) \/ manualDoes
    BY <1>1
  <2>5. active["connector"] # "on" => active'["connector"] # "on"
    <3>1. managerDoes(p, s, action) => active' = [active EXCEPT ![s] = "off"]
      BY Stopped
    <3>2. managerFails(s, action) \/ manualDoes => active' = active
      BY DEF managerFails, manualDoes
    <3> HIDE DEF s, action
    <3> QED BY <2>4, <3>1, <3>2 DEF ManagerInv, ServiceNames
  <2>6. s = "connector" => \/ active'["connector"] # "on" \/ "connector" \in proc'[p].failed
    <3>1. managerDoes(p, s, action) => active' = [active EXCEPT ![s] = "off"]
      BY Stopped
    <3>2. manualDoes => active' = active /\ \A x \in ServiceNames : active[x] = "off"
      BY DEF manualDoes, ManagerInv
    <3> HIDE DEF s, action
    <3> QED BY <1>4, <2>4, <3>1, <3>2 DEF ManagerInv, ServiceNames
  <2>7. ~connectorSpec(p) \/ "connector" \in proc[p].failed \/ active["connector"] # "on" \/ s = "connector"
    BY <2>1, <2>2 DEF inTurn
  <2> HIDE DEF s, action, connectorSpec
  <2>8. ~connectorSpec(p)' \/ "connector" \in proc'[p].failed \/ active'["connector"] # "on"
    BY <1>4, <2>3, <2>5, <2>6, <2>7
  <2> QED BY <1>4, <2>2, <2>8 DEF inTurn
<1> QED BY <1>5, <1>6

\* The steps of services and their managers keep the managers' state.
LEMMA ManagerStep ==
  ASSUME ManagerInv, NEW p, NEW s, NEW action, UNCHANGED scene,
         \/ managerDoes(p, s, action) \/ managerFails(s, action) \/ manualDoes \/ Start(s)
         \/ UNCHANGED <<unit, loaded, active>>
  PROVE  ManagerInv'
<1>1. CASE Start(s)
  BY <1>1 DEF ManagerInv, Start
<1>2. CASE managerDoes(p, s, action)
  BY <1>2 DEF ManagerInv, managerDoes, launchdDoes, systemdDoes, launchdInstall, systemdInstall, Uninstall,
       Start, launchdStop, systemdStop
<1>3. CASE managerFails(s, action)
  BY <1>3 DEF ManagerInv, managerFails
<1>4. CASE manualDoes \/ UNCHANGED <<unit, loaded, active>>
  BY <1>4 DEF ManagerInv, manualDoes
<1> QED BY <1>1, <1>2, <1>3, <1>4

\* A service command's step keeps them.
LEMMA ServiceManager ==
  ASSUME ManagerInv, NEW p, serviceStep(p)
  PROVE  ManagerInv'
<1>1. UNCHANGED scene
  BY DEF serviceStep
<1>2. CASE UNCHANGED <<unit, loaded, active>>
  BY <1>1, <1>2 DEF ManagerInv
<1>3. CASE performServiceAction(p)
  <2>1. PICK s : managerDoes(p, s, proc[p].cmd.name) \/ managerFails(s, proc[p].cmd.name) \/ manualDoes
    BY <1>3 DEF performServiceAction
  <2> QED BY <1>1, <2>1, ManagerStep
<1>4. CASE recoverServices(p)
  <2>1. PICK s : Start(s) \/ UNCHANGED <<unit, loaded, active>>
    BY <1>4 DEF recoverServices
  <2> QED BY <1>1, <2>1, ManagerStep
<1>5. CASE resolveRuntimeContext(p) \/ pickServices(p) \/ writeGeneratedConfigs(p) \/ serviceReported(p)
             \/ inspectService(p) \/ Recover(p) \/ WatchdogOnce(p)
  BY <1>2, <1>5 DEF resolveRuntimeContext, pickServices, writeGeneratedConfigs, serviceReported,
       inspectService, Recover, WatchdogOnce, serviceVars
<1> QED BY <1>3, <1>4, <1>5 DEF serviceStep

\* A command's own steps.
LEMMA ServiceInTurn ==
  ASSUME HomeTypes, ManagerInv, NEW p \in Procs, stopsInTurn(p), serviceStep(p)
  PROVE  stopsInTurn(p)'
<1>0. UNCHANGED scene /\ (begun(p) \/ (moved(p) /\ proc[p].todo # << >>))
  BY ServiceStepMoves
<1>1. CASE pickServices(p)
  BY <1>0, <1>1, PickInTurn
<1>2. CASE performServiceAction(p)
  BY <1>0, <1>2, ServeInTurn
<1>3. CASE serviceReported(p)
  <2>1. /\ proc[p].todo # << >> /\ Head(proc[p].todo) = "serve" /\ goOn(p, proc[p], 1)
    BY <1>3 DEF serviceReported, next, skip
  <2>2. /\ proc'[p].cmd = proc[p].cmd /\ proc'[p].todo = SubSeq(proc[p].todo, 2, Len(proc[p].todo))
    BY <2>1 DEF goOn, rest, HomeTypes, ProcFields
  <2> QED BY <2>1, <2>2, StopAt DEF stopsInTurn
<1>4. CASE resolveRuntimeContext(p)
  <2>1. PICK v : /\ proc[p].todo # << >> /\ Head(proc[p].todo) = "resolve"
                 /\ goOn(p, [proc[p] EXCEPT !.id = v], 1)
    BY <1>4 DEF resolveRuntimeContext, next
  <2>2. DOMAIN [proc[p] EXCEPT !.id = v] = ProcFields /\ [proc[p] EXCEPT !.id = v].cmd = proc[p].cmd
    BY DEF HomeTypes, ProcFields
  <2>3. moved(p)
    BY <1>0, <2>1 DEF begun
  <2> QED BY <2>1, <2>2, <2>3, EarlyStop
<1>5. CASE writeGeneratedConfigs(p) \/ inspectService(p) \/ recoverServices(p) \/ Recover(p) \/ WatchdogOnce(p)
  <2>1. /\ proc[p].todo # << >> /\ Head(proc[p].todo) \in {"writeDaemonConfig", "recover", "watch"}
    BY <1>5 DEF writeGeneratedConfigs, inspectService, recoverServices, Recover, WatchdogOnce, next
  <2> QED BY <1>0, <2>1, EarlyStop DEF begun
<1> QED BY <1>1, <1>2, <1>3, <1>4, <1>5 DEF serviceStep

\* Commands begin in order, and get on in order.
LEMMA HomeInTurn ==
  ASSUME HomeTypes, NEW p \in Procs, stopsInTurn(p), homeStep(p) \/ beginService(p)
  PROVE  stopsInTurn(p)'
<1>1. ASSUME NEW cmd, NEW t, beginWith(p, cmd, t)
      PROVE  proc'[p].cmd = cmd /\ proc'[p].todo = t
  BY <1>1 DEF beginWith, HomeTypes, Idle
<1>2. CASE begin(p)
  <2>1. PICK cmd \in scene.cmds : program(cmd) # << >> /\ beginWith(p, cmd, program(cmd))
    BY <1>2 DEF begin
  <2> QED BY <1>1, <2>1, StopProgram DEF stopsInTurn
<1>3. CASE beginService(p)
  <2>1. PICK cmd \in scene.cmds : beginWith(p, cmd, serviceProgram(cmd))
    BY <1>3 DEF beginService
  <2> QED BY <1>1, <2>1, StopProgram DEF stopsInTurn
<1>4. CASE killed(p)
  <2>1. proc'[p].todo = << >>
    BY <1>4, IdleFields DEF killed, fail, HomeTypes
  <2> QED BY <2>1 DEF stopsInTurn
<1>5. CASE fileStep(p)
  <2>1. moved(p) /\ proc[p].todo # << >> /\ Head(proc[p].todo) \notin ServiceOps
    BY <1>5, FileMoved
  <2> QED BY <2>1, EarlyStop DEF ServiceOps
<1> QED BY <1>2, <1>3, <1>4, <1>5 DEF homeStep

\* The rest of the workstation does not touch a stop of the only process.
LEMMA OthersInTurn ==
  ASSUME HomeTypes, NEW q \in Procs, stopsInTurn(q), UNCHANGED scene, proc'[q] = proc[q],
         ~lone(q) \/ (/\ UNCHANGED active /\ home'.relay = home.relay /\ home'.connector = home.connector)
  PROVE  stopsInTurn(q)'
<1>1. lone(q)' <=> lone(q)
  BY DEF lone
<1>2. CASE ~lone(q)
  BY <1>1, <1>2 DEF stopsInTurn
<1>3. CASE lone(q) /\ UNCHANGED active /\ home'.relay = home.relay /\ home'.connector = home.connector
  <2>1. inTurn(q)' <=> inTurn(q)
    BY <1>3 DEF inTurn, configured, daemonSpec, relaySpec, connectorSpec
  <2> QED BY <1>1, <2>1 DEF stopsInTurn
<1> QED BY <1>2, <1>3

\* Every step keeps stops in turn.
LEMMA StopStep == StopInv /\ [workstationStep]_workstationVars => StopInv'
<1> SUFFICES ASSUME StopInv, [workstationStep]_workstationVars PROVE StopInv'
  OBVIOUS
<1> USE DEF StopInv
<1>0. HomeTypes'
  BY HomeTypesInv
<1>1. ASSUME NEW p \in Procs,
             (homeStep(p) /\ UNCHANGED serviceVars) \/ beginService(p) \/ serviceStep(p)
      PROVE  StopInv'
  <2>1. UNCHANGED scene /\ DOMAIN home' = Files /\ (begun(p) \/ (moved(p) /\ proc[p].todo # << >>))
    BY <1>1, HomeStepMoves, ServiceStepMoves DEF HomeTypes
  <2>2. ManagerInv'
    <3>1. CASE serviceStep(p)
      BY <3>1, ServiceManager
    <3>2. CASE UNCHANGED serviceVars
      BY <2>1, <3>2 DEF ManagerInv, serviceVars
    <3> QED BY <1>1, <3>1, <3>2 DEF beginService
  <2>3. stopsInTurn(p)'
    BY <1>1, ServiceInTurn, HomeInTurn
  <2>4. ASSUME NEW q \in Procs, q # p PROVE stopsInTurn(q)'
    <3>1. ~lone(q)
      BY <2>1, <2>4, Alone
    <3>2. proc'[q] = proc[q]
      BY <2>1, <2>4, MovedTypes
    <3> QED BY <2>1, <3>1, <3>2, OthersInTurn
  <2> QED BY <1>0, <2>2, <2>3, <2>4
<1>2. ASSUME UNCHANGED <<scene, proc, active, loaded>>, home'.relay = home.relay, home'.connector = home.connector
      PROVE  StopInv'
  <2>1. ManagerInv'
    BY <1>2 DEF ManagerInv
  <2>2. \A q \in Procs : stopsInTurn(q)'
    BY <1>2, OthersInTurn
  <2> QED BY <1>0, <2>1, <2>2
<1>3. CASE loseRepo /\ UNCHANGED serviceVars
  BY <1>2, <1>3 DEF loseRepo, serviceVars
<1>4. CASE \E s \in ServiceNames : serviceExits(s) \/ managerRestarts(s)
  <2>1. PICK s \in ServiceNames : serviceExits(s) \/ managerRestarts(s)
    BY <1>4
  <2>2. UNCHANGED <<scene, proc, home, loaded>> /\ scene.exits
    BY <2>1 DEF serviceExits, managerRestarts, homeVars, ManagerInv
  <2>3. ManagerInv'
    BY <2>1, <2>2 DEF ManagerInv, serviceExits, managerRestarts, running
  <2>4. ASSUME NEW q \in Procs PROVE stopsInTurn(q)'
    BY <2>2, OthersInTurn DEF lone
  <2> QED BY <1>0, <2>3, <2>4
<1>5. CASE connectorStep /\ UNCHANGED serviceVars
  BY <1>2, <1>5, ConnectorHome DEF serviceVars
<1>6. CASE UNCHANGED <<homeVars, serviceVars>>
  BY <1>2, <1>6 DEF homeVars, serviceVars
<1> QED BY <1>1, <1>3, <1>4, <1>5, <1>6 DEF workstationStep, workstationVars

\* What the invariant says of a connector that still runs.
LEMMA InTurn == StopInv => ConnectorStopsFirst
<1> SUFFICES ASSUME StopInv, NEW p \in Procs,
                    proc[p].todo # << >>, Head(proc[p].todo) = "serve",
                    proc[p].cmd.name \in {"stop", "uninstall"}, proc[p].cmd.service = "all",
                    scene.procs = {p}, ~scene.exits, connectorSpec(p), active["connector"] = "on",
                    "connector" \notin proc[p].failed,
                    NEW s \in ServiceNames, configured(p, s)
             PROVE  s \in {proc[p].svcs[i] : i \in DOMAIN proc[p].svcs}
  BY DEF ConnectorStopsFirst, free, running
<1>1. inTurn(p)
  BY DEF StopInv, stopsInTurn, lone
<1> HIDE DEF connectorSpec, configured
<1>2. /\ proc[p].svcs \in Seq(ServiceNames)
      /\ \E i \in 1..Len(proc[p].svcs) : proc[p].svcs[i] = s
  BY <1>1 DEF inTurn
<1> QED BY <1>2

\* A stop of all services leaves no service without its connector being
\* stopped first (orderSpecsForAction).
THEOREM ConnectorsStopFirst == WorkstationSpec => []ConnectorStopsFirst
<1>1. workstationInit => StopInv
  <2> SUFFICES ASSUME workstationInit PROVE StopInv
    OBVIOUS
  <2>1. /\ scene \in Scenes /\ home = scene.start /\ proc = [p \in Procs |-> Idle]
        /\ loaded = {} /\ active = [s \in ServiceNames |-> "off"]
    BY DEF workstationInit, homeInit, serviceInit
  <2>2. \A p \in Procs : proc[p] = Idle
    BY <2>1
  <2>3. HomeTypes
    <3>1. << >> \in Seq(HomeOps)
      OBVIOUS
    <3>2. DOMAIN home = Files
      BY <2>1, ScenesArePossible DEF HomeIsTyped
    <3> QED BY <2>1, <2>2, <3>1, <3>2, IdleFields DEF HomeTypes
  <2>4. ManagerInv
    BY <2>1 DEF ManagerInv
  <2> QED BY <2>2, <2>3, <2>4, IdleFields DEF StopInv, stopsInTurn
<1> QED BY <1>1, StopStep, InTurn, PTL DEF WorkstationSpec

-----------------------------------------------------------------------------
(* The files under CODENCER_HOME fit together.                             *)

\* What an operation may need: something its command has read, or a file that
\* is on disk.
Kinds == {"config", "registry", "machine", "connector", "relayFile", "connectorFile"}

\* The operations that provide it, and those that need it.
provides(k) ==
  CASE k = "config" -> {"loadConfig"}
    [] k = "registry" -> {"loadRegistry"}
    [] k = "machine" -> {"loadMachine"}
    [] k = "connector" -> {"readConnector", "enroll"}
    [] k = "relayFile" -> {"saveRelay"}
    [] OTHER -> {"saveConnector", "enroll"}

uses(k) ==
  CASE k = "config" -> {"useProfile", "nameRelay", "nameGateway", "selfHost", "nameConnector"}
    [] k = "registry" -> {"backfill", "use", "share", "unshare", "remove", "register", "noteExecutor"}
    [] k = "machine" -> {"makeMachine", "saveLabel", "backfill", "register"}
    [] k = "connector" -> {"shareInstance", "unshareInstance", "saveStatus"}
    [] k = "relayFile" -> {"nameRelay"}
    [] OTHER -> {"nameRelay", "nameConnector"}

\* It is there.
has(w, k) ==
  CASE k = "config" -> /\ w.config \in Configs
                       /\ w.config.relay => home.relay # Absent
                       /\ w.config.connector => home.connector # Absent
    [] k = "registry" -> isRegistry(w.projects)
    [] k = "machine" -> w.machine \in Machines
    [] k = "connector" -> isConnectorConfig(w.connector)
    [] k = "relayFile" -> home.relay # Absent
    [] OTHER -> home.connector # Absent

\* It will be, ahead of every operation that needs it.
ahead(t, k) ==
  \A i \in 1..Len(t) : t[i] \in uses(k) => \E j \in 1..(i - 1) : t[j] \in provides(k)

holds(t, op) == \E i \in 1..Len(t) : t[i] = op

\* Operations that may skip the one after them, and which that is.
Skippers == {"statConfig", "statProjects", "loadMachine", "readProject", "pickToken"}

skipped(op) ==
  CASE op = "statConfig" -> "makeConfig"
    [] op = "statProjects" -> "makeProjects"
    [] op = "loadMachine" -> "makeMachine"
    [] op = "readProject" -> "saveProject"
    [] OTHER -> "saveToken"

\* How the operations of a program follow each other.
InOrder(t) ==
  /\ t \in Seq(HomeOps)
  /\ \A i \in 1..Len(t) :
       /\ t[i] \in Skippers => i < Len(t) /\ t[i + 1] = skipped(t[i])
       /\ i < Len(t) /\ t[i + 1] = "saveToken" => t[i] = "pickToken"
       /\ i < Len(t) /\ t[i + 1] = "saveRelay" => t[i] = "saveToken"
       /\ t[i] = "readGateway" => t[Len(t)] = "addRelay"

\* A setup that generates a token runs alone, and the token file has the token
\* before the relay's config does.
tokenInTurn(p) ==
  /\ next(p, "saveToken") =>
       proc[p].token \in Nat /\ home.relay \in {Absent, Torn} /\ scene.procs = {p}
  /\ next(p, "saveRelay") =>
       /\ proc[p].token \in Nat
       /\ proc[p].token = GivenToken \/ (home.token = proc[p].token /\ scene.procs = {p})

commandIsSound(p) ==
  /\ proc[p].todo # << >> => proc[p].cmd \in Commands
  /\ InOrder(proc[p].todo)
  /\ \A k \in Kinds : has(proc[p], k) \/ ahead(proc[p].todo, k)
  /\ proc[p].status \in StatusFiles \cup {Absent}
  /\ holds(proc[p].todo, "pickToken") => proc[p].cmd.given \/ scene.procs = {p}
  /\ tokenInTurn(p)

\* The connector has read the registry before it fills in the machine, which
\* is on disk by then.
fetching(t) ==
  /\ t \in Seq(ConnOps)
  /\ \A i \in 1..Len(t) : i < Len(t) =>
       /\ t[i + 1] = "machine" => t[i] = "registry"
       /\ t[i + 1] = "backfill" => t[i] = "machine"

ConnectorIsSound ==
  /\ DOMAIN conn = ConnFields
  /\ fetching(conn.todo)
  /\ conn.todo # << >> => conn.on
  /\ conn.on => isConnectorConfig(conn.cfg)
  /\ conn.ads.instances \subseteq Repos
  /\ busy("machine") \/ busy("backfill") => isRegistry(conn.reg)
  /\ busy("backfill") => home.machine \in Machines

FilesAreSound ==
  HomeIsTyped(home) /\ NamedFilesExist(home) /\ CurrentIsRegistered(home) /\ TokenIsOnDisk(home)

CoherenceInv ==
  /\ HomeTypes
  /\ scene \in Scenes
  /\ minted \in Nat
  /\ FilesAreSound
  /\ \A p \in Procs : commandIsSound(p)
  /\ ConnectorIsSound

\* What is needed first is there.
LEMMA NotAhead ==
  ASSUME NEW t \in Seq(HomeOps), NEW k, ahead(t, k), t # << >>
  PROVE  Head(t) \notin uses(k)
<1>1. 1 \in 1..Len(t) /\ Head(t) = t[1]
  OBVIOUS
<1>2. \A j \in 1..(1 - 1) : FALSE
  OBVIOUS
<1> QED BY <1>1, <1>2 DEF ahead

\* What is left of a program after its first n operations.
leftOver(t, n) == SubSeq(t, n + 1, Len(t))

\* The rest of a program is in order.
LEMMA RestInOrder ==
  ASSUME NEW t, InOrder(t), NEW n \in Nat, n <= Len(t), NEW r, r = leftOver(t, n)
  PROVE  /\ InOrder(r) /\ Len(r) = Len(t) - n
         /\ \A i \in 1..Len(r) : r[i] = t[i + n]
         /\ \A k : ahead(t, k) /\ (\A j \in 1..n : t[j] \notin provides(k)) => ahead(r, k)
<1>1. t \in Seq(HomeOps) /\ Len(t) \in Nat
  BY DEF InOrder
<1>2. /\ SubSeq(t, n + 1, Len(t)) \in Seq(HomeOps)
      /\ n <= Len(t) => Len(SubSeq(t, n + 1, Len(t))) = Len(t) - n
      /\ \A i \in 1..(Len(t) - n) : SubSeq(t, n + 1, Len(t))[i] = t[i + n]
  BY <1>1, RestOf
<1>3. r \in Seq(HomeOps) /\ Len(r) = Len(t) - n /\ \A i \in 1..Len(r) : r[i] = t[i + n]
  BY <1>2, Zenon DEF leftOver
<1>4. PICK len \in Nat : len = Len(t)
  BY <1>1
<1>5. Len(r) = len - n /\ n <= len
  BY <1>3, <1>4
<1>6. ASSUME NEW i \in 1..Len(r)
      PROVE  /\ r[i] \in Skippers => i < Len(r) /\ r[i + 1] = skipped(r[i])
             /\ i < Len(r) /\ r[i + 1] = "saveToken" => r[i] = "pickToken"
             /\ i < Len(r) /\ r[i + 1] = "saveRelay" => r[i] = "saveToken"
             /\ r[i] = "readGateway" => r[Len(r)] = "addRelay"
  <2>1. i + n \in 1..len /\ r[i] = t[i + n] /\ (i < Len(r) <=> i + n < len)
    BY <1>3, <1>5
  <2>2. i < Len(r) => r[i + 1] = t[i + n + 1]
    <3>1. i < Len(r) => i + 1 \in 1..Len(r) /\ (i + 1) + n = i + n + 1
      BY <1>5
    <3> QED BY <1>3, <3>1
  <2>3. r[Len(r)] = t[len]
    <3>1. Len(r) \in 1..Len(r) /\ Len(r) + n = len
      BY <1>5
    <3> QED BY <1>3, <3>1
  <2>4. /\ t[i + n] \in Skippers => i + n < len /\ t[i + n + 1] = skipped(t[i + n])
        /\ i + n < len /\ t[i + n + 1] = "saveToken" => t[i + n] = "pickToken"
        /\ i + n < len /\ t[i + n + 1] = "saveRelay" => t[i + n] = "saveToken"
        /\ t[i + n] = "readGateway" => t[len] = "addRelay"
    BY <1>4, <2>1 DEF InOrder
  <2> QED BY <2>1, <2>2, <2>3, <2>4
<1>7. InOrder(r)
  BY <1>3, <1>6 DEF InOrder
<1>8. ASSUME NEW k, ahead(t, k), \A j \in 1..n : t[j] \notin provides(k),
             NEW i \in 1..Len(r), r[i] \in uses(k)
      PROVE  \E j \in 1..(i - 1) : r[j] \in provides(k)
  <2>1. i + n \in 1..len /\ r[i] = t[i + n]
    BY <1>3, <1>5
  <2>2. PICK m \in 1..(i + n - 1) : t[m] \in provides(k)
    BY <1>4, <1>8, <2>1 DEF ahead
  <2>3. m \notin 1..n
    BY <1>8, <2>2
  <2>4. m - n \in 1..(i - 1) /\ m - n \in 1..Len(r) /\ (m - n) + n = m
    BY <1>5, <2>3
  <2>5. r[m - n] = t[m]
    BY <1>3, <2>4
  <2> QED BY <2>2, <2>4, <2>5
<1> QED BY <1>3, <1>7, <1>8 DEF ahead

\* How many operations one of them may do at once.
steps(t, n) ==
  \/ n \in {0, 1}
  \/ n = 2 /\ Head(t) \in Skippers
  \/ n = Len(t) - 1 /\ Head(t) = "readGateway"

\* What that leaves.
follows(t, n, r) ==
  /\ InOrder(r)
  /\ n = 0 => r = t
  /\ \A k \in Kinds : \/ ahead(t, k) => ahead(r, k)
                      \/ n # 0 /\ Head(t) \in provides(k)
  /\ \A op : (\E i \in 1..Len(r) : r[i] = op) => \E i \in 1..Len(t) : t[i] = op
  /\ n # 0 /\ r # << >> /\ Head(r) = "saveToken" => Head(t) = "pickToken" /\ n = 1
  /\ n # 0 /\ r # << >> /\ Head(r) = "saveRelay" =>
       (Head(t) = "saveToken" /\ n = 1) \/ (Head(t) = "pickToken" /\ n = 2)

\* What one operation leaves to do.
LEMMA AfterOne ==
  ASSUME NEW t, InOrder(t), t # << >>, NEW r, NEW n \in Nat, r = leftOver(t, n),
         steps(t, n)
  PROVE  follows(t, n, r)
<1>1. t \in Seq(HomeOps) /\ Len(t) \in Nat /\ 1 \in 1..Len(t) /\ Head(t) = t[1]
  BY DEF InOrder
<1>2. /\ t[1] \in Skippers => 1 < Len(t) /\ t[2] = skipped(t[1])
      /\ 1 < Len(t) /\ t[2] = "saveToken" => t[1] = "pickToken"
      /\ 1 < Len(t) /\ t[2] = "saveRelay" => t[1] = "saveToken"
      /\ t[1] = "readGateway" => t[Len(t)] = "addRelay"
  BY <1>1 DEF InOrder
<1>3. n <= Len(t)
  BY <1>1, <1>2 DEF steps
<1>4. /\ InOrder(r) /\ Len(r) = Len(t) - n
      /\ \A i \in 1..Len(r) : r[i] = t[i + n]
      /\ \A k : ahead(t, k) /\ (\A j \in 1..n : t[j] \notin provides(k)) => ahead(r, k)
  BY <1>3, RestInOrder
<1>5. r \in Seq(HomeOps) /\ Len(r) \in Nat /\ (r # << >> => 1 \in 1..Len(r) /\ Head(r) = r[1] /\ r[1] = t[1 + n])
  <2>1. r \in Seq(HomeOps)
    BY <1>4 DEF InOrder
  <2>2. r # << >> => 1 \in 1..Len(r) /\ Head(r) = r[1]
    BY <2>1
  <2> QED BY <1>4, <2>1, <2>2
<1>6. n = 0 => r = t
  BY <1>1 DEF leftOver
<1>7. ASSUME NEW k \in Kinds, ~(n # 0 /\ Head(t) \in provides(k)), ahead(t, k)
      PROVE  ahead(r, k)
  <2>1. CASE n = 0
    BY <1>6, <1>7, <2>1
  <2>2. CASE n = 1
    <3>1. \A j \in 1..n : j = 1
      BY <2>2
    <3> QED BY <1>1, <1>4, <1>7, <2>2, <3>1
  <2>3. CASE n = 2 /\ Head(t) \in Skippers
    <3>1. \A j \in 1..n : j = 1 \/ j = 2
      BY <2>3
    <3>2. t[2] \notin provides(k)
      BY <1>1, <1>2, <2>3 DEF Kinds, provides, skipped, Skippers
    <3> QED BY <1>1, <1>4, <1>7, <2>3, <3>1, <3>2
  <2>4. CASE n = Len(t) - 1 /\ Head(t) = "readGateway"
    <3>1. Len(r) = 1 /\ r[1] = "addRelay"
      <4>1. Len(r) = 1 /\ 1 \in 1..Len(r) /\ 1 + n = Len(t)
        BY <1>1, <1>4, <2>4
      <4> QED BY <1>1, <1>2, <1>4, <2>4, <4>1
    <3>2. \A i \in 1..Len(r) : r[i] \notin uses(k)
      <4>1. \A i \in 1..Len(r) : i = 1
        BY <3>1
      <4>2. "addRelay" \notin uses(k)
        BY DEF uses, Kinds
      <4> QED BY <3>1, <4>1, <4>2
    <3> QED BY <3>2 DEF ahead
  <2> QED BY <2>1, <2>2, <2>3, <2>4 DEF steps
<1>8. ASSUME NEW op, NEW i \in 1..Len(r), r[i] = op
      PROVE  \E j \in 1..Len(t) : t[j] = op
  <2>1. i + n \in 1..Len(t) /\ t[i + n] = op
    BY <1>1, <1>4, <1>8
  <2> QED BY <2>1
<1>9. ASSUME n # 0, r # << >>, Head(r) \in {"saveToken", "saveRelay"}
      PROVE  /\ Head(r) = "saveToken" => Head(t) = "pickToken" /\ n = 1
             /\ Head(r) = "saveRelay" =>
                  (Head(t) = "saveToken" /\ n = 1) \/ (Head(t) = "pickToken" /\ n = 2)
  <2>1. Head(r) = t[1 + n] /\ 1 + n <= Len(t)
    BY <1>4, <1>5, <1>9
  <2>2. CASE n = 1
    BY <1>1, <1>2, <1>9, <2>1, <2>2
  <2>3. CASE n = 2 /\ Head(t) \in Skippers
    <3>1. 2 \in 1..Len(t) /\ 2 < Len(t) /\ t[3] = Head(r)
      BY <1>1, <2>1, <2>3
    <3>2. /\ t[3] = "saveToken" => t[2] = "pickToken"
          /\ t[3] = "saveRelay" => t[2] = "saveToken"
      BY <3>1 DEF InOrder
    <3>3. t[2] = skipped(t[1])
      BY <1>1, <1>2, <2>3
    <3>4. t[2] # "pickToken" /\ (t[2] = "saveToken" => t[1] = "pickToken")
      BY <1>1, <2>3, <3>3 DEF skipped, Skippers
    <3> QED BY <1>1, <1>9, <2>3, <3>1, <3>2, <3>4
  <2>4. CASE n = Len(t) - 1 /\ Head(t) = "readGateway"
    <3>1. Head(r) = "addRelay"
      BY <1>1, <1>2, <2>1, <2>4
    <3> QED BY <1>9, <3>1
  <2> QED BY <1>9, <2>2, <2>3, <2>4 DEF steps
<1> QED BY <1>4, <1>6, <1>7, <1>8, <1>9 DEF follows

\* A program provides what its operations need.
Ordered(t) == InOrder(t) /\ \A k \in Kinds : ahead(t, k)

\* Programs put together from pieces in order.
LEMMA OrderedTogether ==
  ASSUME NEW a \in Seq(HomeOps), NEW b, InOrder(b),
         \A i \in 1..Len(a) :
           /\ a[i] \in Skippers => i < Len(a) /\ a[i + 1] = skipped(a[i])
           /\ i < Len(a) /\ a[i + 1] = "saveToken" => a[i] = "pickToken"
           /\ i < Len(a) /\ a[i + 1] = "saveRelay" => a[i] = "saveToken",
         holds(a, "readGateway") => b # << >> /\ b[Len(b)] = "addRelay",
         b # << >> => b[1] \notin {"saveToken", "saveRelay"},
         \A k \in Kinds : ahead(a, k),
         \A k \in Kinds : ahead(b, k) \/ \E op \in provides(k) : holds(a, op),
         NEW c, c = a \o b
  PROVE  /\ Ordered(c)
         /\ \A op : holds(c, op) <=> holds(a, op) \/ holds(b, op)
<1>1. b \in Seq(HomeOps)
  BY DEF InOrder
<1>2. /\ c \in Seq(HomeOps) /\ Len(c) = Len(a) + Len(b)
      /\ \A i \in 1..Len(a) : c[i] = a[i]
      /\ \A i \in 1..Len(b) : c[i + Len(a)] = b[i]
  <2>1. /\ a \o b \in Seq(HomeOps) /\ Len(a \o b) = Len(a) + Len(b)
        /\ \A i \in 1..Len(a) : (a \o b)[i] = a[i]
        /\ \A i \in 1..Len(b) : (a \o b)[i + Len(a)] = b[i]
    BY <1>1, Appended
  <2> QED BY <2>1, Zenon
<1>3. PICK l \in Nat, m \in Nat : l = Len(a) /\ m = Len(b)
  BY <1>1
<1>4. /\ Len(c) = l + m /\ (b # << >> <=> m # 0)
      /\ \A i \in 1..l : c[i] = a[i]
      /\ \A i \in 1..m : c[i + l] = b[i]
  <2>1. b # << >> <=> m # 0
    BY <1>1, <1>3
  <2> QED BY <1>2, <1>3, <2>1
<1>5. ASSUME NEW i \in 1..(l + m)
      PROVE  /\ c[i] \in Skippers => i < l + m /\ c[i + 1] = skipped(c[i])
             /\ i < l + m /\ c[i + 1] = "saveToken" => c[i] = "pickToken"
             /\ i < l + m /\ c[i + 1] = "saveRelay" => c[i] = "saveToken"
             /\ c[i] = "readGateway" => c[l + m] = "addRelay"
  <2>1. CASE i \in 1..l
    <3>1. c[i] = a[i] /\ (i < l => c[i + 1] = a[i + 1])
      BY <1>4, <2>1
    <3>2. i = l /\ i < l + m => c[i + 1] = b[1] /\ b # << >>
      <4>1. i = l /\ i < l + m => 1 \in 1..m /\ 1 + l = i + 1
        BY <2>1
      <4> QED BY <1>4, <4>1
    <3>3. /\ a[i] \in Skippers => i < l /\ a[i + 1] = skipped(a[i])
          /\ i < l /\ a[i + 1] = "saveToken" => a[i] = "pickToken"
          /\ i < l /\ a[i + 1] = "saveRelay" => a[i] = "saveToken"
      BY <1>3, <2>1
    <3>4. a[i] = "readGateway" => c[l + m] = "addRelay"
      <4>1. a[i] = "readGateway" => b # << >> /\ b[m] = "addRelay"
        BY <1>3, <2>1 DEF holds
      <4>2. b # << >> => m \in 1..m /\ m + l = l + m
        BY <1>4
      <4> QED BY <1>4, <4>1, <4>2
    <3>5. i < l \/ i = l
      BY <2>1
    <3>6. i < l => i < l + m
      BY <2>1
    <3> QED BY <3>1, <3>2, <3>3, <3>4, <3>5, <3>6
  <2>2. CASE i \notin 1..l
    <3>1. PICK j \in 1..m : i = j + l
      <4>1. i - l \in 1..m /\ i = (i - l) + l
        BY <2>2
      <4> QED BY <4>1
    <3>2. c[i] = b[j] /\ (j < m => c[i + 1] = b[j + 1]) /\ (i < l + m <=> j < m)
      <4>1. j < m => j + 1 \in 1..m /\ (j + 1) + l = i + 1
        BY <3>1
      <4> QED BY <1>4, <3>1, <4>1
    <3>3. c[l + m] = b[m]
      <4>1. m \in 1..m /\ m + l = l + m
        BY <3>1
      <4> QED BY <1>4, <4>1
    <3>4. /\ b[j] \in Skippers => j < m /\ b[j + 1] = skipped(b[j])
          /\ j < m /\ b[j + 1] = "saveToken" => b[j] = "pickToken"
          /\ j < m /\ b[j + 1] = "saveRelay" => b[j] = "saveToken"
          /\ b[j] = "readGateway" => b[m] = "addRelay"
      BY <1>3, <3>1 DEF InOrder
    <3> QED BY <3>2, <3>3, <3>4
  <2> QED BY <2>1, <2>2
<1>6. InOrder(c)
  BY <1>2, <1>4, <1>5 DEF InOrder
<1>7. ASSUME NEW k \in Kinds, NEW i \in 1..(l + m), c[i] \in uses(k)
      PROVE  \E j \in 1..(i - 1) : c[j] \in provides(k)
  <2>1. CASE i \in 1..l
    <3>1. PICK j \in 1..(i - 1) : a[j] \in provides(k)
      BY <1>3, <1>4, <1>7, <2>1 DEF ahead
    <3>2. j \in 1..l
      BY <2>1
    <3> QED BY <1>4, <3>1, <3>2
  <2>2. CASE i \notin 1..l
    <3>1. PICK j \in 1..m : i = j + l
      <4>1. i - l \in 1..m /\ i = (i - l) + l
        BY <2>2
      <4> QED BY <4>1
    <3>2. CASE ahead(b, k)
      <4>1. PICK n \in 1..(j - 1) : b[n] \in provides(k)
        BY <1>3, <1>4, <1>7, <3>1, <3>2 DEF ahead
      <4>2. n + l \in 1..(i - 1) /\ n \in 1..m
        BY <3>1
      <4> QED BY <1>4, <4>1, <4>2
    <3>3. CASE \E op \in provides(k) : holds(a, op)
      <4>1. PICK n \in 1..l : a[n] \in provides(k)
        BY <1>3, <3>3 DEF holds
      <4>2. n \in 1..(i - 1)
        BY <3>1
      <4> QED BY <1>4, <4>1, <4>2
    <3> QED BY <3>2, <3>3
  <2> QED BY <2>1, <2>2
<1>8. \A k \in Kinds : ahead(c, k)
  BY <1>4, <1>7 DEF ahead
<1>9. ASSUME NEW op
      PROVE  holds(c, op) <=> holds(a, op) \/ holds(b, op)
  <2>1. ASSUME NEW i \in 1..l, a[i] = op PROVE \E j \in 1..(l + m) : c[j] = op
    <3>1. i \in 1..(l + m)
      OBVIOUS
    <3> QED BY <1>4, <2>1, <3>1
  <2>2. ASSUME NEW i \in 1..m, b[i] = op PROVE \E j \in 1..(l + m) : c[j] = op
    <3>1. i + l \in 1..(l + m)
      OBVIOUS
    <3> QED BY <1>4, <2>2, <3>1
  <2>3. ASSUME NEW i \in 1..(l + m), c[i] = op
        PROVE  (\E j \in 1..l : a[j] = op) \/ (\E j \in 1..m : b[j] = op)
    <3>1. CASE i \in 1..l
      BY <1>4, <2>3, <3>1
    <3>2. CASE i \notin 1..l
      <4>1. i - l \in 1..m /\ i = (i - l) + l
        BY <3>2
      <4>2. b[i - l] = op
        BY <1>4, <2>3, <4>1
      <4> QED BY <4>1, <4>2
    <3> QED BY <3>1, <3>2
  <2> QED BY <1>3, <1>4, <2>1, <2>2, <2>3 DEF holds
<1> QED BY <1>6, <1>8, <1>9 DEF Ordered

\* One piece after another.
LEMMA OrderedPieces ==
  ASSUME NEW a, Ordered(a), NEW b, Ordered(b), b # << >> => b[1] \notin {"saveToken", "saveRelay"},
         ~holds(a, "readGateway"), NEW c, c = a \o b
  PROVE  /\ Ordered(c)
         /\ \A op : holds(c, op) <=> holds(a, op) \/ holds(b, op)
<1>1. /\ a \in Seq(HomeOps) /\ InOrder(b) /\ \A k \in Kinds : ahead(a, k) /\ ahead(b, k)
  BY DEF Ordered, InOrder
<1>2. \A i \in 1..Len(a) :
           /\ a[i] \in Skippers => i < Len(a) /\ a[i + 1] = skipped(a[i])
           /\ i < Len(a) /\ a[i + 1] = "saveToken" => a[i] = "pickToken"
           /\ i < Len(a) /\ a[i + 1] = "saveRelay" => a[i] = "saveToken"
  BY DEF Ordered, InOrder
<1> HIDE DEF InOrder, ahead, holds, Ordered
<1> QED BY <1>1, <1>2, OrderedTogether

\* The pieces the programs are made of.
LEMMA Pieces ==
  /\ Ordered(<<"statConfig", "makeConfig", "statProjects", "makeProjects", "loadMachine", "makeMachine">>)
  /\ Ordered(<<"loadConfig", "loadMachine", "makeMachine", "readProject", "saveProject", "loadRegistry", "register">>)
  /\ Ordered(<<"loadMachine", "makeMachine", "loadRegistry", "backfill">>)
  /\ Ordered(<<"loadConfig", "loadMachine", "makeMachine", "loadRegistry", "register">>)
  /\ Ordered(<<"pickToken", "saveToken", "saveRelay", "saveConnector", "loadConfig", "nameRelay">>)
  /\ Ordered(<<"saveGateway", "loadConfig", "nameGateway">>)
  /\ Ordered(<<"loadConfig", "selfHost">>)
  /\ Ordered(<<"loadConfig", "useProfile">>)
  /\ Ordered(<<"loadMachine", "makeMachine", "saveLabel">>)
  /\ Ordered(<<"readConnector", "resolveShare", "shareInstance", "readStatus", "saveStatus">>)
  /\ Ordered(<<"readConnector", "unshareInstance", "readStatus", "saveStatus">>)
  /\ Ordered(<<"readProject", "saveProject">>)
  /\ Ordered(<<"loadConfig", "nameGateway", "addRelay">>)
  /\ Ordered(<<"enroll", "readStatus", "saveStatus">>)
  /\ Ordered(<<"loadConfig", "loadRegistry", "resolve", "pick">>)
  /\ Ordered(<<"writeDaemonConfig">>)
  /\ Ordered(<<"serve">>)
  /\ Ordered(<<"loadConfig", "loadRegistry", "resolve", "pick", "recover">>)
  /\ Ordered(<<"loadConfig", "loadRegistry", "resolve", "watch">>)
  /\ Ordered(<< >>)
<1>1. Ordered(<<"statConfig", "makeConfig", "statProjects", "makeProjects", "loadMachine", "makeMachine">>)
  BY DEF Ordered, InOrder, ahead, HomeOps, Skippers, skipped, Kinds, provides, uses
<1>2. Ordered(<<"loadConfig", "loadMachine", "makeMachine", "readProject", "saveProject", "loadRegistry", "register">>)
  BY DEF Ordered, InOrder, ahead, HomeOps, Skippers, skipped, Kinds, provides, uses
<1>3. Ordered(<<"loadMachine", "makeMachine", "loadRegistry", "backfill">>)
  BY DEF Ordered, InOrder, ahead, HomeOps, Skippers, skipped, Kinds, provides, uses
<1>4. Ordered(<<"loadConfig", "loadMachine", "makeMachine", "loadRegistry", "register">>)
  BY DEF Ordered, InOrder, ahead, HomeOps, Skippers, skipped, Kinds, provides, uses
<1>5. Ordered(<<"pickToken", "saveToken", "saveRelay", "saveConnector", "loadConfig", "nameRelay">>)
  BY DEF Ordered, InOrder, ahead, HomeOps, Skippers, skipped, Kinds, provides, uses
<1>6. Ordered(<<"saveGateway", "loadConfig", "nameGateway">>)
  BY DEF Ordered, InOrder, ahead, HomeOps, Skippers, skipped, Kinds, provides, uses
<1>7. Ordered(<<"loadConfig", "selfHost">>)
  BY DEF Ordered, InOrder, ahead, HomeOps, Skippers, skipped, Kinds, provides, uses
<1>8. Ordered(<<"loadConfig", "useProfile">>)
  BY DEF Ordered, InOrder, ahead, HomeOps, Skippers, skipped, Kinds, provides, uses
<1>9. Ordered(<<"loadMachine", "makeMachine", "saveLabel">>)
  BY DEF Ordered, InOrder, ahead, HomeOps, Skippers, skipped, Kinds, provides, uses
<1>10. Ordered(<<"readConnector", "resolveShare", "shareInstance", "readStatus", "saveStatus">>)
  BY DEF Ordered, InOrder, ahead, HomeOps, Skippers, skipped, Kinds, provides, uses
<1>11. Ordered(<<"readConnector", "unshareInstance", "readStatus", "saveStatus">>)
  BY DEF Ordered, InOrder, ahead, HomeOps, Skippers, skipped, Kinds, provides, uses
<1>12. Ordered(<<"readProject", "saveProject">>)
  BY DEF Ordered, InOrder, ahead, HomeOps, Skippers, skipped, Kinds, provides, uses
<1>13. Ordered(<<"loadConfig", "nameGateway", "addRelay">>)
  BY DEF Ordered, InOrder, ahead, HomeOps, Skippers, skipped, Kinds, provides, uses
<1>14. Ordered(<<"enroll", "readStatus", "saveStatus">>)
  BY DEF Ordered, InOrder, ahead, HomeOps, Skippers, skipped, Kinds, provides, uses
<1>15. Ordered(<<"loadConfig", "loadRegistry", "resolve", "pick">>)
  BY DEF Ordered, InOrder, ahead, HomeOps, Skippers, skipped, Kinds, provides, uses
<1>16. Ordered(<<"writeDaemonConfig">>)
  BY DEF Ordered, InOrder, ahead, HomeOps, Skippers, skipped, Kinds, provides, uses
<1>17. Ordered(<<"serve">>)
  BY DEF Ordered, InOrder, ahead, HomeOps, Skippers, skipped, Kinds, provides, uses
<1>18. Ordered(<<"loadConfig", "loadRegistry", "resolve", "pick", "recover">>)
  BY DEF Ordered, InOrder, ahead, HomeOps, Skippers, skipped, Kinds, provides, uses
<1>19. Ordered(<<"loadConfig", "loadRegistry", "resolve", "watch">>)
  BY DEF Ordered, InOrder, ahead, HomeOps, Skippers, skipped, Kinds, provides, uses
<1>20. Ordered(<< >>)
  BY DEF Ordered, InOrder, ahead
<1> QED BY <1>1, <1>2, <1>3, <1>4, <1>5, <1>6, <1>7, <1>8, <1>9, <1>10, <1>11, <1>12, <1>13, <1>14, <1>15, <1>16, <1>17, <1>18, <1>19, <1>20

\* Two pieces, neither about the gateway's config.
LEMMA EnsuredFirst ==
  ASSUME NEW b, Ordered(b), b # << >> => b[1] \notin {"saveToken", "saveRelay"}, ~holds(b, "readGateway"),
         NEW c, c = ensureHome \o b
  PROVE  /\ Ordered(c) /\ ~holds(c, "readGateway")
         /\ \A op : holds(b, op) => holds(c, op)
         /\ ~holds(b, "pickToken") => ~holds(c, "pickToken")
         /\ c # << >> => c[1] \notin {"saveToken", "saveRelay"}
<1>1. Ordered(ensureHome)
  BY Pieces DEF ensureHome
<1>2. ~holds(ensureHome, "readGateway") /\ ~holds(ensureHome, "pickToken")
  BY DEF holds, ensureHome
<1>3. /\ Ordered(c)
      /\ \A op : holds(c, op) <=> holds(ensureHome, op) \/ holds(b, op)
  BY <1>1, <1>2, OrderedPieces
<1>4. c[1] \notin {"saveToken", "saveRelay"}
  <2>1. ensureHome \in Seq(HomeOps) /\ Len(ensureHome) \in Nat /\ 1 \in 1..Len(ensureHome) /\ ensureHome[1] = "statConfig"
    BY DEF ensureHome, HomeOps
  <2>2. b \in Seq(HomeOps)
    BY DEF Ordered, InOrder
  <2> HIDE DEF ensureHome
  <2>3. (ensureHome \o b)[1] = ensureHome[1]
    BY <2>1, <2>2, Appended
  <2> QED BY <2>1, <2>3
<1> QED BY <1>2, <1>3, <1>4

\* Every command's program provides what it needs.
LEMMA ProgramsOrdered ==
  ASSUME NEW cmd
  PROVE  /\ Ordered(program(cmd)) /\ Ordered(serviceProgram(cmd))
         /\ ~holds(serviceProgram(cmd), "pickToken")
<1> DEFINE plain(b) == Ordered(b) /\ (b # << >> => b[1] \notin {"saveToken", "saveRelay"}) /\ ~holds(b, "readGateway")
<1>1. ASSUME NEW b, plain(b), NEW c, c = ensureHome \o b
      PROVE  plain(c) /\ (\A op : holds(b, op) => holds(c, op)) /\ (~holds(b, "pickToken") => ~holds(c, "pickToken"))
  BY <1>1, EnsuredFirst
<1>2. ASSUME NEW a, plain(a), NEW b, plain(b), NEW c, c = a \o b
      PROVE  Ordered(c) /\ ~holds(c, "readGateway") /\ \A op : holds(c, op) <=> holds(a, op) \/ holds(b, op)
  BY <1>2, OrderedPieces
<1>3. /\ plain(<<"loadConfig", "loadMachine", "makeMachine", "readProject", "saveProject", "loadRegistry", "register">>)
      /\ plain(<<"loadMachine", "makeMachine", "loadRegistry", "backfill">>)
      /\ holds(<<"loadMachine", "makeMachine", "loadRegistry", "backfill">>, "loadRegistry")
      /\ plain(<<"loadConfig", "loadMachine", "makeMachine", "loadRegistry", "register">>)
      /\ plain(<<"pickToken", "saveToken", "saveRelay", "saveConnector", "loadConfig", "nameRelay">>)
      /\ plain(<<"saveGateway", "loadConfig", "nameGateway">>)
      /\ plain(<<"loadConfig", "selfHost">>)
      /\ plain(<<"loadConfig", "useProfile">>)
      /\ plain(<<"loadMachine", "makeMachine", "saveLabel">>)
      /\ plain(<<"readProject", "saveProject">>)
      /\ plain(<<"enroll", "readStatus", "saveStatus">>)
      /\ plain(<<"loadConfig", "loadRegistry", "resolve", "pick">>)
      /\ ~holds(<<"loadConfig", "loadRegistry", "resolve", "pick">>, "pickToken")
      /\ plain(<<"writeDaemonConfig">>) /\ ~holds(<<"writeDaemonConfig">>, "pickToken")
      /\ plain(<<"serve">>) /\ ~holds(<<"serve">>, "pickToken")
      /\ plain(<< >>) /\ ~holds(<< >>, "pickToken")
      /\ plain(ensureHome)
  <2> HIDE DEF Ordered
  <2> QED BY Pieces DEF holds, ensureHome
<1> HIDE DEF plain
<1>4. /\ Ordered(runProjectInit) /\ Ordered(setupLocal) /\ Ordered(setupRelay) /\ Ordered(runConfig)
      /\ Ordered(runMachine) /\ plain(setupGateway)
  <2> HIDE DEF Ordered
  <2> QED BY <1>1, <1>3 DEF runProjectInit, setupLocal, setupRelay, runConfig, runMachine, setupGateway, plain
<1>5. Ordered(setupSelfHost)
  BY <1>2, <1>3, <1>4 DEF setupSelfHost
<1>6. plain(loadRegistryWithMachine) /\ holds(loadRegistryWithMachine, "loadRegistry")
  BY <1>1, <1>3 DEF loadRegistryWithMachine
<1>7. ASSUME NEW a, Ordered(a), ~holds(a, "readGateway"), holds(a, "loadRegistry"),
             NEW x \in {"use", "share", "unshare", "remove", "noteExecutor"}
      PROVE  Ordered(a \o <<x>>)
  <2>1. /\ a \in Seq(HomeOps) /\ \A k \in Kinds : ahead(a, k)
    BY <1>7 DEF Ordered, InOrder
  <2>2. \A i \in 1..Len(a) :
             /\ a[i] \in Skippers => i < Len(a) /\ a[i + 1] = skipped(a[i])
             /\ i < Len(a) /\ a[i + 1] = "saveToken" => a[i] = "pickToken"
             /\ i < Len(a) /\ a[i + 1] = "saveRelay" => a[i] = "saveToken"
    BY <1>7 DEF Ordered, InOrder
  <2>3. /\ InOrder(<<x>>) /\ <<x>>[1] \notin {"saveToken", "saveRelay"}
        /\ \A k \in Kinds : ahead(<<x>>, k) \/ k = "registry"
    BY DEF InOrder, HomeOps, Skippers, skipped, ahead, Kinds, uses
  <2>4. "loadRegistry" \in provides("registry")
    BY DEF provides
  <2>5. \A k \in Kinds : ahead(<<x>>, k) \/ \E op \in provides(k) : holds(a, op)
    BY <1>7, <2>3, <2>4
  <2> QED BY <1>7, <2>1, <2>2, <2>3, <2>5, OrderedTogether
<1>8. cmd.name \in {"use", "share", "unshare", "remove"} => Ordered(loadRegistryWithMachine \o <<cmd.name>>)
  BY <1>6, <1>7 DEF plain
<1>9. Ordered(runExecutor)
  <2>1. PICK x, a : x = <<"readProject", "saveProject">> /\ a = x \o loadRegistryWithMachine
    OBVIOUS
  <2>2. Ordered(a) /\ ~holds(a, "readGateway") /\ holds(a, "loadRegistry")
    <3>1. plain(x) /\ a = x \o loadRegistryWithMachine
      BY <1>3, <2>1
    <3> QED BY <1>2, <1>6, <3>1
  <2>3. runExecutor = a \o <<"noteExecutor">>
    BY <2>1 DEF runExecutor
  <2> QED BY <1>7, <2>2, <2>3
<1>10. Ordered(runConnector)
  <2>1. PICK x, a, b : /\ x = <<"enroll", "readStatus", "saveStatus">> /\ a = x \o ensureHome
                       /\ b = <<"loadConfig", "nameConnector">>
    OBVIOUS
  <2>2. Ordered(a) /\ ~holds(a, "readGateway") /\ holds(a, "enroll")
    <3>1. holds(x, "enroll")
      BY <2>1 DEF holds
    <3>2. plain(x) /\ plain(ensureHome) /\ a = x \o ensureHome
      BY <1>3, <2>1
    <3> QED BY <1>2, <3>1, <3>2
  <2>3. /\ a \in Seq(HomeOps) /\ \A k \in Kinds : ahead(a, k)
    BY <2>2 DEF Ordered, InOrder
  <2>4. \A i \in 1..Len(a) :
             /\ a[i] \in Skippers => i < Len(a) /\ a[i + 1] = skipped(a[i])
             /\ i < Len(a) /\ a[i + 1] = "saveToken" => a[i] = "pickToken"
             /\ i < Len(a) /\ a[i + 1] = "saveRelay" => a[i] = "saveToken"
    BY <2>2 DEF Ordered, InOrder
  <2>5. /\ InOrder(b) /\ b[1] \notin {"saveToken", "saveRelay"}
        /\ \A k \in Kinds : ahead(b, k) \/ k = "connectorFile"
    BY <2>1 DEF InOrder, HomeOps, Skippers, skipped, ahead, Kinds, uses, provides
  <2>6. "enroll" \in provides("connectorFile")
    BY DEF provides
  <2>7. \A k \in Kinds : ahead(b, k) \/ \E op \in provides(k) : holds(a, op)
    BY <2>2, <2>5, <2>6
  <2>8. runConnector = a \o b
    BY <2>1 DEF runConnector
  <2> QED BY <2>2, <2>3, <2>4, <2>5, <2>7, <2>8, OrderedTogether
<1>11. Ordered(runGatewayRelay)
  <2> DEFINE a == <<"loadConfig", "readGateway">>
             g == <<"loadConfig", "nameGateway", "addRelay">>
  <2>1. PICK b : b = ensureHome \o g
    OBVIOUS
  <2>2. Ordered(g) /\ g \in Seq(HomeOps) /\ 3 = Len(g) /\ g[3] = "addRelay" /\ plain(g)
    BY Pieces DEF plain, holds, HomeOps
  <2>3. a \in Seq(HomeOps) /\ Len(a) = 2 /\ a[1] = "loadConfig" /\ a[2] = "readGateway"
    BY DEF HomeOps
  <2>4. ensureHome \in Seq(HomeOps)
    BY <1>3 DEF plain, Ordered, InOrder
  <2>5. \A k \in Kinds : ahead(a, k)
    BY DEF ahead, Kinds, uses
  <2> HIDE DEF a, g
  <2>6. runGatewayRelay = a \o b
    <3>1. runGatewayRelay = (a \o ensureHome) \o g
      BY DEF runGatewayRelay, a, g
    <3>2. a \in Seq(HomeOps) /\ g \in Seq(HomeOps)
      BY <2>2, <2>3
    <3>3. (a \o ensureHome) \o g = a \o (ensureHome \o g)
      BY <2>4, <3>2, ConcatAssociative
    <3> QED BY <2>1, <3>1, <3>3
  <2>7. plain(b)
    BY <1>1, <2>1, <2>2
  <2>8. b # << >> /\ b[Len(b)] = "addRelay"
    <3>1. /\ ensureHome \o g \in Seq(HomeOps) /\ Len(ensureHome \o g) = Len(ensureHome) + Len(g)
          /\ \A i \in 1..Len(g) : (ensureHome \o g)[i + Len(ensureHome)] = g[i]
      <4>1. g \in Seq(HomeOps)
        BY <2>2
      <4> QED BY <2>4, <4>1, Appended
    <3>2. PICK n \in Nat : n = Len(ensureHome)
      BY <2>4
    <3>3. b \in Seq(HomeOps) /\ Len(b) = n + 3 /\ \A i \in 1..3 : b[i + n] = g[i]
      BY <2>1, <2>2, <3>1, <3>2, Zenon
    <3>4. b[3 + n] = "addRelay" /\ 3 + n = Len(b) /\ Len(b) # 0
      BY <2>2, <3>3
    <3> QED BY <3>3, <3>4
  <2>9. \A i \in 1..Len(a) :
             /\ a[i] \in Skippers => i < Len(a) /\ a[i + 1] = skipped(a[i])
             /\ i < Len(a) /\ a[i + 1] = "saveToken" => a[i] = "pickToken"
             /\ i < Len(a) /\ a[i + 1] = "saveRelay" => a[i] = "saveToken"
    <3>1. \A i \in 1..Len(a) : i = 1 \/ (i = 2 /\ ~(i < Len(a)))
      BY <2>3
    <3> QED BY <2>3, <3>1 DEF Skippers
  <2>10. InOrder(b) /\ b[1] \notin {"saveToken", "saveRelay"} /\ \A k \in Kinds : ahead(b, k)
    BY <2>7, <2>8 DEF plain, Ordered
  <2> HIDE DEF InOrder, ahead, Ordered
  <2> QED BY <2>3, <2>5, <2>6, <2>8, <2>9, <2>10, OrderedTogether
<1>12. Ordered(runService(cmd)) /\ ~holds(runService(cmd), "pickToken")
  <2> DEFINE a == <<"loadConfig", "loadRegistry", "resolve", "pick">>
             b == IF cmd.name \in {"install", "start", "restart"} THEN ensureHome \o <<"writeDaemonConfig">> ELSE <<>>
  <2>1. plain(b) /\ ~holds(b, "pickToken")
    BY <1>1, <1>3
  <2>2. plain(a) /\ ~holds(a, "pickToken") /\ a \in Seq(HomeOps) /\ 1 \in 1..Len(a) /\ a[1] = "loadConfig"
    BY <1>3 DEF HomeOps
  <2>3. runService(cmd) = (a \o b) \o <<"serve">>
    BY DEF runService
  <2> HIDE DEF a, b
  <2>4. PICK c : c = a \o b
    OBVIOUS
  <2>5. Ordered(c) /\ ~holds(c, "readGateway") /\ ~holds(c, "pickToken")
    BY <1>2, <2>1, <2>2, <2>4
  <2>6. c[1] = "loadConfig"
    <3>1. b \in Seq(HomeOps)
      BY <2>1 DEF plain, Ordered, InOrder
    <3>2. (a \o b)[1] = a[1]
      BY <2>2, <3>1, Appended
    <3> QED BY <2>2, <2>4, <3>2
  <2>7. plain(c)
    BY <2>5, <2>6 DEF plain
  <2> QED BY <1>2, <1>3, <2>3, <2>4, <2>5, <2>7
<1>13. /\ Ordered(runShare) /\ Ordered(runUnshare) /\ Ordered(runRecover) /\ Ordered(runWatchdog) /\ Ordered(<< >>)
  BY Pieces DEF runShare, runUnshare, runRecover, runWatchdog
<1>14. ~holds(runRecover, "pickToken") /\ ~holds(runWatchdog, "pickToken")
  BY DEF holds, runRecover, runWatchdog
<1>15. Ordered(serviceProgram(cmd)) /\ ~holds(serviceProgram(cmd), "pickToken")
  BY <1>12, <1>13, <1>14, Zenon DEF serviceProgram
<1>16. Ordered(runProjectList) /\ Ordered(setupGateway)
  BY <1>4, <1>6 DEF plain, runProjectList
<1>17. Ordered(program(cmd))
  <2> HIDE DEF Ordered
  <2> QED BY <1>4, <1>5, <1>8, <1>9, <1>10, <1>11, <1>13, <1>16 DEF program
<1> QED BY <1>15, <1>17

\* A file that others build on is never taken away.
grown == \A f \in {"relay", "connector", "machine"} : home[f] # Absent => home'[f] # Absent

\* What may be written into a file.
mayHold(f, v) ==
  CASE f = "config" -> /\ v \in Configs
                       /\ v.relay => home.relay # Absent
                       /\ v.connector => home.connector # Absent
    [] f = "projects" -> isRegistry(v) /\ (v.current # Blank => v.current \in DOMAIN v.entries)
    [] f = "machine" -> v \in Machines
    [] f = "status" -> v \in StatusFiles
    [] f = "connector" -> v = Torn \/ isConnectorConfig(v)
    [] f = "relay" -> v = Torn \/ (v \in Nat /\ (v = GivenToken \/ home.token = v))
    [] f = "token" -> (v = Torn \/ v \in Nat) /\ home.relay \in {Absent, Torn}
    [] OTHER -> TRUE

\* Then the files still fit together.
LEMMA Written ==
  ASSUME FilesAreSound, NEW f \in Files, NEW v, mayHold(f, v), home' = [home EXCEPT ![f] = v]
  PROVE  FilesAreSound' /\ grown /\ home'[f] = v
<1>1. /\ DOMAIN home = Files /\ DOMAIN home' = Files /\ home'[f] = v
      /\ \A g \in Files : g # f => home'[g] = home[g]
  BY DEF FilesAreSound, HomeIsTyped
<1>2. grown
  <2>1. f \in {"relay", "connector", "machine"} => v # Absent
    BY KindsDiffer DEF mayHold
  <2>2. {"relay", "connector", "machine"} \subseteq Files
    BY DEF Files
  <2> QED BY <1>1, <2>1, <2>2 DEF grown
<1>3. HomeIsTyped(home')
  <2>1. /\ home'.config \in Configs \cup {Absent}
        /\ home'.projects = Absent \/ isRegistry(home'.projects)
        /\ home'.machine \in Machines \cup {Absent}
        /\ home'.status \in StatusFiles \cup {Absent}
        /\ home'.connector \in {Absent, Torn} \/ isConnectorConfig(home'.connector)
    BY <1>1 DEF FilesAreSound, HomeIsTyped, mayHold, Files
  <2>2. \A g \in {"relay", "token"} : home'[g] \in {Absent, Torn} \/ home'[g] \in Nat
    BY <1>1 DEF FilesAreSound, HomeIsTyped, mayHold, Files
  <2> QED BY <1>1, <2>1, <2>2 DEF HomeIsTyped
<1>4. NamedFilesExist(home')
  <2>1. /\ home.relay # Absent => home'.relay # Absent
        /\ home.connector # Absent => home'.connector # Absent
    BY <1>2 DEF grown
  <2>2. home'.config = home.config \/ (f = "config" /\ home'.config = v)
    BY <1>1 DEF Files
  <2> QED BY <2>1, <2>2 DEF FilesAreSound, NamedFilesExist, mayHold
<1>5. CurrentIsRegistered(home')
  BY <1>1 DEF FilesAreSound, CurrentIsRegistered, mayHold, Files
<1>6. TokenIsOnDisk(home')
  <2>1. CASE f \notin {"relay", "token"}
    BY <1>1, <2>1 DEF FilesAreSound, TokenIsOnDisk, Files
  <2>2. CASE f = "relay"
    <3>1. home'.relay = v /\ home'.token = home.token
      BY <1>1, <2>2 DEF Files
    <3>2. v = Torn \/ v = GivenToken \/ home.token = v
      BY <2>2 DEF mayHold
    <3> QED BY <3>1, <3>2 DEF TokenIsOnDisk
  <2>3. CASE f = "token"
    <3>1. home'.relay = home.relay /\ home.relay \in {Absent, Torn}
      BY <1>1, <2>3 DEF mayHold, Files
    <3> QED BY <3>1 DEF TokenIsOnDisk
  <2> QED BY <2>1, <2>2, <2>3
<1> QED BY <1>1, <1>2, <1>3, <1>4, <1>5, <1>6 DEF FilesAreSound

\* What is there stays there.
LEMMA HasKept ==
  ASSUME grown, NEW w, NEW k \in Kinds, has(w, k)
  PROVE  has(w, k)'
<1>1. /\ home.relay # Absent => home'.relay # Absent
      /\ home.connector # Absent => home'.connector # Absent
  BY DEF grown
<1> QED BY <1>1 DEF has, Kinds

\* It depends on what the command has read.
LEMMA HasSame ==
  ASSUME NEW w, NEW v, w.config = v.config, w.projects = v.projects, w.machine = v.machine,
         w.connector = v.connector, NEW k \in Kinds, has(v, k)
  PROVE  has(w, k)
BY DEF has, Kinds

\* A command that goes on after one of its operations.
LEMMA GoesOn ==
  ASSUME HomeTypes, UNCHANGED scene, NEW p \in Procs, commandIsSound(p), proc[p].todo # << >>,
         NEW w, NEW n \in Nat, DOMAIN w = ProcFields, w.cmd = proc[p].cmd, goOn(p, w, n),
         steps(proc[p].todo, n),
         w.status \in StatusFiles \cup {Absent},
         \A k \in Kinds : has(proc[p], k) \/ (n # 0 /\ Head(proc[p].todo) \in provides(k)) => has(w, k)',
         Head(proc[p].todo) \in {"pickToken", "saveToken", "saveRelay"} => tokenInTurn(p)'
  PROVE  commandIsSound(p)'
<1>1. PICK t, r : t = proc[p].todo /\ r = leftOver(t, n)
  OBVIOUS
<1>2. /\ proc'[p] = [w EXCEPT !.todo = r]
      /\ proc'[p].todo = r /\ proc'[p].cmd = w.cmd /\ proc'[p].status = w.status
      /\ proc'[p].config = w.config /\ proc'[p].projects = w.projects /\ proc'[p].machine = w.machine
      /\ proc'[p].connector = w.connector
  <2>1. rest(p, n) = r
    BY <1>1 DEF rest, leftOver
  <2>2. proc'[p] = [w EXCEPT !.todo = r]
    BY <2>1 DEF goOn, HomeTypes
  <2> QED BY <2>2 DEF ProcFields
<1>3. InOrder(t) /\ t # << >>
  BY <1>1 DEF commandIsSound
<1>4. steps(t, n) /\ r = leftOver(t, n) /\ n \in Nat
  BY <1>1
<1>5. follows(t, n, r)
  BY ONLY <1>3, <1>4, AfterOne
<1>6. ASSUME NEW k \in Kinds PROVE has(proc[p], k)' \/ ahead(r, k)
  <2>1. CASE has(w, k)'
    <3>1. has(proc[p], k)'
      BY <1>2, <2>1 DEF has, Kinds
    <3> QED BY <3>1
  <2>2. CASE ~has(w, k)'
    <3>1. ~has(proc[p], k) /\ ~(n # 0 /\ Head(t) \in provides(k))
      BY <1>1, <2>2
    <3>2. ahead(t, k)
      BY <1>1, <3>1 DEF commandIsSound
    <3> QED BY <1>5, <3>1, <3>2 DEF follows
  <2> QED BY <2>1, <2>2
<1>7. tokenInTurn(p)'
  <2>1. CASE Head(t) \notin {"pickToken", "saveToken", "saveRelay"}
    <3>1. r # << >> => Head(r) \notin {"saveToken", "saveRelay"}
      BY <1>3, <1>5, <2>1 DEF follows
    <3> QED BY <1>2, <3>1 DEF tokenInTurn, next
  <2> QED BY <1>1, <2>1
<1>8. holds(proc'[p].todo, "pickToken") => proc'[p].cmd.given \/ scene'.procs = {p}
  <2>1. holds(r, "pickToken") => holds(t, "pickToken")
    BY <1>5 DEF holds, follows
  <2> QED BY <1>1, <1>2, <2>1 DEF commandIsSound
<1> HIDE DEF has, ahead, InOrder, holds, tokenInTurn
<1> QED BY <1>1, <1>2, <1>5, <1>6, <1>7, <1>8 DEF commandIsSound, follows

\* One that is over.
LEMMA IdleIsSound ==
  ASSUME HomeTypes, NEW p \in Procs, proc'[p] = Idle
  PROVE  commandIsSound(p)'
<1>1. Idle.todo = << >> /\ Idle.status = Absent
  BY DEF Idle
<1>2. InOrder(<< >>) /\ (\A k \in Kinds : ahead(<< >>, k)) /\ ~holds(<< >>, "pickToken")
  BY Pieces DEF Ordered, holds
<1> QED BY <1>1, <1>2 DEF commandIsSound, tokenInTurn, next

\* The others.
LEMMA OthersAreSound ==
  ASSUME grown, UNCHANGED scene, NEW q, commandIsSound(q), proc'[q] = proc[q],
         scene.procs # {q} \/ (home'.relay = home.relay /\ home'.token = home.token)
  PROVE  commandIsSound(q)'
<1>1. ASSUME NEW k \in Kinds PROVE has(proc[q], k)' \/ ahead(proc'[q].todo, k)
  <2>1. PICK w : w = proc[q]
    OBVIOUS
  <2>2. CASE has(w, k)
    <3>1. has(w, k)'
      BY <2>2, HasKept
    <3>2. proc'[q] = w
      BY <2>1
    <3> QED BY <3>1, <3>2 DEF has
  <2>3. CASE ~has(w, k)
    BY <2>1, <2>3 DEF commandIsSound
  <2> QED BY <2>2, <2>3
<1>2. tokenInTurn(q)'
  BY DEF commandIsSound, tokenInTurn, next
<1> QED BY <1>1, <1>2 DEF commandIsSound

\* What an operation of a command must leave.
did(p) == commandIsSound(p)' /\ FilesAreSound' /\ grown /\ minted' \in Nat

TokenOps == {"pickToken", "saveToken", "saveRelay"}

\* An operation that changes some of what its command has read.
LEMMA ReadSound ==
  ASSUME CoherenceInv, UNCHANGED scene, NEW p \in Procs, proc[p].todo # << >>,
         NEW X \in SUBSET (ProcFields \ {"cmd", "todo"}), NEW w, DOMAIN w = ProcFields,
         \A y \in ProcFields : y \notin X => w[y] = proc[p][y],
         NEW n \in Nat, goOn(p, w, n), steps(proc[p].todo, n),
         FilesAreSound', grown, minted' \in Nat,
         "status" \in X => w.status \in StatusFiles \cup {Absent},
         "config" \in X => has(w, "config")',
         "projects" \in X => has(w, "registry")',
         "machine" \in X => has(w, "machine")',
         "connector" \in X => has(w, "connector")',
         \A k \in Kinds : n # 0 /\ Head(proc[p].todo) \in provides(k) => has(w, k)',
         Head(proc[p].todo) \in TokenOps => tokenInTurn(p)'
  PROVE  did(p)
<1>1. HomeTypes /\ commandIsSound(p)
  BY DEF CoherenceInv
<1>2. /\ w.cmd = proc[p].cmd
      /\ "status" \notin X => w.status = proc[p].status
      /\ "config" \notin X => w.config = proc[p].config
      /\ "projects" \notin X => w.projects = proc[p].projects
      /\ "machine" \notin X => w.machine = proc[p].machine
      /\ "connector" \notin X => w.connector = proc[p].connector
  BY DEF ProcFields
<1>3. w.status \in StatusFiles \cup {Absent}
  BY <1>1, <1>2 DEF commandIsSound
<1>4. PICK v : v = proc[p]
  OBVIOUS
<1>5. ASSUME NEW k \in Kinds, has(proc[p], k) PROVE has(w, k)'
  <2>1. has(v, k)'
    BY <1>4, <1>5, HasKept
  <2> QED BY <1>2, <1>4, <2>1 DEF has, Kinds
<1>6. \A k \in Kinds : has(proc[p], k) \/ (n # 0 /\ Head(proc[p].todo) \in provides(k)) => has(w, k)'
  BY <1>5
<1>7. commandIsSound(p)'
  <2> HIDE DEF has, commandIsSound, tokenInTurn, steps, goOn
  <2> QED BY <1>1, <1>2, <1>3, <1>6, GoesOn DEF TokenOps
<1> QED BY <1>7 DEF did

\* An operation that provides nothing.
plainOp(op) == op \notin TokenOps /\ \A k \in Kinds : op \notin provides(k)

\* The files as they were.
LEMMA SameFiles ==
  ASSUME CoherenceInv, UNCHANGED home
  PROVE  FilesAreSound' /\ grown
BY DEF CoherenceInv, FilesAreSound, grown

\* An operation that is skipped, with or without the next.
LEMMA SkipSound ==
  ASSUME CoherenceInv, UNCHANGED scene, NEW p \in Procs, NEW op, next(p, op), plainOp(op),
         NEW n \in Nat, steps(proc[p].todo, n), skip(p, n)
  PROVE  did(p)
<1>1. /\ goOn(p, proc[p], n) /\ UNCHANGED <<home, minted>> /\ proc[p].todo # << >> /\ Head(proc[p].todo) = op
      /\ DOMAIN proc[p] = ProcFields /\ minted' \in Nat
  BY DEF skip, next, CoherenceInv, HomeTypes
<1>2. FilesAreSound' /\ grown
  BY <1>1, SameFiles
<1>3. PICK w : w = proc[p]
  OBVIOUS
<1>4. goOn(p, w, n) /\ DOMAIN w = ProcFields /\ \A y \in ProcFields : w[y] = proc[p][y]
  BY <1>1, <1>3
<1>5. {} \in SUBSET (ProcFields \ {"cmd", "todo"})
  OBVIOUS
<1> HIDE DEF did, steps, goOn
<1> QED BY <1>1, <1>2, <1>4, <1>5, ReadSound DEF plainOp

\* A command that fails, or is killed.
LEMMA FailSound ==
  ASSUME CoherenceInv, NEW p \in Procs, proc' = [proc EXCEPT ![p] = Idle], UNCHANGED <<home, minted>>
  PROVE  did(p)
<1>1. HomeTypes /\ proc'[p] = Idle /\ minted' \in Nat
  BY DEF CoherenceInv, HomeTypes
<1> QED BY <1>1, IdleIsSound, SameFiles DEF did

\* A file that is replaced.
LEMMA AtomicSound ==
  ASSUME CoherenceInv, UNCHANGED scene, NEW p \in Procs, NEW op, next(p, op), plainOp(op),
         NEW f \in Files, NEW v, mayHold(f, v), writeJSONAtomic(p, f, v)
  PROVE  did(p)
<1>1. /\ goOn(p, proc[p], 1) /\ home' = [home EXCEPT ![f] = v] /\ proc[p].todo # << >> /\ Head(proc[p].todo) = op
      /\ DOMAIN proc[p] = ProcFields /\ minted' \in Nat /\ FilesAreSound
  BY DEF writeJSONAtomic, next, CoherenceInv, HomeTypes
<1>2. FilesAreSound' /\ grown
  BY <1>1, Written
<1>3. PICK w : w = proc[p]
  OBVIOUS
<1>4. goOn(p, w, 1) /\ DOMAIN w = ProcFields /\ \A y \in ProcFields : w[y] = proc[p][y]
  BY <1>1, <1>3
<1>5. {} \in SUBSET (ProcFields \ {"cmd", "todo"}) /\ steps(proc[p].todo, 1) /\ 1 \in Nat
  BY DEF steps
<1> HIDE DEF did, steps, goOn
<1> QED BY <1>1, <1>2, <1>4, <1>5, ReadSound DEF plainOp

\* What the operation at hand needs is there.
LEMMA Needs ==
  ASSUME CoherenceInv, NEW p \in Procs, NEW op, next(p, op), NEW k \in Kinds, op \in uses(k)
  PROVE  has(proc[p], k)
<1>1. /\ proc[p].todo \in Seq(HomeOps) /\ proc[p].todo # << >> /\ Head(proc[p].todo) = op
      /\ has(proc[p], k) \/ ahead(proc[p].todo, k)
  BY DEF CoherenceInv, HomeTypes, commandIsSound, next
<1> HIDE DEF has, ahead, uses
<1> QED BY <1>1, NotAhead

\* Its command.
LEMMA CommandAt ==
  ASSUME CoherenceInv, NEW p \in Procs, NEW op, next(p, op)
  PROVE  /\ proc[p].cmd.repo \in Repos /\ proc[p].cmd.share \in BOOLEAN /\ proc[p].cmd.given \in BOOLEAN
         /\ proc[p].cmd.id \in ProjectIds
         /\ proc[p].cmd.profile \in {"self-host"} \cup {cmd.profile : cmd \in Commands}
<1>1. proc[p].cmd \in Commands
  BY DEF CoherenceInv, commandIsSound, next
<1>2. proc[p].cmd.id \in ProjectIds
  BY <1>1 DEF ProjectIds
<1>3. proc[p].cmd.repo \in Repos /\ proc[p].cmd.share \in BOOLEAN /\ proc[p].cmd.given \in BOOLEAN
  BY <1>1, ScenesArePossible
<1>4. proc[p].cmd.profile \in {cmd.profile : cmd \in Commands}
  BY <1>1
<1> QED BY <1>2, <1>3, <1>4

\* A registry of projects.
LEMMA Registers ==
  ASSUME NEW c \in ProjectIds \cup {Blank}, NEW ids \in SUBSET ProjectIds, NEW e \in [ids -> Entries]
  PROVE  isRegistry([current |-> c, entries |-> e])
BY DEF isRegistry

\* Its parts.
LEMMA RegistryParts ==
  ASSUME NEW reg, isRegistry(reg)
  PROVE  /\ reg = [current |-> reg.current, entries |-> reg.entries]
         /\ reg.current \in ProjectIds \cup {Blank}
         /\ DOMAIN reg.entries \in SUBSET ProjectIds
         /\ reg.entries \in [DOMAIN reg.entries -> Entries]
BY DEF isRegistry

\* The first registry.
LEMMA FirstRegistry ==
  isRegistry(EmptyRegistry) /\ EmptyRegistry.current = Blank
<1>1. << >> \in [{} -> Entries] /\ {} \in SUBSET ProjectIds /\ Blank \in ProjectIds \cup {Blank}
  OBVIOUS
<1> QED BY <1>1, Registers DEF EmptyRegistry

\* What a command makes of a registry is one.
LEMMA UsedRegistry ==
  ASSUME NEW reg, isRegistry(reg), NEW id \in ProjectIds
  PROVE  isRegistry(UseProject(reg, id))
<1>1. UseProject(reg, id) = [current |-> id, entries |-> reg.entries]
  BY RegistryParts DEF UseProject
<1> QED BY <1>1, RegistryParts, Registers

\* Entries that are changed.
LEMMA EditedRegistry ==
  ASSUME NEW reg, isRegistry(reg), NEW e \in [DOMAIN reg.entries -> Entries]
  PROVE  isRegistry([reg EXCEPT !.entries = e])
<1>1. [reg EXCEPT !.entries = e] = [current |-> reg.current, entries |-> e]
  BY RegistryParts
<1> QED BY <1>1, RegistryParts, Registers

\* Sharing, and no longer sharing.
LEMMA SharedRegistry ==
  ASSUME NEW reg, isRegistry(reg), NEW id \in DOMAIN reg.entries
  PROVE  isRegistry(ShareProject(reg, id)) /\ isRegistry(UnshareProject(reg, id))
<1>1. ASSUME NEW b \in BOOLEAN
      PROVE  [reg.entries EXCEPT ![id] = [reg.entries[id] EXCEPT !.shared = b]] \in [DOMAIN reg.entries -> Entries]
  <2>1. reg.entries[id] \in Entries
    BY RegistryParts
  <2>2. [reg.entries[id] EXCEPT !.shared = b] \in Entries
    BY <2>1 DEF Entries
  <2> QED BY <2>2, RegistryParts
<1>2. /\ ShareProject(reg, id) = [reg EXCEPT !.entries = [reg.entries EXCEPT ![id] = [reg.entries[id] EXCEPT !.shared = TRUE]]]
      /\ UnshareProject(reg, id) = [reg EXCEPT !.entries = [reg.entries EXCEPT ![id] = [reg.entries[id] EXCEPT !.shared = FALSE]]]
  BY RegistryParts DEF ShareProject, UnshareProject
<1>3. ASSUME NEW e \in [DOMAIN reg.entries -> Entries] PROVE isRegistry([reg EXCEPT !.entries = e])
  BY EditedRegistry
<1>4. isRegistry([reg EXCEPT !.entries = [reg.entries EXCEPT ![id] = [reg.entries[id] EXCEPT !.shared = TRUE]]])
  BY <1>1, <1>3, Zenon
<1>5. isRegistry([reg EXCEPT !.entries = [reg.entries EXCEPT ![id] = [reg.entries[id] EXCEPT !.shared = FALSE]]])
  BY <1>1, <1>3, Zenon
<1> QED BY <1>2, <1>4, <1>5, Zenon

\* A project that is taken out.
LEMMA RemovedRegistry ==
  ASSUME NEW reg, isRegistry(reg), NEW id
  PROVE  isRegistry(RemoveProject(reg, id))
<1>1. /\ DOMAIN reg.entries \ {id} \in SUBSET ProjectIds
      /\ [i \in DOMAIN reg.entries \ {id} |-> reg.entries[i]] \in [DOMAIN reg.entries \ {id} -> Entries]
      /\ (IF reg.current = id THEN Blank ELSE reg.current) \in ProjectIds \cup {Blank}
  BY RegistryParts
<1> QED BY <1>1, Registers DEF RemoveProject

\* One that is put in.
LEMMA UpsertedRegistry ==
  ASSUME NEW reg, isRegistry(reg), NEW id \in ProjectIds, NEW entry \in Entries
  PROVE  isRegistry(UpsertProject(reg, id, entry))
<1>1. /\ DOMAIN reg.entries \cup {id} \in SUBSET ProjectIds
      /\ [i \in DOMAIN reg.entries \cup {id} |-> IF i = id THEN entry ELSE reg.entries[i]]
           \in [DOMAIN reg.entries \cup {id} -> Entries]
      /\ (IF reg.current = Blank THEN id ELSE reg.current) \in ProjectIds \cup {Blank}
  BY RegistryParts
<1> QED BY <1>1, Registers DEF UpsertProject

\* Blanks that are filled in.
LEMMA BackfilledRegistry ==
  ASSUME NEW reg, isRegistry(reg), NEW machine \in Machines
  PROVE  isRegistry(backfilled(reg, machine))
<1>1. machine.id \in Nat \cup {Blank}
  BY DEF Machines
<1>2. ASSUME NEW i \in DOMAIN reg.entries
      PROVE  (IF reg.entries[i].machine = Blank THEN [reg.entries[i] EXCEPT !.machine = machine.id] ELSE reg.entries[i]) \in Entries
  <2>1. reg.entries[i] \in Entries
    BY RegistryParts
  <2> QED BY <1>1, <2>1 DEF Entries
<1> QED BY <1>2, EditedRegistry DEF backfilled

\* A connector's config.
LEMMA Connects ==
  ASSUME NEW b \in BOOLEAN, NEW insts \in SUBSET Repos, NEW s \in [insts -> BOOLEAN]
  PROVE  isConnectorConfig([enrolled |-> b, shares |-> s])
BY DEF isConnectorConfig

\* Its parts.
LEMMA ConnectorParts ==
  ASSUME NEW cfg, isConnectorConfig(cfg)
  PROVE  /\ cfg = [enrolled |-> cfg.enrolled, shares |-> cfg.shares]
         /\ cfg.enrolled \in BOOLEAN
         /\ DOMAIN cfg.shares \in SUBSET Repos
         /\ cfg.shares \in [DOMAIN cfg.shares -> BOOLEAN]
         /\ shared(cfg) \subseteq Repos
BY DEF isConnectorConfig, shared

\* What a command makes of it.
LEMMA ConnectorEdits ==
  ASSUME NEW cfg, isConnectorConfig(cfg), NEW inst \in Repos
  PROVE  /\ isConnectorConfig(UpsertSharedInstance(cfg, inst))
         /\ isConnectorConfig([cfg EXCEPT !.shares[inst] = FALSE])
<1>1. /\ DOMAIN cfg.shares \cup {inst} \in SUBSET Repos
      /\ [i \in DOMAIN cfg.shares \cup {inst} |-> i = inst \/ cfg.shares[i]] \in [DOMAIN cfg.shares \cup {inst} -> BOOLEAN]
      /\ [cfg.shares EXCEPT ![inst] = FALSE] \in [DOMAIN cfg.shares -> BOOLEAN]
  BY ConnectorParts
<1>2. UpsertSharedInstance(cfg, inst)
        = [enrolled |-> cfg.enrolled, shares |-> [i \in DOMAIN cfg.shares \cup {inst} |-> i = inst \/ cfg.shares[i]]]
  BY ConnectorParts DEF UpsertSharedInstance
<1>3. [cfg EXCEPT !.shares[inst] = FALSE] = [enrolled |-> cfg.enrolled, shares |-> [cfg.shares EXCEPT ![inst] = FALSE]]
  <2>1. PICK en, sh : cfg = [enrolled |-> en, shares |-> sh]
    BY ConnectorParts
  <2>2. ASSUME NEW b
        PROVE  [cfg EXCEPT !.shares[inst] = b] = [enrolled |-> en, shares |-> [sh EXCEPT ![inst] = b]]
    BY <2>1
  <2>3. [cfg EXCEPT !.shares[inst] = FALSE] = [enrolled |-> en, shares |-> [sh EXCEPT ![inst] = FALSE]]
    BY <2>2, Zenon
  <2>4. cfg.enrolled = en /\ cfg.shares = sh
    BY <2>1
  <2> QED BY <2>3, <2>4, Zenon
<1>4. isConnectorConfig(UpsertSharedInstance(cfg, inst))
  <2>1. cfg.enrolled \in BOOLEAN
    BY ConnectorParts
  <2>2. isConnectorConfig([enrolled |-> cfg.enrolled, shares |-> [i \in DOMAIN cfg.shares \cup {inst} |-> i = inst \/ cfg.shares[i]]])
    BY <1>1, <2>1, Connects, Zenon
  <2> QED BY <1>2, <2>2, Zenon
<1>5. isConnectorConfig([cfg EXCEPT !.shares[inst] = FALSE])
  <2>1. cfg.enrolled \in BOOLEAN /\ DOMAIN cfg.shares \in SUBSET Repos
    BY ConnectorParts
  <2>2. isConnectorConfig([enrolled |-> cfg.enrolled, shares |-> [cfg.shares EXCEPT ![inst] = FALSE]])
    BY <1>1, <2>1, Connects, Zenon
  <2> QED BY <1>3, <2>2, Zenon
<1> QED BY <1>4, <1>5

\* What setup and enroll write.
LEMMA FirstConnectors ==
  ASSUME NEW b \in BOOLEAN, NEW r \in Repos
  PROVE  /\ isConnectorConfig([enrolled |-> b, shares |-> << >>])
         /\ isConnectorConfig([enrolled |-> b, shares |-> [i \in {r} |-> TRUE]])
<1>1. << >> \in [{} -> BOOLEAN] /\ {} \in SUBSET Repos
  OBVIOUS
<1>2. [i \in {r} |-> TRUE] \in [{r} -> BOOLEAN] /\ {r} \in SUBSET Repos
  OBVIOUS
<1>3. isConnectorConfig([enrolled |-> b, shares |-> << >>])
  BY <1>1, Connects
<1>4. isConnectorConfig([enrolled |-> b, shares |-> [i \in {r} |-> TRUE]])
  BY <1>2, Connects
<1> QED BY <1>3, <1>4

\* What the status repeats.
LEMMA SeededStatus ==
  ASSUME NEW s \in StatusFiles \cup {Absent}, NEW cfg, isConnectorConfig(cfg)
  PROVE  seedStatus(s, cfg) \in StatusFiles
<1>1. shared(cfg) \in SUBSET Repos
  BY ConnectorParts
<1>2. s # Absent => s.state \in {"disconnected", "connecting", "connected", "error"}
  BY DEF StatusFiles
<1> QED BY <1>1, <1>2 DEF seedStatus, StatusFiles

\* What may be in a file that others build on is not its absence.
LEMMA HeldIsThere ==
  ASSUME NEW f \in {"relay", "connector"}, NEW v, mayHold(f, v)
  PROVE  v # Absent
BY KindsDiffer DEF mayHold

\* A file that is cut short, then whole.
LEMMA InPlaceSound ==
  ASSUME CoherenceInv, UNCHANGED scene, NEW p \in Procs, NEW op, next(p, op),
         NEW f \in {"relay", "connector", "gateway", "token"}, NEW v, mayHold(f, v), mayHold(f, Torn),
         writeFile(p, f, v),
         proc[p].open => \A k \in Kinds : op \in provides(k) =>
           (k = "relayFile" /\ f = "relay") \/ (k = "connectorFile" /\ f = "connector"),
         op \in TokenOps => tokenInTurn(p)'
  PROVE  did(p)
<1>1. /\ proc[p].todo # << >> /\ Head(proc[p].todo) = op /\ UNCHANGED minted
      /\ DOMAIN proc[p] = ProcFields /\ minted' \in Nat /\ FilesAreSound /\ f \in Files
  BY DEF writeFile, next, CoherenceInv, HomeTypes, Files
<1>2. {"open"} \in SUBSET (ProcFields \ {"cmd", "todo"})
  BY DEF ProcFields
<1>3. CASE proc[p].open
  <2>1. PICK w : w = [proc[p] EXCEPT !.open = FALSE]
    OBVIOUS
  <2>2. goOn(p, w, 1) /\ home' = [home EXCEPT ![f] = v]
    BY <1>3, <2>1 DEF writeFile
  <2>3. DOMAIN w = ProcFields /\ \A y \in ProcFields : y \notin {"open"} => w[y] = proc[p][y]
    BY <1>1, <2>1
  <2>4. FilesAreSound' /\ grown /\ home'[f] = v
    BY <1>1, <2>2, Written
  <2>5. ASSUME NEW k \in Kinds, op \in provides(k) PROVE has(w, k)'
    <3>1. CASE k = "relayFile" /\ f = "relay"
      <4>1. home'.relay # Absent
        BY <2>4, <3>1, HeldIsThere
      <4> QED BY <3>1, <4>1 DEF has
    <3>2. CASE k = "connectorFile" /\ f = "connector"
      <4>1. home'.connector # Absent
        BY <2>4, <3>2, HeldIsThere
      <4> QED BY <3>2, <4>1 DEF has
    <3> QED BY <1>3, <2>5, <3>1, <3>2
  <2>6. steps(proc[p].todo, 1) /\ 1 \in Nat
    BY DEF steps
  <2> HIDE DEF did, steps, goOn, has, tokenInTurn, provides
  <2> QED BY <1>1, <1>2, <2>2, <2>3, <2>4, <2>5, <2>6, ReadSound
<1>4. CASE ~proc[p].open
  <2>1. PICK w : w = [proc[p] EXCEPT !.open = TRUE]
    OBVIOUS
  <2>2. goOn(p, w, 0) /\ home' = [home EXCEPT ![f] = Torn]
    BY <1>4, <2>1 DEF writeFile
  <2>3. DOMAIN w = ProcFields /\ \A y \in ProcFields : y \notin {"open"} => w[y] = proc[p][y]
    BY <1>1, <2>1
  <2>4. FilesAreSound' /\ grown
    BY <1>1, <2>2, Written
  <2>6. steps(proc[p].todo, 0) /\ 0 \in Nat
    BY DEF steps
  <2> HIDE DEF did, steps, goOn, has, tokenInTurn, provides
  <2> QED BY <1>1, <1>2, <2>2, <2>3, <2>4, <2>6, ReadSound
<1> QED BY <1>3, <1>4

\* The connector's config, which the command keeps as it was written.
LEMMA ConnectorSaved ==
  ASSUME CoherenceInv, UNCHANGED scene, NEW p \in Procs, NEW op, next(p, op),
         op \in {"enroll", "shareInstance", "unshareInstance"},
         NEW cfg, isConnectorConfig(cfg), saveConnectorConfig(p, cfg)
  PROVE  did(p)
<1>1. /\ proc[p].todo # << >> /\ Head(proc[p].todo) = op
      /\ DOMAIN proc[p] = ProcFields /\ FilesAreSound /\ minted \in Nat
  BY DEF next, CoherenceInv, HomeTypes
<1>2. mayHold("connector", cfg) /\ mayHold("connector", Torn)
  BY DEF mayHold
<1>3. op \notin TokenOps
  BY DEF TokenOps
<1>4. CASE proc[p].open
  <2>1. PICK w : w = [proc[p] EXCEPT !.open = FALSE, !.connector = cfg]
    OBVIOUS
  <2>2. goOn(p, w, 1) /\ home' = [home EXCEPT !["connector"] = cfg] /\ minted' \in Nat
    BY <1>1, <1>4, <2>1 DEF saveConnectorConfig
  <2>3. /\ DOMAIN w = ProcFields /\ \A y \in ProcFields : y \notin {"open", "connector"} => w[y] = proc[p][y]
        /\ w.connector = cfg
    BY <1>1, <2>1 DEF ProcFields
  <2>4. FilesAreSound' /\ grown /\ home'["connector"] = cfg
    BY <1>1, <1>2, <2>2, Written DEF Files
  <2>5. has(w, "connector")'
    BY <2>3 DEF has
  <2>6. has(w, "connectorFile")'
    <3>1. home'.connector # Absent
      BY <1>2, <2>4, HeldIsThere
    <3> QED BY <3>1 DEF has
  <2>7. \A k \in Kinds : op \in provides(k) => k \in {"connector", "connectorFile"}
    BY DEF provides, Kinds
  <2>8. steps(proc[p].todo, 1) /\ 1 \in Nat /\ {"open", "connector"} \in SUBSET (ProcFields \ {"cmd", "todo"})
    BY DEF steps, ProcFields
  <2>9. \A k \in Kinds : 1 # 0 /\ Head(proc[p].todo) \in provides(k) => has(w, k)'
    BY <1>1, <2>5, <2>6, <2>7
  <2> HIDE DEF did, steps, goOn, has, tokenInTurn, provides
  <2> QED BY <1>1, <1>3, <2>2, <2>3, <2>4, <2>5, <2>8, <2>9, ReadSound
<1>5. CASE ~proc[p].open
  <2>1. writeFile(p, "connector", cfg)
    BY <1>5 DEF saveConnectorConfig
  <2> QED BY <1>2, <1>3, <1>5, <2>1, InPlaceSound
<1> QED BY <1>4, <1>5

\* A registry that is saved.
LEMMA RegistrySaved ==
  ASSUME CoherenceInv, UNCHANGED scene, NEW p \in Procs, NEW op, next(p, op), plainOp(op),
         NEW reg, isRegistry(reg), SaveRegistry(p, reg)
  PROVE  did(p)
<1>1. CASE ValidateRegistry(reg)
  <2>1. writeJSONAtomic(p, "projects", reg) /\ mayHold("projects", reg) /\ "projects" \in Files
    BY <1>1 DEF SaveRegistry, ValidateRegistry, mayHold, Files
  <2> QED BY <2>1, AtomicSound
<1>2. CASE ~ValidateRegistry(reg)
  <2>1. fail(p)
    BY <1>2 DEF SaveRegistry
  <2> QED BY <2>1, FailSound DEF fail
<1> QED BY <1>1, <1>2

\* The files a command finds.
LEMMA FilesAt ==
  ASSUME CoherenceInv
  PROVE  /\ home.config = Absent \/ (home.config \in Configs /\ has([config |-> home.config], "config"))
         /\ home.projects = Absent \/ isRegistry(home.projects)
         /\ home.machine \in Machines \cup {Absent} /\ home.status \in StatusFiles \cup {Absent}
         /\ home.connector \in {Absent, Torn} \/ isConnectorConfig(home.connector)
         /\ home.relay \in {Absent, Torn} \/ home.relay \in Nat
         /\ TokenIsOnDisk(home)
<1>1. HomeIsTyped(home) /\ NamedFilesExist(home) /\ TokenIsOnDisk(home)
  BY DEF CoherenceInv, FilesAreSound
<1>2. /\ home.config \in Configs \cup {Absent} /\ (home.projects = Absent \/ isRegistry(home.projects))
      /\ home.machine \in Machines \cup {Absent} /\ home.status \in StatusFiles \cup {Absent}
      /\ home.connector \in {Absent, Torn} \/ isConnectorConfig(home.connector)
      /\ home["relay"] \in {Absent, Torn} \/ home["relay"] \in Nat
  BY <1>1 DEF HomeIsTyped
<1>3. home.config # Absent => has([config |-> home.config], "config")
  BY <1>1, <1>2 DEF NamedFilesExist, has
<1> QED BY <1>1, <1>2, <1>3

\* A command that reads something and goes on.
LEMMA Fetched ==
  ASSUME CoherenceInv, UNCHANGED <<scene, home>>, minted' \in Nat, NEW p \in Procs, NEW op, next(p, op), op \notin TokenOps,
         NEW x \in ProcFields \ {"cmd", "todo"}, NEW v, NEW n \in Nat, steps(proc[p].todo, n),
         goOn(p, [proc[p] EXCEPT ![x] = v], n),
         x = "status" => v \in StatusFiles \cup {Absent},
         x = "config" => has([config |-> v], "config"),
         x = "projects" => isRegistry(v),
         x = "machine" => v \in Machines,
         x = "connector" => isConnectorConfig(v),
         \A k \in Kinds : op \in provides(k) =>
           (k = "config" /\ x = "config") \/ (k = "registry" /\ x = "projects")
             \/ (k = "machine" /\ x = "machine") \/ (k = "connector" /\ x = "connector")
  PROVE  did(p)
<1>1. /\ proc[p].todo # << >> /\ Head(proc[p].todo) = op /\ DOMAIN proc[p] = ProcFields
  BY DEF next, CoherenceInv, HomeTypes
<1>2. PICK w : w = [proc[p] EXCEPT ![x] = v]
  OBVIOUS
<1>3. goOn(p, w, n) /\ DOMAIN w = ProcFields /\ w[x] = v /\ \A y \in ProcFields : y \notin {x} => w[y] = proc[p][y]
  BY <1>1, <1>2
<1>4. FilesAreSound' /\ grown
  BY SameFiles
<1>5. x = "config" => has(w, "config")'
  BY <1>3 DEF has
<1>6. x = "projects" => has(w, "registry")'
  BY <1>3 DEF has
<1>7. x = "machine" => has(w, "machine")'
  BY <1>3 DEF has
<1>8. x = "connector" => has(w, "connector")'
  BY <1>3 DEF has
<1>9. x = "status" => w.status \in StatusFiles \cup {Absent}
  BY <1>3
<1>10. \A k \in Kinds : n # 0 /\ Head(proc[p].todo) \in provides(k) => has(w, k)'
  <2> HIDE DEF has, provides
  <2> QED BY <1>1, <1>5, <1>6, <1>7, <1>8
<1>11. {x} \in SUBSET (ProcFields \ {"cmd", "todo"})
  OBVIOUS
<1>12. /\ "config" \in {x} => has(w, "config")'
       /\ "projects" \in {x} => has(w, "registry")'
       /\ "machine" \in {x} => has(w, "machine")'
       /\ "connector" \in {x} => has(w, "connector")'
       /\ "status" \in {x} => w.status \in StatusFiles \cup {Absent}
  BY <1>5, <1>6, <1>7, <1>8, <1>9
<1> HIDE DEF did, steps, goOn, has, tokenInTurn, provides
<1> QED BY <1>1, <1>3, <1>4, <1>10, <1>11, <1>12, ReadSound

\* Operations that provide nothing.
LEMMA PlainOps ==
  \A op \in {"statConfig", "makeConfig", "statProjects", "makeProjects", "makeMachine", "saveLabel", "useProfile",
             "backfill", "use", "share", "unshare", "remove", "readProject", "saveProject", "register", "noteExecutor",
             "nameRelay", "saveGateway", "nameGateway", "selfHost", "readGateway", "addRelay", "nameConnector",
             "resolveShare", "shareInstance", "unshareInstance", "readStatus", "saveStatus"} : plainOp(op)
BY DEF plainOp, TokenOps, Kinds, provides

\* The defaults.
LEMMA EnsureHomeSound ==
  ASSUME CoherenceInv, UNCHANGED scene, NEW p \in Procs,
         statConfig(p) \/ makeConfig(p) \/ statProjects(p) \/ makeProjects(p)
  PROVE  did(p)
<1>1. CASE statConfig(p)
  <2>1. PICK n \in {1, 2} : skip(p, n)
    BY <1>1 DEF statConfig
  <2>2. next(p, "statConfig") /\ steps(proc[p].todo, n) /\ n \in Nat
    BY <1>1 DEF statConfig, next, steps, Skippers
  <2> QED BY <2>1, <2>2, PlainOps, SkipSound
<1>2. CASE makeConfig(p)
  <2>1. mayHold("config", DefaultConfig) /\ "config" \in Files
    BY DEF mayHold, DefaultConfig, Configs, Files
  <2>2. next(p, "makeConfig") /\ writeJSONAtomic(p, "config", DefaultConfig)
    BY <1>2 DEF makeConfig
  <2> QED BY <2>1, <2>2, PlainOps, AtomicSound
<1>3. CASE statProjects(p)
  <2>1. PICK n \in {1, 2} : skip(p, n)
    BY <1>3 DEF statProjects
  <2>2. next(p, "statProjects") /\ steps(proc[p].todo, n) /\ n \in Nat
    BY <1>3 DEF statProjects, next, steps, Skippers
  <2> QED BY <2>1, <2>2, PlainOps, SkipSound
<1>4. CASE makeProjects(p)
  <2>1. mayHold("projects", EmptyRegistry) /\ "projects" \in Files
    BY FirstRegistry DEF mayHold, Files
  <2>2. next(p, "makeProjects") /\ writeJSONAtomic(p, "projects", EmptyRegistry)
    BY <1>4 DEF makeProjects
  <2> QED BY <2>1, <2>2, PlainOps, AtomicSound
<1> QED BY <1>1, <1>2, <1>3, <1>4

\* The machine's identity.
LEMMA MachineSound ==
  ASSUME CoherenceInv, UNCHANGED scene, NEW p \in Procs,
         EnsureMachine(p) \/ SaveMachine(p) \/ SetMachineHostLabel(p)
  PROVE  did(p)
<1>0. minted \in Nat
  BY DEF CoherenceInv
<1>1. CASE EnsureMachine(p)
  <2>1. next(p, "loadMachine")
    BY <1>1 DEF EnsureMachine
  <2>2. CASE home.machine = Torn
    <3>1. fail(p)
      BY <1>1, <2>2 DEF EnsureMachine
    <3> QED BY <3>1, FailSound DEF fail
  <2>3. CASE home.machine # Torn
    <3>1. PICK v \in Machines, n \in {1, 2} :
             /\ UNCHANGED home /\ minted' \in Nat
             /\ goOn(p, [proc[p] EXCEPT !["machine"] = v], n)
      <4>1. CASE home.machine = Absent
        <5>1. [id |-> minted, label |-> "host"] \in Machines
          BY <1>0 DEF Machines
        <5>2. /\ goOn(p, [proc[p] EXCEPT !["machine"] = [id |-> minted, label |-> "host"]], 1)
              /\ UNCHANGED home /\ minted' = minted + 1
          BY <1>1, <2>3, <4>1 DEF EnsureMachine
        <5> QED BY <1>0, <5>1, <5>2
      <4>2. CASE home.machine # Absent
        <5>1. home.machine \in Machines
          BY <4>2, FilesAt
        <5>2. goOn(p, [proc[p] EXCEPT !["machine"] = home.machine], 2) /\ UNCHANGED <<home, minted>>
          BY <1>1, <2>3, <4>2 DEF EnsureMachine
        <5> QED BY <1>0, <5>1, <5>2
      <4> QED BY <4>1, <4>2
    <3>2. steps(proc[p].todo, n) /\ n \in Nat /\ "loadMachine" \notin TokenOps /\ "machine" \in ProcFields \ {"cmd", "todo"}
      BY <2>1, <3>1 DEF next, steps, Skippers, TokenOps, ProcFields
    <3>3. \A k \in Kinds : "loadMachine" \in provides(k) => k = "machine"
      BY DEF Kinds, provides
    <3> HIDE DEF did, steps, goOn, has, provides
    <3> QED BY <2>1, <3>1, <3>2, <3>3, Fetched
  <2> QED BY <2>2, <2>3
<1>2. CASE SaveMachine(p)
  <2>1. next(p, "makeMachine") /\ writeJSONAtomic(p, "machine", proc[p].machine)
    BY <1>2 DEF SaveMachine
  <2>2. has(proc[p], "machine")
    BY <2>1, Needs DEF Kinds, uses
  <2>3. mayHold("machine", proc[p].machine) /\ "machine" \in Files
    BY <2>2 DEF mayHold, has, Files
  <2> QED BY <2>1, <2>3, PlainOps, AtomicSound
<1>3. CASE SetMachineHostLabel(p)
  <2>1. next(p, "saveLabel") /\ writeJSONAtomic(p, "machine", [proc[p].machine EXCEPT !.label = "chosen"])
    BY <1>3 DEF SetMachineHostLabel
  <2>2. has(proc[p], "machine")
    BY <2>1, Needs DEF Kinds, uses
  <2>3. mayHold("machine", [proc[p].machine EXCEPT !.label = "chosen"]) /\ "machine" \in Files
    BY <2>2 DEF mayHold, has, Files, Machines
  <2> QED BY <2>1, <2>3, PlainOps, AtomicSound
<1> QED BY <1>1, <1>2, <1>3

\* The local config.
LEMMA ConfigSound ==
  ASSUME CoherenceInv, UNCHANGED scene, NEW p \in Procs,
         \/ LoadConfig(p) \/ UseProfile(p) \/ nameRelay(p) \/ nameGateway(p) \/ SelfHost(p)
         \/ updateLocalConnectorConfigPath(p)
  PROVE  did(p)
<1>0. minted \in Nat
  BY DEF CoherenceInv
<1>1. CASE LoadConfig(p)
  <2>1. next(p, "loadConfig")
    BY <1>1 DEF LoadConfig
  <2>2. CASE home.config = Torn
    <3>1. fail(p)
      BY <1>1, <2>2 DEF LoadConfig
    <3> QED BY <3>1, FailSound DEF fail
  <2>3. CASE home.config # Torn
    <3>1. PICK v : v = IF home.config = Absent THEN DefaultConfig ELSE home.config
      OBVIOUS
    <3>2. goOn(p, [proc[p] EXCEPT !["config"] = v], 1) /\ UNCHANGED home /\ minted' \in Nat
      BY <1>0, <1>1, <2>3, <3>1 DEF LoadConfig
    <3>3. has([config |-> DefaultConfig], "config")
      BY DEF has, DefaultConfig, Configs
    <3>4. has([config |-> v], "config")
      <4> HIDE DEF has
      <4> QED BY <3>1, <3>3, FilesAt
    <3>5. steps(proc[p].todo, 1) /\ 1 \in Nat /\ "loadConfig" \notin TokenOps /\ "config" \in ProcFields \ {"cmd", "todo"}
      BY DEF steps, TokenOps, ProcFields
    <3>6. \A k \in Kinds : "loadConfig" \in provides(k) => k = "config"
      BY DEF Kinds, provides
    <3> HIDE DEF did, steps, goOn, has, provides
    <3> QED BY <2>1, <3>2, <3>4, <3>5, <3>6, Fetched
  <2> QED BY <2>2, <2>3
<1>2. ASSUME NEW op \in uses("config"), next(p, op), NEW cfg, writeJSONAtomic(p, "config", cfg),
             has(proc[p], "config") => mayHold("config", cfg)
      PROVE  did(p)
  <2>1. has(proc[p], "config")
    BY <1>2, Needs DEF Kinds
  <2>2. plainOp(op) /\ "config" \in Files
    BY PlainOps DEF uses, Files
  <2> QED BY <1>2, <2>1, <2>2, AtomicSound
<1>3. CASE UseProfile(p)
  <2>1. next(p, "useProfile") /\ writeJSONAtomic(p, "config", [proc[p].config EXCEPT !.profile = proc[p].cmd.profile])
    BY <1>3 DEF UseProfile, SaveConfig
  <2>2. has(proc[p], "config") => mayHold("config", [proc[p].config EXCEPT !.profile = proc[p].cmd.profile])
    BY <2>1, CommandAt DEF mayHold, has, Configs
  <2>3. "useProfile" \in uses("config")
    BY DEF uses
  <2> HIDE DEF did, has, mayHold
  <2> QED BY <1>2, <2>1, <2>2, <2>3
<1>4. CASE nameRelay(p)
  <2>1. next(p, "nameRelay") /\ writeJSONAtomic(p, "config", [proc[p].config EXCEPT !.relay = TRUE, !.connector = TRUE])
    BY <1>4 DEF nameRelay, SaveConfig
  <2>2. has(proc[p], "relayFile") /\ has(proc[p], "connectorFile")
    BY <2>1, Needs DEF Kinds, uses
  <2>3. home.relay # Absent /\ home.connector # Absent
    BY <2>2 DEF has
  <2>4. has(proc[p], "config") => mayHold("config", [proc[p].config EXCEPT !.relay = TRUE, !.connector = TRUE])
    BY <2>3 DEF mayHold, has, Configs
  <2>5. "nameRelay" \in uses("config")
    BY DEF uses
  <2> HIDE DEF did, has, mayHold
  <2> QED BY <1>2, <2>1, <2>4, <2>5
<1>5. CASE nameGateway(p)
  <2>1. next(p, "nameGateway") /\ writeJSONAtomic(p, "config", [proc[p].config EXCEPT !.gateway = TRUE])
    BY <1>5 DEF nameGateway, SaveConfig
  <2>2. has(proc[p], "config") => mayHold("config", [proc[p].config EXCEPT !.gateway = TRUE])
    BY DEF mayHold, has, Configs
  <2>3. "nameGateway" \in uses("config")
    BY DEF uses
  <2> HIDE DEF did, has, mayHold
  <2> QED BY <1>2, <2>1, <2>2, <2>3
<1>6. CASE SelfHost(p)
  <2>1. next(p, "selfHost") /\ writeJSONAtomic(p, "config", [proc[p].config EXCEPT !.profile = "self-host"])
    BY <1>6 DEF SelfHost, SaveConfig
  <2>2. has(proc[p], "config") => mayHold("config", [proc[p].config EXCEPT !.profile = "self-host"])
    BY DEF mayHold, has, Configs
  <2>3. "selfHost" \in uses("config")
    BY DEF uses
  <2> HIDE DEF did, has, mayHold
  <2> QED BY <1>2, <2>1, <2>2, <2>3
<1>7. CASE updateLocalConnectorConfigPath(p)
  <2>1. next(p, "nameConnector") /\ writeJSONAtomic(p, "config", [proc[p].config EXCEPT !.connector = TRUE])
    BY <1>7 DEF updateLocalConnectorConfigPath, SaveConfig
  <2>2. has(proc[p], "connectorFile")
    BY <2>1, Needs DEF Kinds, uses
  <2>3. home.connector # Absent
    BY <2>2 DEF has
  <2>4. has(proc[p], "config") => mayHold("config", [proc[p].config EXCEPT !.connector = TRUE])
    BY <2>3 DEF mayHold, has, Configs
  <2>5. "nameConnector" \in uses("config")
    BY DEF uses
  <2> HIDE DEF did, has, mayHold
  <2> QED BY <1>2, <2>1, <2>4, <2>5
<1> QED BY <1>1, <1>3, <1>4, <1>5, <1>6, <1>7

\* The registry a command has read.
LEMMA RegistryAt ==
  ASSUME CoherenceInv, NEW p \in Procs, NEW op \in uses("registry"), next(p, op)
  PROVE  isRegistry(proc[p].projects)
<1>1. has(proc[p], "registry")
  BY Needs DEF Kinds
<1> QED BY <1>1 DEF has

\* The machine it has read.
LEMMA MachineAt ==
  ASSUME CoherenceInv, NEW p \in Procs, NEW op \in uses("machine"), next(p, op)
  PROVE  proc[p].machine \in Machines
<1>1. has(proc[p], "machine")
  BY Needs DEF Kinds
<1> QED BY <1>1 DEF has

\* A registry that is read, and one whose blanks are filled in.
LEMMA LoadedSound ==
  ASSUME CoherenceInv, UNCHANGED scene, NEW p \in Procs, LoadRegistry(p) \/ BackfillMachineMetadata(p)
  PROVE  did(p)
<1>0. minted \in Nat /\ DOMAIN proc[p] = ProcFields
  BY DEF CoherenceInv, HomeTypes
<1>1. CASE LoadRegistry(p)
  <2>1. next(p, "loadRegistry")
    BY <1>1 DEF LoadRegistry
  <2>2. CASE home.projects = Torn
    <3>1. fail(p)
      BY <1>1, <2>2 DEF LoadRegistry
    <3> QED BY <3>1, FailSound DEF fail
  <2>3. CASE home.projects # Torn
    <3>1. PICK v : v = IF home.projects = Absent THEN EmptyRegistry ELSE home.projects
      OBVIOUS
    <3>2. goOn(p, [proc[p] EXCEPT !["projects"] = v], 1) /\ UNCHANGED home /\ minted' \in Nat
      BY <1>0, <1>1, <2>3, <3>1 DEF LoadRegistry
    <3>3. isRegistry(v)
      BY <3>1, FirstRegistry, FilesAt
    <3>4. steps(proc[p].todo, 1) /\ 1 \in Nat /\ "loadRegistry" \notin TokenOps /\ "projects" \in ProcFields \ {"cmd", "todo"}
      BY DEF steps, TokenOps, ProcFields
    <3>5. \A k \in Kinds : "loadRegistry" \in provides(k) => k = "registry"
      BY DEF Kinds, provides
    <3> HIDE DEF did, steps, goOn, has, provides
    <3> QED BY <2>1, <3>2, <3>3, <3>4, <3>5, Fetched
  <2> QED BY <2>2, <2>3
<1>2. CASE BackfillMachineMetadata(p)
  <2>1. next(p, "backfill")
    BY <1>2 DEF BackfillMachineMetadata
  <2>2. PICK reg : reg = backfilled(proc[p].projects, proc[p].machine)
    OBVIOUS
  <2>3. isRegistry(reg)
    BY <2>1, <2>2, RegistryAt, MachineAt, BackfilledRegistry DEF uses
  <2>4. \/ skip(p, 1)
        \/ fail(p)
        \/ /\ ValidateRegistry(reg)
           /\ home' = [home EXCEPT !["projects"] = reg] /\ UNCHANGED minted
           /\ goOn(p, [proc[p] EXCEPT !["projects"] = reg], 1)
    BY <1>2, <2>2 DEF BackfillMachineMetadata
  <2>5. CASE skip(p, 1)
    BY <2>1, <2>5, PlainOps, SkipSound DEF steps
  <2>6. CASE fail(p)
    BY <2>6, FailSound DEF fail
  <2>7. CASE /\ ValidateRegistry(reg)
             /\ home' = [home EXCEPT !["projects"] = reg] /\ UNCHANGED minted
             /\ goOn(p, [proc[p] EXCEPT !["projects"] = reg], 1)
    <3>1. mayHold("projects", reg) /\ "projects" \in Files /\ FilesAreSound
      BY <2>3, <2>7 DEF ValidateRegistry, mayHold, Files, CoherenceInv
    <3>2. FilesAreSound' /\ grown
      BY <2>7, <3>1, Written
    <3>3. PICK w : w = [proc[p] EXCEPT !["projects"] = reg]
      OBVIOUS
    <3>4. /\ goOn(p, w, 1) /\ DOMAIN w = ProcFields /\ w.projects = reg
          /\ \A y \in ProcFields : y \notin {"projects"} => w[y] = proc[p][y]
      BY <1>0, <2>7, <3>3 DEF ProcFields
    <3>5. has(w, "registry")'
      BY <2>3, <3>4 DEF has
    <3>6. /\ {"projects"} \in SUBSET (ProcFields \ {"cmd", "todo"}) /\ steps(proc[p].todo, 1) /\ 1 \in Nat
          /\ proc[p].todo # << >> /\ Head(proc[p].todo) = "backfill" /\ minted' \in Nat
      BY <1>0, <2>1, <2>7 DEF steps, ProcFields, next
    <3>7. plainOp("backfill")
      BY PlainOps
    <3> HIDE DEF did, steps, goOn, has, tokenInTurn
    <3> QED BY <3>2, <3>4, <3>5, <3>6, <3>7, ReadSound DEF plainOp
  <2> QED BY <2>4, <2>5, <2>6, <2>7
<1> QED BY <1>1, <1>2

\* Entries of the registry.
LEMMA EntriesSound ==
  ASSUME CoherenceInv, UNCHANGED scene, NEW p \in Procs,
         runProjectUse(p) \/ runProjectShare(p) \/ runProjectUnshare(p) \/ runProjectRemove(p)
  PROVE  did(p)
<1>1. PICK reg, id : reg = proc[p].projects /\ id = proc[p].cmd.id
  OBVIOUS
<1>2. ASSUME NEW op \in {"use", "share", "unshare", "remove"}, next(p, op), NEW new,
             id \in DOMAIN reg.entries /\ isRegistry(reg) /\ id \in ProjectIds => isRegistry(new),
             \/ id \in DOMAIN reg.entries /\ SaveRegistry(p, new)
             \/ fail(p)
      PROVE  did(p)
  <2>1. isRegistry(reg) /\ id \in ProjectIds /\ plainOp(op)
    BY <1>1, <1>2, RegistryAt, CommandAt, PlainOps DEF uses
  <2>2. CASE fail(p)
    BY <2>2, FailSound DEF fail
  <2>3. CASE id \in DOMAIN reg.entries /\ SaveRegistry(p, new)
    BY <1>2, <2>1, <2>3, RegistrySaved
  <2> QED BY <1>2, <2>2, <2>3
<1> HIDE DEF did, SaveRegistry, fail, isRegistry
<1>3. CASE runProjectUse(p)
  <2>1. next(p, "use") /\ ((id \in DOMAIN reg.entries /\ SaveRegistry(p, UseProject(reg, id))) \/ fail(p))
    BY <1>1, <1>3 DEF runProjectUse, editRegistry
  <2> QED BY <1>2, <2>1, UsedRegistry
<1>4. CASE runProjectShare(p)
  <2>1. next(p, "share") /\ ((id \in DOMAIN reg.entries /\ SaveRegistry(p, ShareProject(reg, id))) \/ fail(p))
    BY <1>1, <1>4 DEF runProjectShare, editRegistry
  <2> QED BY <1>2, <2>1, SharedRegistry
<1>5. CASE runProjectUnshare(p)
  <2>1. next(p, "unshare") /\ ((id \in DOMAIN reg.entries /\ SaveRegistry(p, UnshareProject(reg, id))) \/ fail(p))
    BY <1>1, <1>5 DEF runProjectUnshare, editRegistry
  <2> QED BY <1>2, <2>1, SharedRegistry
<1>6. CASE runProjectRemove(p)
  <2>1. next(p, "remove") /\ ((id \in DOMAIN reg.entries /\ SaveRegistry(p, RemoveProject(reg, id))) \/ fail(p))
    BY <1>1, <1>6 DEF runProjectRemove, editRegistry
  <2> QED BY <1>2, <2>1, RemovedRegistry
<1> QED BY <1>3, <1>4, <1>5, <1>6

\* The repository's own file.
LEMMA ProjectFileSound ==
  ASSUME CoherenceInv, UNCHANGED scene, NEW p \in Procs, readProject(p) \/ saveProject(p)
  PROVE  did(p)
<1>0. minted \in Nat
  BY DEF CoherenceInv
<1>1. CASE readProject(p)
  <2>1. next(p, "readProject")
    BY <1>1 DEF readProject
  <2>2. \/ fail(p)
        \/ \E v : \E n \in {1, 2} :
             goOn(p, [proc[p] EXCEPT !["id"] = v], n) /\ UNCHANGED <<home, minted>>
    BY <1>1 DEF readProject
  <2>3. CASE fail(p)
    BY <2>3, FailSound DEF fail
  <2>4. CASE \E v : \E n \in {1, 2} :
               goOn(p, [proc[p] EXCEPT !["id"] = v], n) /\ UNCHANGED <<home, minted>>
    <3>1. PICK v : \E n \in {1, 2} :
            goOn(p, [proc[p] EXCEPT !["id"] = v], n) /\ UNCHANGED <<home, minted>>
      BY <2>4
    <3>2. PICK n \in {1, 2} : goOn(p, [proc[p] EXCEPT !["id"] = v], n) /\ UNCHANGED <<home, minted>>
      BY <3>1
    <3>3. /\ steps(proc[p].todo, n) /\ n \in Nat /\ "id" \in ProcFields \ {"cmd", "todo"} /\ minted' \in Nat
      BY <1>0, <2>1, <3>2 DEF next, steps, Skippers, ProcFields
    <3>4. "readProject" \notin TokenOps /\ \A k \in Kinds : "readProject" \notin provides(k)
      BY PlainOps DEF plainOp
    <3> HIDE DEF did, steps, goOn, has, provides
    <3> QED BY <2>1, <3>2, <3>3, <3>4, Fetched
  <2> QED BY <2>2, <2>3, <2>4
<1>2. CASE saveProject(p)
  <2>1. next(p, "saveProject") /\ UNCHANGED <<home, minted>>
    BY <1>2 DEF saveProject
  <2>2. \E v : \E n \in {0, 1} : goOn(p, [proc[p] EXCEPT !["open"] = v], n)
    BY <1>2 DEF saveProject
  <2>3. PICK v : \E n \in {0, 1} : goOn(p, [proc[p] EXCEPT !["open"] = v], n)
    BY <2>2
  <2>4. PICK n \in {0, 1} : goOn(p, [proc[p] EXCEPT !["open"] = v], n)
    BY <2>3
  <2>5. steps(proc[p].todo, n) /\ n \in Nat /\ "open" \in ProcFields \ {"cmd", "todo"} /\ minted' \in Nat
    BY <1>0, <2>1, <2>4 DEF steps, ProcFields
  <2>6. "saveProject" \notin TokenOps /\ \A k \in Kinds : "saveProject" \notin provides(k)
    BY PlainOps DEF plainOp
  <2> HIDE DEF did, steps, goOn, has, provides
  <2> QED BY <2>1, <2>4, <2>5, <2>6, Fetched
<1> QED BY <1>1, <1>2

\* A project that is registered, or whose executor is noted.
LEMMA RegisterSound ==
  ASSUME CoherenceInv, UNCHANGED scene, NEW p \in Procs, initOrAdoptProject(p) \/ setDefaultExecutor(p)
  PROVE  did(p)
<1>1. CASE initOrAdoptProject(p)
  <2>1. PICK kept \in BOOLEAN :
          /\ next(p, "register")
          /\ SaveRegistry(p, UpsertProject(proc[p].projects, proc[p].cmd.id, NewProject(proc[p].cmd, proc[p].machine, kept)))
    <3>1. PICK kept : kept = (/\ proc[p].cmd.name # "setupLocal" /\ proc[p].cmd.id \in DOMAIN proc[p].projects.entries
                              /\ proc[p].projects.entries[proc[p].cmd.id].shared)
      OBVIOUS
    <3>2. kept \in BOOLEAN
      BY <3>1
    <3> QED BY <1>1, <3>1, <3>2 DEF initOrAdoptProject
  <2>2. isRegistry(proc[p].projects) /\ proc[p].machine \in Machines
    BY <2>1, RegistryAt, MachineAt DEF uses
  <2>3. proc[p].cmd.repo \in Repos /\ proc[p].cmd.share \in BOOLEAN /\ proc[p].cmd.id \in ProjectIds
    BY <2>1, CommandAt
  <2>4. NewProject(proc[p].cmd, proc[p].machine, kept) \in Entries
    <3>1. proc[p].machine.id \in Nat
      BY <2>2 DEF Machines
    <3>2. (proc[p].cmd.share \/ kept) \in BOOLEAN
      BY <2>3, Zenon
    <3> QED BY <2>3, <3>1, <3>2 DEF NewProject, Entries
  <2>5. isRegistry(UpsertProject(proc[p].projects, proc[p].cmd.id, NewProject(proc[p].cmd, proc[p].machine, kept)))
    BY <2>2, <2>3, <2>4, UpsertedRegistry
  <2> QED BY <2>1, <2>5, PlainOps, RegistrySaved
<1>2. CASE setDefaultExecutor(p)
  <2>1. next(p, "noteExecutor") /\ (SaveRegistry(p, proc[p].projects) \/ skip(p, 1))
    BY <1>2 DEF setDefaultExecutor
  <2>2. CASE SaveRegistry(p, proc[p].projects)
    <3>1. isRegistry(proc[p].projects)
      BY <2>1, RegistryAt DEF uses
    <3> QED BY <2>1, <2>2, <3>1, PlainOps, RegistrySaved
  <2>3. CASE skip(p, 1)
    BY <2>1, <2>3, PlainOps, SkipSound DEF steps
  <2> QED BY <2>1, <2>2, <2>3
<1> QED BY <1>1, <1>2

\* The gateway's config.
LEMMA GatewayFileSound ==
  ASSUME CoherenceInv, UNCHANGED scene, NEW p \in Procs,
         saveGateway(p) \/ loadOrDefaultGatewayConfig(p) \/ UpsertRelayProfile(p)
  PROVE  did(p)
<1>0. minted \in Nat
  BY DEF CoherenceInv
<1>1. ASSUME NEW op \in {"saveGateway", "addRelay"}, next(p, op), NEW v, writeFile(p, "gateway", v)
      PROVE  did(p)
  <2>1. mayHold("gateway", v) /\ mayHold("gateway", Torn)
    BY DEF mayHold
  <2>2. plainOp(op)
    BY PlainOps
  <2> HIDE DEF did, provides
  <2> QED BY <1>1, <2>1, <2>2, InPlaceSound DEF plainOp
<1>2. CASE saveGateway(p)
  BY <1>1, <1>2 DEF saveGateway
<1>3. CASE UpsertRelayProfile(p)
  BY <1>1, <1>3 DEF UpsertRelayProfile
<1>4. CASE loadOrDefaultGatewayConfig(p)
  <2>1. /\ next(p, "readGateway") /\ proc[p].todo \in Seq(HomeOps) /\ proc[p].todo # << >>
    BY <1>4 DEF loadOrDefaultGatewayConfig, CoherenceInv, HomeTypes, commandIsSound, next, InOrder
  <2>2. \/ fail(p)
        \/ skip(p, 1)
        \/ goOn(p, [proc[p] EXCEPT !["gateway"] = home.gateway], Len(proc[p].todo) - 1) /\ UNCHANGED <<home, minted>>
    BY <1>4 DEF loadOrDefaultGatewayConfig
  <2>3. CASE fail(p)
    BY <2>3, FailSound DEF fail
  <2>4. CASE skip(p, 1)
    BY <2>1, <2>4, PlainOps, SkipSound DEF steps
  <2>5. CASE goOn(p, [proc[p] EXCEPT !["gateway"] = home.gateway], Len(proc[p].todo) - 1) /\ UNCHANGED <<home, minted>>
    <3>1. PICK n : n = Len(proc[p].todo) - 1
      OBVIOUS
    <3>2. n \in Nat
      BY <2>1, <3>1
    <3>3. steps(proc[p].todo, n)
      BY <2>1, <3>1 DEF steps, next
    <3>4. goOn(p, [proc[p] EXCEPT !["gateway"] = home.gateway], n) /\ minted' \in Nat /\ UNCHANGED home
      BY <1>0, <2>5, <3>1
    <3>5. /\ "readGateway" \notin TokenOps /\ (\A k \in Kinds : "readGateway" \notin provides(k))
          /\ "gateway" \in ProcFields \ {"cmd", "todo"}
      BY PlainOps DEF plainOp, ProcFields
    <3> HIDE DEF did, steps, goOn, has, provides
    <3> QED BY <2>1, <3>2, <3>3, <3>4, <3>5, Fetched
  <2> QED BY <2>2, <2>3, <2>4, <2>5
<1> QED BY <1>2, <1>3, <1>4

\* The connector's config and its status.
LEMMA ConnectorFileSound ==
  ASSUME CoherenceInv, UNCHANGED scene, NEW p \in Procs,
         \/ saveConnector(p) \/ Enroll(p) \/ readConnector(p) \/ resolveShareEntry(p) \/ ShareInstance(p)
         \/ UnshareInstance(p) \/ loadStatusFile(p) \/ SyncConfig(p)
  PROVE  did(p)
<1>0. minted \in Nat
  BY DEF CoherenceInv
<1>1. CASE saveConnector(p)
  <2>1. next(p, "saveConnector") /\ writeFile(p, "connector", [enrolled |-> FALSE, shares |-> <<>>])
    BY <1>1 DEF saveConnector
  <2>2. mayHold("connector", [enrolled |-> FALSE, shares |-> <<>>]) /\ mayHold("connector", Torn)
    <3>1. PICK r : r \in Repos
      BY <2>1, CommandAt
    <3>2. isConnectorConfig([enrolled |-> FALSE, shares |-> <<>>])
      BY <3>1, FirstConnectors
    <3> QED BY <3>2 DEF mayHold
  <2>3. "saveConnector" \notin TokenOps /\ \A k \in Kinds : "saveConnector" \in provides(k) => k = "connectorFile"
    BY DEF TokenOps, Kinds, provides
  <2> HIDE DEF did, provides
  <2> QED BY <2>1, <2>2, <2>3, InPlaceSound
<1>2. CASE Enroll(p)
  <2>1. next(p, "enroll")
    BY <1>2 DEF Enroll
  <2>2. PICK cfg : /\ saveConnectorConfig(p, cfg)
                   /\ \/ cfg = [enrolled |-> TRUE, shares |-> [i \in {proc[p].cmd.repo} |-> TRUE]]
                      \/ cfg = [enrolled |-> TRUE, shares |-> <<>>]
    BY <1>2 DEF Enroll
  <2>3. proc[p].cmd.repo \in Repos
    BY <2>1, CommandAt
  <2>4. isConnectorConfig(cfg)
    BY <2>2, <2>3, FirstConnectors
  <2> QED BY <2>1, <2>2, <2>4, ConnectorSaved
<1>3. CASE readConnector(p)
  <2>1. next(p, "readConnector")
    BY <1>3 DEF readConnector
  <2>2. CASE home.connector \in {Absent, Torn}
    <3>1. fail(p)
      BY <1>3, <2>2 DEF readConnector
    <3> QED BY <3>1, FailSound DEF fail
  <2>3. CASE home.connector \notin {Absent, Torn}
    <3>1. goOn(p, [proc[p] EXCEPT !["connector"] = home.connector], 1) /\ UNCHANGED home /\ minted' \in Nat
      BY <1>0, <1>3, <2>3 DEF readConnector
    <3>2. isConnectorConfig(home.connector)
      BY <2>3, FilesAt
    <3>3. steps(proc[p].todo, 1) /\ 1 \in Nat /\ "readConnector" \notin TokenOps /\ "connector" \in ProcFields \ {"cmd", "todo"}
      BY DEF steps, TokenOps, ProcFields
    <3>4. \A k \in Kinds : "readConnector" \in provides(k) => k = "connector"
      BY DEF Kinds, provides
    <3> HIDE DEF did, steps, goOn, has, provides
    <3> QED BY <2>1, <3>1, <3>2, <3>3, <3>4, Fetched
  <2> QED BY <2>2, <2>3
<1>4. CASE resolveShareEntry(p)
  <2>1. next(p, "resolveShare") /\ (skip(p, 1) \/ fail(p))
    BY <1>4 DEF resolveShareEntry
  <2>2. CASE skip(p, 1)
    BY <2>1, <2>2, PlainOps, SkipSound DEF steps
  <2>3. CASE fail(p)
    BY <2>3, FailSound DEF fail
  <2> QED BY <2>1, <2>2, <2>3
<1>5. ASSUME NEW op \in uses("connector"), next(p, op) PROVE isConnectorConfig(proc[p].connector)
  <2>1. has(proc[p], "connector")
    BY <1>5, Needs DEF Kinds
  <2> QED BY <2>1 DEF has
<1>6. CASE ShareInstance(p)
  <2>1. next(p, "shareInstance") /\ saveConnectorConfig(p, UpsertSharedInstance(proc[p].connector, proc[p].cmd.repo))
    BY <1>6 DEF ShareInstance
  <2>2. isConnectorConfig(proc[p].connector) /\ proc[p].cmd.repo \in Repos
    BY <1>5, <2>1, CommandAt DEF uses
  <2>3. isConnectorConfig(UpsertSharedInstance(proc[p].connector, proc[p].cmd.repo))
    BY <2>2, ConnectorEdits
  <2> QED BY <2>1, <2>3, ConnectorSaved
<1>7. CASE UnshareInstance(p)
  <2>1. /\ next(p, "unshareInstance")
        /\ fail(p) \/ saveConnectorConfig(p, [proc[p].connector EXCEPT !.shares[proc[p].cmd.repo] = FALSE])
    BY <1>7, Zenon DEF UnshareInstance
  <2>2. isConnectorConfig(proc[p].connector) /\ proc[p].cmd.repo \in Repos
    BY <1>5, <2>1, CommandAt DEF uses
  <2>3. PICK cfg : cfg = [proc[p].connector EXCEPT !.shares[proc[p].cmd.repo] = FALSE]
    OBVIOUS
  <2>4. isConnectorConfig([proc[p].connector EXCEPT !.shares[proc[p].cmd.repo] = FALSE])
    BY <2>2, ConnectorEdits, Zenon
  <2>5. isConnectorConfig(cfg) /\ (fail(p) \/ saveConnectorConfig(p, cfg))
    BY <2>1, <2>3, <2>4, Zenon
  <2>6. CASE fail(p)
    BY <2>6, FailSound DEF fail
  <2>7. CASE saveConnectorConfig(p, cfg)
    BY <2>1, <2>5, <2>7, ConnectorSaved
  <2> QED BY <2>5, <2>6, <2>7
<1>8. CASE loadStatusFile(p)
  <2>1. next(p, "readStatus") /\ goOn(p, [proc[p] EXCEPT !["status"] = home.status], 1) /\ UNCHANGED home /\ minted' \in Nat
    BY <1>0, <1>8 DEF loadStatusFile
  <2>2. home.status \in StatusFiles \cup {Absent}
    BY FilesAt
  <2>3. steps(proc[p].todo, 1) /\ 1 \in Nat /\ "status" \in ProcFields \ {"cmd", "todo"}
    BY DEF steps, ProcFields
  <2>4. "readStatus" \notin TokenOps /\ \A k \in Kinds : "readStatus" \notin provides(k)
    BY PlainOps DEF plainOp
  <2> HIDE DEF did, steps, goOn, has, provides
  <2> QED BY <2>1, <2>2, <2>3, <2>4, Fetched
<1>9. CASE SyncConfig(p)
  <2>1. next(p, "saveStatus") /\ writeJSONAtomic(p, "status", seedStatus(proc[p].status, proc[p].connector))
    BY <1>9 DEF SyncConfig
  <2>2. isConnectorConfig(proc[p].connector)
    BY <1>5, <2>1 DEF uses
  <2>3. proc[p].status \in StatusFiles \cup {Absent}
    BY DEF CoherenceInv, commandIsSound
  <2>4. mayHold("status", seedStatus(proc[p].status, proc[p].connector)) /\ "status" \in Files
    BY <2>2, <2>3, SeededStatus DEF mayHold, Files
  <2> QED BY <2>1, <2>4, PlainOps, AtomicSound
<1> QED BY <1>1, <1>2, <1>3, <1>4, <1>6, <1>7, <1>8, <1>9

\* Which operation on the token comes next.
LEMMA TurnAfter ==
  ASSUME CoherenceInv, NEW p \in Procs, proc[p].todo # << >>, NEW w, DOMAIN w = ProcFields,
         NEW n \in Nat, goOn(p, w, n), steps(proc[p].todo, n)
  PROVE  /\ proc'[p].token = w.token
         /\ n = 0 => proc'[p].todo = proc[p].todo
         /\ n # 0 /\ next(p, "saveToken")' => Head(proc[p].todo) = "pickToken" /\ n = 1
         /\ n # 0 /\ next(p, "saveRelay")' =>
              (Head(proc[p].todo) = "saveToken" /\ n = 1) \/ (Head(proc[p].todo) = "pickToken" /\ n = 2)
<1>1. PICK t, r : t = proc[p].todo /\ r = leftOver(t, n)
  OBVIOUS
<1>2. proc'[p].todo = r /\ proc'[p].token = w.token
  <2>1. rest(p, n) = r
    BY <1>1 DEF rest, leftOver
  <2>2. proc'[p] = [w EXCEPT !.todo = r]
    BY <2>1 DEF goOn, HomeTypes, CoherenceInv
  <2> QED BY <2>2 DEF ProcFields
<1>3. InOrder(t) /\ t # << >>
  BY <1>1 DEF commandIsSound, CoherenceInv
<1>4. steps(t, n) /\ r = leftOver(t, n) /\ n \in Nat
  BY <1>1
<1>5. follows(t, n, r)
  BY ONLY <1>3, <1>4, AfterOne
<1> QED BY <1>1, <1>2, <1>5 DEF follows, next

\* The token is picked.
LEMMA TokenPicked ==
  ASSUME CoherenceInv, UNCHANGED scene, NEW p \in Procs, pickToken(p)
  PROVE  did(p)
<1>0. /\ next(p, "pickToken") /\ UNCHANGED home /\ proc[p].todo # << >> /\ Head(proc[p].todo) = "pickToken"
      /\ minted \in Nat /\ DOMAIN proc[p] = ProcFields /\ proc[p].todo \in Seq(HomeOps)
  BY DEF pickToken, next, CoherenceInv, HomeTypes, commandIsSound, InOrder
<1>1. proc[p].cmd.given \/ scene.procs = {p}
  <2>1. 1 \in 1..Len(proc[p].todo) /\ proc[p].todo[1] = "pickToken"
    BY <1>0
  <2>2. holds(proc[p].todo, "pickToken")
    BY <2>1 DEF holds
  <2> QED BY <2>2 DEF CoherenceInv, commandIsSound
<1>2. FilesAreSound' /\ grown
  BY <1>0, SameFiles
<1>3. PICK found : found = IF proc[p].cmd.given THEN GivenToken ELSE plannerTokenFromExistingConfig
  OBVIOUS
<1>4. \/ /\ found # Blank /\ UNCHANGED minted
         /\ goOn(p, [proc[p] EXCEPT !["token"] = found], 2)
      \/ /\ found = Blank /\ minted' = minted + 1
         /\ goOn(p, [proc[p] EXCEPT !["token"] = minted], 1)
      \/ proc' = [proc EXCEPT ![p] = Idle] /\ UNCHANGED minted
  BY <1>3 DEF pickToken
<1>5. ASSUME NEW v, NEW n \in {1, 2}, goOn(p, [proc[p] EXCEPT !["token"] = v], n), minted' \in Nat, v \in Nat,
             n = 1 => home.relay \in {Absent, Torn} /\ scene.procs = {p},
             n = 2 => v = GivenToken \/ (home.token = v /\ scene.procs = {p})
      PROVE  did(p)
  <2>1. PICK w : w = [proc[p] EXCEPT !["token"] = v]
    OBVIOUS
  <2>2. /\ goOn(p, w, n) /\ DOMAIN w = ProcFields /\ w.token = v /\ n \in Nat
        /\ \A y \in ProcFields : y \notin {"token"} => w[y] = proc[p][y]
    BY <1>0, <1>5, <2>1 DEF ProcFields
  <2>3. steps(proc[p].todo, n) /\ {"token"} \in SUBSET (ProcFields \ {"cmd", "todo"})
    BY <1>0 DEF steps, Skippers, ProcFields
  <2>4. /\ proc'[p].token = v
        /\ next(p, "saveToken")' => n = 1
        /\ next(p, "saveRelay")' => n = 2
    BY <1>0, <2>2, <2>3, TurnAfter
  <2>5. tokenInTurn(p)'
    BY <1>0, <1>5, <2>4 DEF tokenInTurn
  <2>6. \A k \in Kinds : "pickToken" \notin provides(k)
    BY DEF Kinds, provides
  <2>7. /\ \A k \in Kinds : n # 0 /\ Head(proc[p].todo) \in provides(k) => has(w, k)'
        /\ \A x \in {"status", "config", "projects", "machine", "connector"} : x \notin {"token"}
    BY <1>0, <2>6
  <2>8. minted' \in Nat
    BY <1>5
  <2> HIDE DEF did, steps, goOn, has, tokenInTurn, provides
  <2> QED BY <1>0, <1>2, <2>2, <2>3, <2>5, <2>7, <2>8, ReadSound
<1>6. CASE proc' = [proc EXCEPT ![p] = Idle] /\ UNCHANGED minted
  BY <1>0, <1>6, FailSound
<1>7. CASE /\ found # Blank /\ UNCHANGED minted
           /\ goOn(p, [proc[p] EXCEPT !["token"] = found], 2)
  <2>1. found \in Nat /\ (found = GivenToken \/ (home.token = found /\ scene.procs = {p}))
    <3>1. CASE proc[p].cmd.given
      BY <1>3, <3>1 DEF GivenToken
    <3>2. CASE ~proc[p].cmd.given
      <4>1. found = home.relay /\ home.relay \notin {Absent, Torn}
        BY <1>3, <1>7, <3>2 DEF plannerTokenFromExistingConfig
      <4> QED BY <1>1, <3>2, <4>1, FilesAt DEF TokenIsOnDisk
    <3> QED BY <3>1, <3>2
  <2>2. minted' \in Nat
    BY <1>0, <1>7
  <2>3. PICK n \in {1, 2} : n = 2
    OBVIOUS
  <2>4. goOn(p, [proc[p] EXCEPT !["token"] = found], n)
    BY <1>7, <2>3
  <2>5. /\ n = 1 => home.relay \in {Absent, Torn} /\ scene.procs = {p}
        /\ n = 2 => found = GivenToken \/ (home.token = found /\ scene.procs = {p})
        /\ found \in Nat
    BY <2>1, <2>3
  <2> HIDE DEF did, goOn
  <2> QED BY <1>5, <2>2, <2>4, <2>5, Zenon
<1>8. CASE /\ found = Blank /\ minted' = minted + 1
           /\ goOn(p, [proc[p] EXCEPT !["token"] = minted], 1)
  <2>1. ~proc[p].cmd.given
    BY <1>3, <1>8, KindsDiffer DEF GivenToken
  <2>2. home.relay \in {Absent, Torn}
    BY <1>3, <1>8, <2>1, FilesAt, KindsDiffer DEF plannerTokenFromExistingConfig
  <2>3. minted' \in Nat /\ scene.procs = {p} /\ 1 \in {1, 2} /\ 1 # 2
    BY <1>0, <1>1, <1>8, <2>1
  <2> HIDE DEF did, goOn
  <2> QED BY <1>0, <1>5, <1>8, <2>2, <2>3
<1> QED BY <1>4, <1>6, <1>7, <1>8

\* The token file, then the relay's config.
LEMMA TokenSaved ==
  ASSUME CoherenceInv, UNCHANGED scene, NEW p \in Procs, saveToken(p) \/ saveRelay(p)
  PROVE  did(p)
<1>0. proc[p].todo # << >> /\ DOMAIN proc[p] = ProcFields /\ tokenInTurn(p) /\ DOMAIN home = Files
  BY DEF saveToken, saveRelay, next, CoherenceInv, HomeTypes, commandIsSound, FilesAreSound, HomeIsTyped
<1>1. ASSUME NEW f \in Files, writeFile(p, f, proc[p].token)
      PROVE  /\ proc'[p].token = proc[p].token
             /\ \A g \in Files : g # f => home'[g] = home[g]
             /\ \/ proc[p].open /\ home'[f] = proc[p].token
                \/ proc'[p].todo = proc[p].todo
             /\ \/ ~proc[p].open
                \/ /\ next(p, "saveToken")' => Head(proc[p].todo) = "pickToken"
                   /\ next(p, "saveRelay")' => Head(proc[p].todo) \in {"saveToken", "pickToken"}
  <2>1. CASE proc[p].open
    <3>1. PICK w : w = [proc[p] EXCEPT !.open = FALSE]
      OBVIOUS
    <3>2. goOn(p, w, 1) /\ home' = [home EXCEPT ![f] = proc[p].token]
      BY <1>1, <2>1, <3>1 DEF writeFile
    <3>3. DOMAIN w = ProcFields /\ w.token = proc[p].token /\ steps(proc[p].todo, 1) /\ 1 \in Nat
      BY <1>0, <3>1 DEF ProcFields, steps
    <3>4. home'[f] = proc[p].token /\ \A g \in Files : g # f => home'[g] = home[g]
      BY <1>0, <3>2
    <3> HIDE DEF goOn, steps
    <3> QED BY <1>0, <2>1, <3>2, <3>3, <3>4, TurnAfter
  <2>2. CASE ~proc[p].open
    <3>1. PICK w : w = [proc[p] EXCEPT !.open = TRUE]
      OBVIOUS
    <3>2. goOn(p, w, 0) /\ home' = [home EXCEPT ![f] = Torn]
      BY <1>1, <2>2, <3>1 DEF writeFile
    <3>3. DOMAIN w = ProcFields /\ w.token = proc[p].token /\ steps(proc[p].todo, 0) /\ 0 \in Nat
      BY <1>0, <3>1 DEF ProcFields, steps
    <3>4. \A g \in Files : g # f => home'[g] = home[g]
      BY <1>0, <3>2
    <3> HIDE DEF goOn, steps
    <3> QED BY <1>0, <2>2, <3>2, <3>3, <3>4, TurnAfter
  <2> QED BY <2>1, <2>2
<1>2. CASE saveToken(p)
  <2>1. next(p, "saveToken") /\ writeFile(p, "token", proc[p].token) /\ Head(proc[p].todo) = "saveToken"
    BY <1>2 DEF saveToken, next
  <2>2. proc[p].token \in Nat /\ home.relay \in {Absent, Torn} /\ scene.procs = {p}
    BY <1>0, <2>1 DEF tokenInTurn
  <2>3. mayHold("token", proc[p].token) /\ mayHold("token", Torn)
    BY <2>2 DEF mayHold
  <2>4. "token" \in Files /\ "relay" \in Files
    BY DEF Files
  <2>5. /\ proc'[p].token = proc[p].token /\ home'.relay = home.relay
        /\ proc[p].open => home'.token = proc[p].token /\ ~next(p, "saveToken")'
        /\ ~proc[p].open => ~next(p, "saveRelay")'
    <3>1. /\ proc'[p].token = proc[p].token
          /\ \A g \in Files : g # "token" => home'[g] = home[g]
          /\ \/ proc[p].open /\ home'["token"] = proc[p].token
             \/ proc'[p].todo = proc[p].todo
          /\ \/ ~proc[p].open
             \/ /\ next(p, "saveToken")' => Head(proc[p].todo) = "pickToken"
                /\ next(p, "saveRelay")' => Head(proc[p].todo) \in {"saveToken", "pickToken"}
      BY <1>1, <2>1, <2>4
    <3>2. proc'[p].todo = proc[p].todo => next(p, "saveToken")' /\ ~next(p, "saveRelay")'
      BY <2>1 DEF next
    <3> QED BY <2>1, <2>4, <3>1, <3>2
  <2>6. tokenInTurn(p)'
    BY <2>2, <2>5 DEF tokenInTurn
  <2>7. \A k \in Kinds : "saveToken" \notin provides(k)
    BY DEF Kinds, provides
  <2> HIDE DEF did, tokenInTurn, provides
  <2> QED BY <2>1, <2>3, <2>6, <2>7, InPlaceSound
<1>3. CASE saveRelay(p)
  <2>1. next(p, "saveRelay") /\ writeFile(p, "relay", proc[p].token) /\ Head(proc[p].todo) = "saveRelay"
    BY <1>3 DEF saveRelay, next
  <2>2. proc[p].token \in Nat /\ (proc[p].token = GivenToken \/ (home.token = proc[p].token /\ scene.procs = {p}))
    BY <1>0, <2>1 DEF tokenInTurn
  <2>3. mayHold("relay", proc[p].token) /\ mayHold("relay", Torn)
    BY <2>2 DEF mayHold
  <2>4. "token" \in Files /\ "relay" \in Files
    BY DEF Files
  <2>5. /\ proc'[p].token = proc[p].token /\ home'.token = home.token
        /\ ~next(p, "saveToken")'
    <3>1. /\ proc'[p].token = proc[p].token
          /\ \A g \in Files : g # "relay" => home'[g] = home[g]
          /\ \/ proc[p].open /\ home'["relay"] = proc[p].token
             \/ proc'[p].todo = proc[p].todo
          /\ \/ ~proc[p].open
             \/ /\ next(p, "saveToken")' => Head(proc[p].todo) = "pickToken"
                /\ next(p, "saveRelay")' => Head(proc[p].todo) \in {"saveToken", "pickToken"}
      BY <1>1, <2>1, <2>4
    <3>2. proc'[p].todo = proc[p].todo => ~next(p, "saveToken")'
      BY <2>1 DEF next
    <3> QED BY <2>1, <2>4, <3>1, <3>2
  <2>6. tokenInTurn(p)'
    BY <2>2, <2>5 DEF tokenInTurn
  <2>7. \A k \in Kinds : "saveRelay" \in provides(k) => k = "relayFile"
    BY DEF Kinds, provides
  <2> HIDE DEF did, tokenInTurn, provides
  <2> QED BY <2>1, <2>3, <2>6, <2>7, InPlaceSound
<1> QED BY <1>2, <1>3

\* Every operation on the files.
LEMMA FileStepSound ==
  ASSUME CoherenceInv, UNCHANGED scene, NEW p \in Procs, fileStep(p)
  PROVE  did(p)
BY EnsureHomeSound, MachineSound, ConfigSound, LoadedSound, EntriesSound, ProjectFileSound, RegisterSound,
   GatewayFileSound, ConnectorFileSound, TokenPicked, TokenSaved DEF fileStep

\* A program that does not begin with the token.
starts(t) == t \in Seq(HomeOps) /\ t # << >> /\ Head(t) \notin {"saveToken", "saveRelay"}

\* Nor does one that goes on with more.
LEMMA StartsTogether ==
  ASSUME NEW a, starts(a), NEW b \in Seq(HomeOps), NEW c, c = a \o b
  PROVE  starts(c)
<1>1. a \in Seq(HomeOps) /\ 1 \in 1..Len(a) /\ Head(a) = a[1] /\ Len(a) \in Nat
  BY DEF starts
<1>2. /\ a \o b \in Seq(HomeOps) /\ Len(a \o b) = Len(a) + Len(b)
      /\ \A i \in 1..Len(a) : (a \o b)[i] = a[i]
  BY <1>1, Appended
<1>3. c \in Seq(HomeOps) /\ c[1] = a[1] /\ Len(c) = Len(a) + Len(b)
  BY <1>1, <1>2, Zenon
<1>4. Len(b) \in Nat
  OBVIOUS
<1>5. Len(c) # 0
  BY <1>1, <1>3, <1>4
<1>6. c # << >> /\ Head(c) = c[1]
  BY <1>3, <1>5
<1> QED BY <1>1, <1>3, <1>6 DEF starts

\* No command begins with the token.
LEMMA ProgramsStart ==
  ASSUME NEW cmd
  PROVE  (program(cmd) # << >> => starts(program(cmd))) /\ starts(serviceProgram(cmd))
<1>1. /\ starts(ensureHome) /\ starts(<<"readProject", "saveProject">>) /\ starts(<<"loadConfig", "readGateway">>)
      /\ starts(<<"enroll", "readStatus", "saveStatus">>) /\ starts(runShare) /\ starts(runUnshare)
      /\ starts(<<"loadConfig", "loadRegistry", "resolve", "pick">>) /\ starts(runRecover) /\ starts(runWatchdog)
  BY DEF starts, HomeOps, ensureHome, runShare, runUnshare, runRecover, runWatchdog
<1>2. /\ <<"loadConfig", "loadMachine", "makeMachine", "readProject", "saveProject", "loadRegistry", "register">> \in Seq(HomeOps)
      /\ <<"loadMachine", "makeMachine", "loadRegistry", "backfill">> \in Seq(HomeOps)
      /\ <<"noteExecutor">> \in Seq(HomeOps)
      /\ <<"loadConfig", "loadMachine", "makeMachine", "loadRegistry", "register">> \in Seq(HomeOps)
      /\ <<"pickToken", "saveToken", "saveRelay", "saveConnector", "loadConfig", "nameRelay">> \in Seq(HomeOps)
      /\ <<"saveGateway", "loadConfig", "nameGateway">> \in Seq(HomeOps)
      /\ <<"loadConfig", "selfHost">> \in Seq(HomeOps)
      /\ <<"loadConfig", "nameGateway", "addRelay">> \in Seq(HomeOps)
      /\ <<"loadConfig", "nameConnector">> \in Seq(HomeOps)
      /\ <<"loadConfig", "useProfile">> \in Seq(HomeOps)
      /\ <<"loadMachine", "makeMachine", "saveLabel">> \in Seq(HomeOps)
      /\ <<"writeDaemonConfig">> \in Seq(HomeOps) /\ <<"serve">> \in Seq(HomeOps) /\ << >> \in Seq(HomeOps)
      /\ cmd.name \in {"use", "share", "unshare", "remove"} => <<cmd.name>> \in Seq(HomeOps)
  BY DEF HomeOps
<1>3. ASSUME NEW a, starts(a), NEW b \in Seq(HomeOps) PROVE starts(a \o b)
  BY <1>3, StartsTogether
<1>4. \A a : starts(a) => a \in Seq(HomeOps)
  BY DEF starts
<1> HIDE DEF starts, ensureHome
<1>5. /\ starts(runProjectInit) /\ starts(setupLocal) /\ starts(setupRelay) /\ starts(setupGateway)
      /\ starts(runConfig) /\ starts(runMachine) /\ starts(loadRegistryWithMachine)
  BY <1>1, <1>2, <1>3, Zenon DEF runProjectInit, setupLocal, setupRelay, setupGateway, runConfig, runMachine,
     loadRegistryWithMachine
<1>6. starts(setupSelfHost)
  BY <1>2, <1>3, <1>5, Zenon DEF setupSelfHost
<1>7. starts(runExecutor)
  BY <1>1, <1>2, <1>3, <1>4, <1>5, Zenon DEF runExecutor
<1>8. starts(runGatewayRelay) /\ starts(runConnector)
  BY <1>1, <1>2, <1>3, <1>4, Zenon DEF runGatewayRelay, runConnector
<1>9. cmd.name \in {"use", "share", "unshare", "remove"} => starts(loadRegistryWithMachine \o <<cmd.name>>)
  BY <1>2, <1>3, <1>5, Zenon
<1>10. starts(runService(cmd))
  <2>1. (IF cmd.name \in {"install", "start", "restart"} THEN ensureHome \o <<"writeDaemonConfig">> ELSE <<>>) \in Seq(HomeOps)
    BY <1>1, <1>2, <1>3, <1>4, Zenon
  <2> QED BY <1>1, <1>2, <1>3, <2>1, Zenon DEF runService
<1>11. starts(serviceProgram(cmd))
  BY <1>1, <1>10, Zenon DEF serviceProgram
<1>12. program(cmd) # << >> => starts(program(cmd))
  BY <1>1, <1>5, <1>6, <1>7, <1>8, <1>9 DEF program, runProjectList
<1> QED BY <1>11, <1>12

\* A command that begins.
LEMMA BeginSound ==
  ASSUME CoherenceInv, UNCHANGED scene, NEW p \in Procs, NEW cmd \in scene.cmds, NEW t, beginWith(p, cmd, t),
         Ordered(t), starts(t), ~holds(t, "pickToken") \/ t = program(cmd)
  PROVE  did(p)
<1>1. /\ proc' = [proc EXCEPT ![p] = [Idle EXCEPT !.cmd = cmd, !.todo = t]] /\ UNCHANGED <<home, minted>>
      /\ p \in scene.procs /\ scene \in Scenes /\ DOMAIN proc = Procs /\ minted' \in Nat
  BY DEF beginWith, CoherenceInv, HomeTypes
<1>2. proc'[p].cmd = cmd /\ proc'[p].todo = t /\ proc'[p].status = Absent
  BY <1>1 DEF Idle
<1>3. cmd \in Commands
  BY <1>1 DEF Commands
<1>4. holds(t, "pickToken") => cmd.given \/ scene.procs = {p}
  <2> SUFFICES ASSUME holds(t, "pickToken") PROVE cmd.given \/ scene.procs = {p}
    OBVIOUS
  <2>1. PICK i \in 1..Len(t) : t[i] = "pickToken"
    BY DEF holds
  <2>2. t = program(cmd) /\ i \in DOMAIN program(cmd)
    BY DEF starts
  <2>3. \/ \A x, y \in scene.procs : x = y
        \/ \A c \in scene.cmds : c.given \/ \A j \in DOMAIN program(c) : program(c)[j] # "pickToken"
    BY <1>1, ScenesArePossible
  <2>4. CASE \A x, y \in scene.procs : x = y
    <3>1. scene.procs = {p}
      BY <1>1, <2>4
    <3> QED BY <3>1
  <2>5. CASE \A c \in scene.cmds : c.given \/ \A j \in DOMAIN program(c) : program(c)[j] # "pickToken"
    BY <2>1, <2>2, <2>5
  <2> QED BY <2>3, <2>4, <2>5
<1>5. InOrder(t) /\ \A k \in Kinds : ahead(t, k)
  BY DEF Ordered
<1>6. tokenInTurn(p)'
  BY <1>2 DEF starts, tokenInTurn, next
<1>7. commandIsSound(p)'
  <2> HIDE DEF InOrder, ahead, holds, tokenInTurn, has
  <2> QED BY <1>2, <1>3, <1>4, <1>5, <1>6 DEF commandIsSound
<1> QED BY <1>1, <1>7, SameFiles DEF did

\* Steps of the commands that change files.
LEMMA HomeStepSound ==
  ASSUME CoherenceInv, NEW p \in Procs, homeStep(p)
  PROVE  did(p)
<1>0. UNCHANGED scene
  BY DEF homeStep
<1>1. CASE begin(p)
  <2>1. PICK cmd \in scene.cmds : program(cmd) # <<>> /\ beginWith(p, cmd, program(cmd))
    BY <1>1 DEF begin
  <2>2. Ordered(program(cmd)) /\ starts(program(cmd))
    BY <2>1, ProgramsOrdered, ProgramsStart
  <2> QED BY <1>0, <2>1, <2>2, BeginSound
<1>2. CASE killed(p)
  BY <1>2, FailSound DEF killed, fail
<1>3. CASE fileStep(p)
  BY <1>0, <1>3, FileStepSound
<1> QED BY <1>1, <1>2, <1>3 DEF homeStep

\* Steps of a service command change none of what it has read.
LEMMA ServiceStepSound ==
  ASSUME CoherenceInv, NEW p \in Procs, beginService(p) \/ serviceStep(p)
  PROVE  did(p)
<1>1. CASE beginService(p)
  <2>1. PICK cmd \in scene.cmds : beginWith(p, cmd, serviceProgram(cmd)) /\ UNCHANGED scene
    BY <1>1 DEF beginService
  <2> QED BY <2>1, ProgramsOrdered, ProgramsStart, BeginSound
<1>2. CASE serviceStep(p)
  <2>1. /\ UNCHANGED <<scene, home, minted>> /\ proc[p].todo # << >> /\ minted' \in Nat
        /\ Head(proc[p].todo) \in ServiceOps /\ DOMAIN proc[p] = ProcFields
    BY <1>2 DEF serviceStep, resolveRuntimeContext, pickServices, writeGeneratedConfigs,
         performServiceAction, serviceReported, inspectService, recoverServices, Recover, WatchdogOnce,
         skip, next, ServiceOps, CoherenceInv, HomeTypes
  <2>2. FilesAreSound' /\ grown
    BY <2>1, SameFiles
  <2>3. Head(proc[p].todo) \notin TokenOps /\ \A k \in Kinds : Head(proc[p].todo) \notin provides(k)
    BY <2>1 DEF ServiceOps, TokenOps, Kinds, provides
  <2>4. ASSUME NEW w, DOMAIN w = ProcFields, NEW n \in {0, 1}, goOn(p, w, n),
               \A y \in ProcFields : y \notin {"id", "svcs", "open", "failed"} => w[y] = proc[p][y]
        PROVE  did(p)
    <3>1. {"id", "svcs", "open", "failed"} \in SUBSET (ProcFields \ {"cmd", "todo"}) /\ n \in Nat /\ steps(proc[p].todo, n)
      BY DEF ProcFields, steps
    <3>2. \A x \in {"status", "config", "projects", "machine", "connector"} : x \notin {"id", "svcs", "open", "failed"}
      OBVIOUS
    <3> HIDE DEF did, steps, goOn, has, tokenInTurn, provides
    <3> QED BY <2>1, <2>2, <2>3, <2>4, <3>1, <3>2, ReadSound
  <2>5. \E w : \E n \in {0, 1} :
          /\ DOMAIN w = ProcFields /\ goOn(p, w, n)
          /\ \A y \in ProcFields : y \notin {"id", "svcs", "open", "failed"} => w[y] = proc[p][y]
    <3>2. CASE resolveRuntimeContext(p)
      <4>1. PICK v : goOn(p, [proc[p] EXCEPT !.id = v], 1)
        BY <3>2 DEF resolveRuntimeContext
      <4>2. PICK w : w = [proc[p] EXCEPT !.id = v]
        OBVIOUS
      <4>3. DOMAIN w = ProcFields /\ goOn(p, w, 1) /\ \A y \in ProcFields : y \notin {"id", "svcs", "open", "failed"} => w[y] = proc[p][y]
        BY <2>1, <4>1, <4>2
      <4> HIDE DEF goOn
      <4> QED BY <4>3
    <3>3. CASE pickServices(p)
      <4>1. PICK v : goOn(p, [proc[p] EXCEPT !.svcs = v], 1)
        BY <3>3 DEF pickServices
      <4>2. PICK w : w = [proc[p] EXCEPT !.svcs = v]
        OBVIOUS
      <4>3. DOMAIN w = ProcFields /\ goOn(p, w, 1) /\ \A y \in ProcFields : y \notin {"id", "svcs", "open", "failed"} => w[y] = proc[p][y]
        BY <2>1, <4>1, <4>2
      <4> HIDE DEF goOn
      <4> QED BY <4>3
    <3>4. CASE writeGeneratedConfigs(p) \/ serviceReported(p) \/ Recover(p) \/ WatchdogOnce(p)
      <4>1. PICK w : w = proc[p]
        OBVIOUS
      <4>2. DOMAIN w = ProcFields /\ goOn(p, w, 1) /\ \A y \in ProcFields : w[y] = proc[p][y]
        BY <2>1, <3>4, <4>1 DEF writeGeneratedConfigs, serviceReported, Recover, WatchdogOnce, skip
      <4> HIDE DEF goOn
      <4> QED BY <4>2
    <3>5. CASE performServiceAction(p)
      <4> DEFINE later == [proc[p] EXCEPT !.svcs = Tail(proc[p].svcs)]
                 noted == [later EXCEPT !.failed = @ \cup {Head(proc[p].svcs)}]
      <4>1. goOn(p, later, 0) \/ goOn(p, noted, 0)
        BY <3>5 DEF performServiceAction
      <4>2. DOMAIN later = ProcFields /\ \A y \in ProcFields : y \notin {"svcs"} => later[y] = proc[p][y]
        BY <2>1
      <4>3. DOMAIN noted = ProcFields /\ \A y \in ProcFields : y \notin {"failed"} => noted[y] = later[y]
        BY <4>2
      <4> HIDE DEF later, noted, goOn
      <4> QED BY <4>1, <4>2, <4>3
    <3>6. CASE inspectService(p)
      <4> DEFINE opened == [proc[p] EXCEPT !.open = TRUE]
                 later == [proc[p] EXCEPT !.svcs = Tail(@)]
      <4>1. goOn(p, opened, 0) \/ goOn(p, later, 0)
        BY <3>6 DEF inspectService
      <4>2. DOMAIN opened = ProcFields /\ \A y \in ProcFields : y \notin {"open"} => opened[y] = proc[p][y]
        BY <2>1
      <4>3. DOMAIN later = ProcFields /\ \A y \in ProcFields : y \notin {"svcs"} => later[y] = proc[p][y]
        BY <2>1
      <4> HIDE DEF later, opened, goOn
      <4> QED BY <4>1, <4>2, <4>3
    <3>7. CASE recoverServices(p)
      <4> DEFINE later == [proc[p] EXCEPT !.svcs = Tail(@), !.open = FALSE]
                 noted == [later EXCEPT !.failed = @ \cup {Head(proc[p].svcs)}]
      <4>1. goOn(p, later, 0) \/ goOn(p, noted, 0)
        BY <3>7 DEF recoverServices
      <4>2. DOMAIN later = ProcFields /\ \A y \in ProcFields : y \notin {"svcs", "open"} => later[y] = proc[p][y]
        BY <2>1
      <4>3. DOMAIN noted = ProcFields /\ \A y \in ProcFields : y \notin {"failed"} => noted[y] = later[y]
        BY <4>2
      <4> HIDE DEF later, noted, goOn
      <4> QED BY <4>1, <4>2, <4>3
    <3> QED BY <1>2, <3>2, <3>3, <3>4, <3>5, <3>6, <3>7 DEF serviceStep
  <2>6. PICK w : \E n \in {0, 1} :
          /\ DOMAIN w = ProcFields /\ goOn(p, w, n)
          /\ \A y \in ProcFields : y \notin {"id", "svcs", "open", "failed"} => w[y] = proc[p][y]
    BY <2>5
  <2> HIDE DEF did, goOn
  <2> QED BY <2>4, <2>6
<1> QED BY <1>1, <1>2

\* What the connector has left to do after one operation.
LEMMA FetchingOn ==
  ASSUME NEW t, fetching(t), t # << >>, NEW r, r = Tail(t)
  PROVE  /\ fetching(r)
         /\ r # << >> /\ Head(r) = "machine" => Head(t) = "registry"
         /\ r # << >> /\ Head(r) = "backfill" => Head(t) = "machine"
<1>1. t \in Seq(ConnOps) /\ Len(t) \in Nat /\ 1 \in 1..Len(t) /\ Head(t) = t[1]
  BY DEF fetching
<1>2. /\ Tail(t) \in Seq(ConnOps) /\ Len(Tail(t)) = Len(t) - 1
      /\ \A i \in 1..(Len(t) - 1) : Tail(t)[i] = t[i + 1]
  BY <1>1
<1>3. PICK n \in Nat : n = Len(t)
  BY <1>1
<1>4. r \in Seq(ConnOps) /\ Len(r) = n - 1 /\ n >= 1 /\ \A i \in 1..(n - 1) : r[i] = t[i + 1]
  BY <1>1, <1>2, <1>3
<1>5. \A i \in 1..n : i < n =>
        (t[i + 1] = "machine" => t[i] = "registry") /\ (t[i + 1] = "backfill" => t[i] = "machine")
  BY <1>3 DEF fetching
<1>6. ASSUME NEW i \in 1..Len(r), i < Len(r)
      PROVE  (r[i + 1] = "machine" => r[i] = "registry") /\ (r[i + 1] = "backfill" => r[i] = "machine")
  <2>1. i + 1 \in 1..n /\ i + 1 < n /\ i \in 1..(n - 1) /\ i + 1 \in 1..(n - 1) /\ (i + 1) + 1 = i + 2
    BY <1>4, <1>6
  <2>2. r[i] = t[i + 1] /\ r[i + 1] = t[(i + 1) + 1]
    BY <1>4, <2>1
  <2> QED BY <1>5, <2>1, <2>2
<1>7. r # << >> => Head(r) = t[2] /\ 1 < n
  <2>1. r # << >> => Head(r) = r[1] /\ 1 \in 1..(n - 1) /\ 1 + 1 = 2
    BY <1>4
  <2> QED BY <1>4, <2>1
<1>8. 1 \in 1..n /\ 1 + 1 = 2
  BY <1>4
<1> QED BY <1>1, <1>4, <1>5, <1>6, <1>7, <1>8 DEF fetching

\* An operation put in front.
LEMMA FetchingAfter ==
  ASSUME NEW t, fetching(t), t # << >> => Head(t) \notin {"machine", "backfill"}, NEW x \in ConnOps,
         NEW r, r = <<x>> \o t
  PROVE  fetching(r) /\ r # << >> /\ Head(r) = x
<1>1. t \in Seq(ConnOps) /\ Len(t) \in Nat /\ (t # << >> => Head(t) = t[1])
  BY DEF fetching
<1>2. <<x>> \in Seq(ConnOps) /\ Len(<<x>>) = 1 /\ <<x>>[1] = x /\ 1 \in 1..Len(<<x>>)
  OBVIOUS
<1>3. /\ <<x>> \o t \in Seq(ConnOps) /\ Len(<<x>> \o t) = Len(<<x>>) + Len(t)
      /\ \A i \in 1..Len(<<x>>) : (<<x>> \o t)[i] = <<x>>[i]
      /\ \A i \in 1..Len(t) : (<<x>> \o t)[i + Len(<<x>>)] = t[i]
  BY <1>1, <1>2, Appended
<1>4. PICK n \in Nat : n = Len(t)
  BY <1>1
<1>5. r \in Seq(ConnOps) /\ Len(r) = 1 + n /\ r[1] = x /\ \A i \in 1..n : r[i + 1] = t[i]
  BY <1>2, <1>3, <1>4, Zenon
<1>6. r # << >> /\ Head(r) = x
  BY <1>5
<1>7. \A i \in 1..n : i < n =>
        (t[i + 1] = "machine" => t[i] = "registry") /\ (t[i + 1] = "backfill" => t[i] = "machine")
  BY <1>4 DEF fetching
<1>8. ASSUME NEW i \in 1..Len(r), i < Len(r)
      PROVE  (r[i + 1] = "machine" => r[i] = "registry") /\ (r[i + 1] = "backfill" => r[i] = "machine")
  <2>1. CASE i = 1
    <3>1. 1 \in 1..n /\ n # 0
      BY <1>5, <1>8, <2>1
    <3>2. t # << >>
      BY <1>1, <1>4, <3>1
    <3>3. r[i + 1] = t[1]
      BY <1>5, <2>1, <3>1
    <3> QED BY <1>1, <3>2, <3>3
  <2>2. CASE i # 1
    <3>1. i - 1 \in 1..n /\ i - 1 < n /\ (i - 1) + 1 = i /\ i \in 1..n
      BY <1>5, <1>8, <2>2
    <3>2. r[i] = t[i - 1] /\ r[i + 1] = t[(i - 1) + 1]
      BY <1>5, <3>1
    <3> QED BY <1>7, <3>1, <3>2
  <2> QED BY <2>1, <2>2
<1> QED BY <1>5, <1>6, <1>8 DEF fetching

\* The connector's programs.
LEMMA ProgramsFetch ==
  /\ fetching(runOnce) /\ runOnce # << >> /\ Head(runOnce) = "connecting"
  /\ fetching(heartbeat) /\ heartbeat # << >> /\ Head(heartbeat) = "reload"
  /\ fetching(<<"stopped">>) /\ fetching(<< >>)
<1>1. PICK t : t = <<"registry", "machine", "backfill", "advertise", "send", "connected">>
  OBVIOUS
<1>2. fetching(t) /\ t # << >> /\ Head(t) = "registry"
  BY <1>1 DEF fetching, ConnOps
<1>3. "connect" \in ConnOps /\ "connecting" \in ConnOps /\ "reload" \in ConnOps /\ "stopped" \in ConnOps
  BY DEF ConnOps
<1>4. PICK a : a = <<"connect">> \o t
  OBVIOUS
<1>5. fetching(a) /\ a # << >> /\ Head(a) = "connect"
  BY <1>2, <1>3, <1>4, FetchingAfter
<1>6. runOnce = <<"connecting">> \o a
  BY <1>1, <1>4 DEF runOnce, Advertisements
<1>7. heartbeat = <<"reload">> \o t
  BY <1>1 DEF heartbeat, Advertisements
<1>8. fetching(runOnce) /\ runOnce # << >> /\ Head(runOnce) = "connecting"
  BY <1>3, <1>5, <1>6, FetchingAfter
<1>9. fetching(heartbeat) /\ heartbeat # << >> /\ Head(heartbeat) = "reload"
  BY <1>2, <1>3, <1>7, FetchingAfter
<1>10. fetching(<<"stopped">>) /\ fetching(<< >>)
  BY <1>3 DEF fetching
<1> QED BY <1>8, <1>9, <1>10

\* A connector that goes on.
LEMMA ConnectorGoesOn ==
  ASSUME ConnectorIsSound, NEW op, busy(op), NEW c, DOMAIN c = ConnFields, proceed(c), c.on = conn.on,
         isConnectorConfig(c.cfg), c.ads.instances \subseteq Repos,
         op \in {"registry", "machine"} => isRegistry(c.reg),
         op = "machine" => home'.machine \in Machines
  PROVE  ConnectorIsSound'
<1>1. /\ DOMAIN conn' = ConnFields /\ conn'.todo = Tail(conn.todo) /\ conn'.on = conn.on /\ conn'.cfg = c.cfg
      /\ conn'.ads = c.ads /\ conn'.reg = c.reg
  BY DEF proceed, ConnFields
<1>2. conn.todo # << >> /\ Head(conn.todo) = op /\ fetching(conn.todo) /\ conn.on
  BY DEF busy, ConnectorIsSound
<1>3. PICK r : r = Tail(conn.todo)
  OBVIOUS
<1>4. /\ fetching(r)
      /\ r # << >> /\ Head(r) = "machine" => op = "registry"
      /\ r # << >> /\ Head(r) = "backfill" => op = "machine"
  BY <1>2, <1>3, FetchingOn
<1>5. (busy("machine")' => op = "registry") /\ (busy("backfill")' => op = "machine")
  BY <1>1, <1>3, <1>4 DEF busy
<1> HIDE DEF fetching, isRegistry, isConnectorConfig
<1> QED BY <1>1, <1>2, <1>3, <1>4, <1>5 DEF ConnectorIsSound

\* One with new work.
LEMMA ConnectorQueued ==
  ASSUME NEW t, fetching(t), t # << >> => Head(t) \notin {"machine", "backfill"}, DOMAIN conn' = ConnFields, conn'.todo = t, conn'.on,
         isConnectorConfig(conn'.cfg), conn'.ads.instances \subseteq Repos
  PROVE  ConnectorIsSound'
BY DEF ConnectorIsSound, busy

\* One that is off.
LEMMA ConnectorOff ==
  ASSUME conn' = Off
  PROVE  ConnectorIsSound'
<1>1. DOMAIN Off = ConnFields /\ Off.todo = << >> /\ Off.on = FALSE /\ Off.ads.instances = {}
  BY DEF Off, ConnFields, Nothing
<1> QED BY <1>1, ProgramsFetch DEF ConnectorIsSound, busy

\* What a step of the connector must leave.
connectorDid == ConnectorIsSound' /\ FilesAreSound' /\ grown /\ minted' \in Nat

\* Its status file.
LEMMA StatusSound ==
  ASSUME CoherenceInv, NEW op \in {"connecting", "connected", "failed", "stopped"},
         NEW state \in {"disconnected", "connecting", "connected", "error"}, update(op, state),
         proceed(conn) \/ conn' = Off
  PROVE  connectorDid
<1>1. /\ ConnectorIsSound /\ busy(op) /\ conn.on /\ minted' \in Nat /\ FilesAreSound
      /\ isConnectorConfig(conn.cfg) /\ conn.ads.instances \subseteq Repos /\ DOMAIN conn = ConnFields
      /\ busy("machine") => isRegistry(conn.reg)
  BY DEF update, CoherenceInv, ConnectorIsSound, busy
<1>2. PICK v : /\ v = [state |-> state, shares |-> IF state = "connected" THEN conn.ads.instances ELSE shared(conn.cfg)]
               /\ home' = [home EXCEPT !["status"] = v]
  BY DEF update, files
<1>3. mayHold("status", v) /\ "status" \in Files
  <2>1. shared(conn.cfg) \subseteq Repos
    BY <1>1, ConnectorParts
  <2> QED BY <1>1, <1>2, <2>1 DEF mayHold, StatusFiles, Files
<1>4. FilesAreSound' /\ grown
  BY <1>1, <1>2, <1>3, Written
<1>5. CASE conn' = Off
  BY <1>1, <1>4, <1>5, ConnectorOff DEF connectorDid
<1>6. CASE proceed(conn)
  <2>1. ConnectorIsSound'
    BY <1>1, <1>6, ConnectorGoesOn
  <2> QED BY <1>1, <1>4, <2>1 DEF connectorDid
<1> QED BY <1>5, <1>6

\* Every step of the connector.
LEMMA ConnectorStepSound ==
  ASSUME CoherenceInv, connectorStep
  PROVE  connectorDid
<1>0. /\ ConnectorIsSound /\ FilesAreSound /\ minted \in Nat /\ DOMAIN conn = ConnFields
      /\ conn.ads.instances \subseteq Repos /\ (conn.todo # << >> => conn.on)
      /\ conn.on => isConnectorConfig(conn.cfg)
  BY DEF CoherenceInv, ConnectorIsSound
<1>1. UNCHANGED homeVars => FilesAreSound' /\ grown /\ minted' \in Nat
  BY <1>0, SameFiles DEF homeVars
<1>2. ASSUME NEW op, busy(op), NEW c, DOMAIN c = ConnFields, proceed(c), c.on = conn.on,
             isConnectorConfig(c.cfg), c.ads.instances \subseteq Repos, UNCHANGED homeVars,
             \/ op \in {"connect", "reload", "backfill", "advertise", "send"}
             \/ op = "registry" /\ isRegistry(c.reg)
             \/ op = "machine" /\ isRegistry(c.reg) /\ home'.machine \in Machines
      PROVE  connectorDid
  <2>1. /\ op \in {"registry", "machine"} => isRegistry(c.reg)
        /\ op = "machine" => home'.machine \in Machines
    BY <1>2
  <2>2. ConnectorIsSound'
    BY <1>0, <1>2, <2>1, ConnectorGoesOn
  <2> QED BY <1>1, <1>2, <2>2 DEF connectorDid
<1>3. ASSUME NEW t, fetching(t), t # << >> => Head(t) \notin {"machine", "backfill"}, DOMAIN conn' = ConnFields,
             conn'.todo = t, conn'.on, isConnectorConfig(conn'.cfg), conn'.ads.instances \subseteq Repos, UNCHANGED homeVars
      PROVE  connectorDid
  BY <1>1, <1>3, ConnectorQueued DEF connectorDid
<1>4. CASE conn' = Off /\ UNCHANGED homeVars
  BY <1>1, <1>4, ConnectorOff DEF connectorDid
<1>5. CASE NewClient
  <2> DEFINE w == [Off EXCEPT !.on = TRUE, !.cfg = home.connector, !.todo = runOnce]
  <2>1. conn' = w /\ UNCHANGED homeVars /\ home.connector \notin {Absent, Torn}
    BY <1>5 DEF NewClient
  <2>2. DOMAIN w = ConnFields /\ w.todo = runOnce /\ w.on /\ w.cfg = home.connector /\ w.ads.instances = {}
    BY DEF Off, ConnFields, Nothing
  <2>3. isConnectorConfig(home.connector)
    BY <2>1, FilesAt
  <2> HIDE DEF w, fetching, isConnectorConfig
  <2> QED BY <1>3, <2>1, <2>2, <2>3, ProgramsFetch
<1>6. CASE MarkConnecting \/ MarkConnectedWithProjects \/ MarkFailure \/ MarkDisconnected
  <2> HIDE DEF connectorDid, update, proceed
  <2> QED BY <1>6, StatusSound DEF MarkConnecting, MarkConnectedWithProjects, MarkFailure, MarkDisconnected
<1>7. CASE fetchChallenge
  <2>1. busy("connect") /\ UNCHANGED homeVars /\ conn.on /\ isConnectorConfig(conn.cfg)
    BY <1>0, <1>7 DEF fetchChallenge, busy
  <2>2. CASE proceed(conn)
    BY <1>0, <1>2, <2>1, <2>2
  <2>3. CASE conn' = [conn EXCEPT !.todo = <<"failed">> \o runOnce]
    <3>1. PICK t : t = <<"failed">> \o runOnce
      OBVIOUS
    <3>2. DOMAIN conn' = ConnFields /\ conn'.todo = t /\ conn'.on = conn.on /\ conn'.cfg = conn.cfg /\ conn'.ads = conn.ads
      BY <1>0, <2>3, <3>1 DEF ConnFields
    <3>3. fetching(t) /\ t # << >> /\ Head(t) = "failed"
      BY <3>1, ProgramsFetch, FetchingAfter DEF ConnOps
    <3> HIDE DEF fetching, isConnectorConfig
    <3> QED BY <1>0, <1>3, <2>1, <3>2, <3>3
  <2> QED BY <1>7, <2>2, <2>3 DEF fetchChallenge
<1>8. CASE reloadConfig
  <2>1. busy("reload") /\ UNCHANGED homeVars /\ conn.on /\ conn.todo # << >> /\ Head(conn.todo) = "reload"
    BY <1>0, <1>8 DEF reloadConfig, busy
  <2>2. CASE home.connector \in {Absent, Torn}
    <3>1. conn' = [conn EXCEPT !.todo = <<"failed">> \o Tail(@)]
      BY <1>8, <2>2 DEF reloadConfig
    <3>2. PICK r, t : r = Tail(conn.todo) /\ t = <<"failed">> \o r
      OBVIOUS
    <3>3. DOMAIN conn' = ConnFields /\ conn'.todo = t /\ conn'.on = conn.on /\ conn'.cfg = conn.cfg /\ conn'.ads = conn.ads
      BY <1>0, <3>1, <3>2 DEF ConnFields
    <3>4. fetching(conn.todo)
      BY <1>0 DEF ConnectorIsSound
    <3>5. fetching(r) /\ (r # << >> => Head(r) \notin {"machine", "backfill"})
      BY <2>1, <3>2, <3>4, FetchingOn
    <3>6. fetching(t) /\ t # << >> /\ Head(t) = "failed"
      BY <3>2, <3>5, FetchingAfter DEF ConnOps
    <3> HIDE DEF fetching, isConnectorConfig
    <3> QED BY <1>0, <1>3, <2>1, <3>3, <3>6
  <2>3. CASE home.connector \notin {Absent, Torn}
    <3> DEFINE c == [conn EXCEPT !.cfg = home.connector]
    <3>1. proceed(c)
      BY <1>8, <2>3 DEF reloadConfig
    <3>2. DOMAIN c = ConnFields /\ c.on = conn.on /\ c.cfg = home.connector /\ c.ads = conn.ads
      BY <1>0 DEF ConnFields
    <3>3. isConnectorConfig(home.connector)
      BY <2>3, FilesAt
    <3> HIDE DEF c, isConnectorConfig
    <3> QED BY <1>0, <1>2, <2>1, <3>1, <3>2, <3>3
  <2> QED BY <2>2, <2>3
<1>9. CASE SharedProjects
  <2> DEFINE c == [conn EXCEPT !.reg = IF home.projects = Absent THEN EmptyRegistry ELSE home.projects]
  <2>1. busy("registry") /\ proceed(c) /\ UNCHANGED homeVars /\ conn.on /\ isConnectorConfig(conn.cfg)
    BY <1>0, <1>9 DEF SharedProjects, busy
  <2>2. /\ DOMAIN c = ConnFields /\ c.on = conn.on /\ c.cfg = conn.cfg /\ c.ads = conn.ads
        /\ c.reg = IF home.projects = Absent THEN EmptyRegistry ELSE home.projects
    BY <1>0 DEF ConnFields
  <2>3. isRegistry(c.reg)
    BY <2>2, FirstRegistry, FilesAt
  <2> HIDE DEF c, isConnectorConfig, isRegistry
  <2> QED BY <1>0, <1>2, <2>1, <2>2, <2>3
<1>10. CASE ensureMachine
  <2>1. busy("machine") /\ proceed(conn) /\ conn.on /\ isRegistry(conn.reg)
    BY <1>0, <1>10 DEF ensureMachine, busy, ConnectorIsSound
  <2>2. CASE home.machine # Absent
    <3>1. UNCHANGED homeVars /\ UNCHANGED home
      BY <1>10, <2>2 DEF ensureMachine, homeVars
    <3>2. home'.machine \in Machines
      BY <2>2, <3>1, FilesAt
    <3> QED BY <1>0, <1>2, <2>1, <3>1, <3>2
  <2>3. CASE home.machine = Absent
    <3>1. PICK v : v = [id |-> minted, label |-> "host"] /\ home' = [home EXCEPT !["machine"] = v] /\ minted' = minted + 1
      BY <1>10, <2>3 DEF ensureMachine, files
    <3>2. mayHold("machine", v) /\ "machine" \in Files /\ v \in Machines
      BY <1>0, <3>1 DEF mayHold, Machines, Files
    <3>3. FilesAreSound' /\ grown /\ home'["machine"] = v
      BY <1>0, <3>1, <3>2, Written
    <3>4. ConnectorIsSound'
      BY <1>0, <2>1, <3>2, <3>3, ConnectorGoesOn
    <3> QED BY <1>0, <3>1, <3>3, <3>4 DEF connectorDid
  <2> QED BY <2>2, <2>3
<1>11. CASE backfillRegistry
  <2>1. /\ busy("backfill") /\ conn.on /\ isConnectorConfig(conn.cfg) /\ isRegistry(conn.reg) /\ home.machine \in Machines
    BY <1>0, <1>11 DEF backfillRegistry, busy, ConnectorIsSound
  <2>2. PICK reg : reg = backfilled(conn.reg, home.machine)
    OBVIOUS
  <2>3. isRegistry(reg)
    BY <2>1, <2>2, BackfilledRegistry
  <2>4. \/ UNCHANGED homeVars /\ \E v : proceed([conn EXCEPT !.reg = v])
        \/ /\ ValidateRegistry(reg) /\ home' = [home EXCEPT !["projects"] = reg] /\ UNCHANGED minted
           /\ proceed([conn EXCEPT !.reg = reg])
    BY <1>11, <2>2 DEF backfillRegistry, files
  <2>5. CASE UNCHANGED homeVars /\ \E v : proceed([conn EXCEPT !.reg = v])
    <3>1. PICK v : proceed([conn EXCEPT !.reg = v])
      BY <2>5
    <3> DEFINE c == [conn EXCEPT !.reg = v]
    <3>2. DOMAIN c = ConnFields /\ c.on = conn.on /\ c.cfg = conn.cfg /\ c.ads = conn.ads /\ proceed(c)
      BY <1>0, <3>1 DEF ConnFields
    <3> HIDE DEF c, isConnectorConfig, isRegistry
    <3> QED BY <1>0, <1>2, <2>1, <2>5, <3>2
  <2>6. CASE /\ ValidateRegistry(reg) /\ home' = [home EXCEPT !["projects"] = reg] /\ UNCHANGED minted
             /\ proceed([conn EXCEPT !.reg = reg])
    <3> DEFINE c == [conn EXCEPT !.reg = reg]
    <3>1. DOMAIN c = ConnFields /\ c.on = conn.on /\ c.cfg = conn.cfg /\ c.ads = conn.ads /\ proceed(c)
      BY <1>0, <2>6 DEF ConnFields
    <3>2. mayHold("projects", reg) /\ "projects" \in Files
      BY <2>3, <2>6 DEF mayHold, ValidateRegistry, Files
    <3>3. FilesAreSound' /\ grown
      BY <1>0, <2>6, <3>2, Written
    <3> HIDE DEF c, isConnectorConfig, isRegistry
    <3>4. ConnectorIsSound'
      <4>1. "backfill" \notin {"registry", "machine"} /\ "backfill" # "machine"
        OBVIOUS
      <4> QED BY <1>0, <2>1, <3>1, <4>1, ConnectorGoesOn
    <3> QED BY <1>0, <2>6, <3>3, <3>4 DEF connectorDid
  <2> QED BY <2>4, <2>5, <2>6
<1>12. CASE resolveInstances
  <2>1. busy("advertise") /\ UNCHANGED homeVars /\ conn.on /\ isConnectorConfig(conn.cfg)
    BY <1>0, <1>12 DEF resolveInstances, busy
  <2>2. PICK i \in SUBSET shared(conn.cfg) : \E j :
          proceed([conn EXCEPT !.ads = [instances |-> i, projects |-> j], !.reg = Absent])
    BY <1>12 DEF resolveInstances
  <2>3. PICK j : proceed([conn EXCEPT !.ads = [instances |-> i, projects |-> j], !.reg = Absent])
    BY <2>2
  <2> DEFINE c == [conn EXCEPT !.ads = [instances |-> i, projects |-> j], !.reg = Absent]
  <2>4. DOMAIN c = ConnFields /\ c.on = conn.on /\ c.cfg = conn.cfg /\ c.ads = [instances |-> i, projects |-> j] /\ proceed(c)
    BY <1>0, <2>3 DEF ConnFields
  <2>5. c.ads.instances = i /\ i \subseteq Repos
    BY <1>0, <2>1, <2>2, <2>4, ConnectorParts
  <2> HIDE DEF c, isConnectorConfig, isRegistry
  <2> QED BY <1>0, <1>2, <2>1, <2>4, <2>5
<1>13. CASE writeAdvertise
  <2>1. busy("send") /\ UNCHANGED homeVars /\ conn.on /\ isConnectorConfig(conn.cfg)
    BY <1>0, <1>13 DEF writeAdvertise, busy
  <2>2. proceed(conn) \/ proceed([conn EXCEPT !.last = conn.ads])
    BY <1>13 DEF writeAdvertise
  <2> DEFINE c == [conn EXCEPT !.last = conn.ads]
  <2>3. DOMAIN c = ConnFields /\ c.on = conn.on /\ c.cfg = conn.cfg /\ c.ads = conn.ads /\ (proceed(conn) \/ proceed(c))
    BY <1>0, <2>2 DEF ConnFields
  <2> HIDE DEF c, isConnectorConfig, isRegistry
  <2> QED BY <1>0, <1>2, <2>1, <2>3
<1>14. CASE heartbeatLoop
  <2>1. conn.on /\ conn' = [conn EXCEPT !.todo = heartbeat] /\ UNCHANGED homeVars
    BY <1>14 DEF heartbeatLoop
  <2>2. DOMAIN conn' = ConnFields /\ conn'.todo = heartbeat /\ conn'.on /\ conn'.cfg = conn.cfg /\ conn'.ads = conn.ads
    BY <1>0, <2>1 DEF ConnFields
  <2> HIDE DEF isConnectorConfig, fetching
  <2> QED BY <1>0, <1>3, <2>1, <2>2, ProgramsFetch
<1>15. CASE sessionLost
  <2>1. conn.on /\ UNCHANGED homeVars
    BY <1>15 DEF sessionLost, connected
  <2>2. PICK late \in {<< >>, <<"connected">>} :
          conn' = [conn EXCEPT !.todo = <<"failed">> \o late \o runOnce, !.last = Nothing, !.reg = Absent]
    BY <1>15 DEF sessionLost
  <2>3. PICK t : t = <<"failed">> \o late \o runOnce
    OBVIOUS
  <2>4. DOMAIN conn' = ConnFields /\ conn'.todo = t /\ conn'.on = conn.on /\ conn'.cfg = conn.cfg /\ conn'.ads = conn.ads
    BY <1>0, <2>2, <2>3 DEF ConnFields
  <2>5. runOnce \in Seq(ConnOps) /\ "connected" \in ConnOps /\ "failed" \in ConnOps
    BY ProgramsFetch DEF fetching, ConnOps
  <2>6. fetching(t) /\ t # << >> /\ Head(t) = "failed"
    <3>1. CASE late = << >>
      <4>1. t = <<"failed">> \o runOnce
        BY <2>3, <2>5, <3>1
      <4> QED BY <2>5, <4>1, ProgramsFetch, FetchingAfter
    <3>2. CASE late = <<"connected">>
      <4>1. PICK r : r = <<"connected">> \o runOnce
        OBVIOUS
      <4>2. fetching(r) /\ r # << >> /\ Head(r) = "connected"
        BY <2>5, <4>1, ProgramsFetch, FetchingAfter
      <4>3. t = <<"failed">> \o r
        <5>1. <<"failed">> \in Seq(ConnOps) /\ <<"connected">> \in Seq(ConnOps)
          BY <2>5
        <5>2. (<<"failed">> \o <<"connected">>) \o runOnce = <<"failed">> \o (<<"connected">> \o runOnce)
          BY <2>5, <5>1, ConcatAssociative
        <5> QED BY <2>3, <3>2, <4>1, <5>2
      <4> QED BY <2>5, <4>2, <4>3, FetchingAfter
    <3> QED BY <2>2, <3>1, <3>2
  <2> HIDE DEF isConnectorConfig, fetching
  <2> QED BY <1>0, <1>3, <2>1, <2>4, <2>6
<1>16. CASE connectorStops
  <2>1. conn.on /\ UNCHANGED homeVars /\ (conn' = Off \/ conn' = [conn EXCEPT !.todo = <<"stopped">>])
    BY <1>16 DEF connectorStops
  <2>2. CASE conn' = Off
    BY <1>4, <2>1, <2>2
  <2>3. CASE conn' = [conn EXCEPT !.todo = <<"stopped">>]
    <3>1. PICK t : t = <<"stopped">>
      OBVIOUS
    <3>2. DOMAIN conn' = ConnFields /\ conn'.todo = t /\ conn'.on = conn.on /\ conn'.cfg = conn.cfg /\ conn'.ads = conn.ads
      BY <1>0, <2>3, <3>1 DEF ConnFields
    <3>3. fetching(t) /\ Head(t) = "stopped"
      BY <3>1, ProgramsFetch
    <3> HIDE DEF isConnectorConfig, fetching
    <3> QED BY <1>0, <1>3, <2>1, <3>2, <3>3
  <2> QED BY <2>1, <2>2, <2>3
<1> QED BY <1>5, <1>6, <1>7, <1>8, <1>9, <1>10, <1>11, <1>12, <1>13, <1>14, <1>15, <1>16 DEF connectorStep

\* A process that works is one of the scenario's.
LEMMA NotAlone ==
  ASSUME HomeTypes, NEW p \in Procs, begun(p) \/ (moved(p) /\ proc[p].todo # << >>), NEW q \in Procs, q # p
  PROVE  scene.procs # {q}
BY DEF HomeTypes, begun

\* Every step leaves files that fit together.
LEMMA CoherenceStep == CoherenceInv /\ [workstationStep]_workstationVars => CoherenceInv'
<1> SUFFICES ASSUME CoherenceInv, [workstationStep]_workstationVars PROVE CoherenceInv'
  OBVIOUS
<1>0. HomeTypes /\ HomeTypes' /\ scene \in Scenes /\ FilesAreSound /\ minted \in Nat /\ ConnectorIsSound
  BY HomeTypesInv DEF CoherenceInv
<1>1. ASSUME FilesAreSound', grown, UNCHANGED conn PROVE ConnectorIsSound'
  <2>1. home.machine \in Machines => home'.machine \in Machines
    <3>1. home.machine \in Machines => home'.machine # Absent
      BY <1>1, KindsDiffer DEF grown
    <3> QED BY <1>1, <3>1 DEF FilesAreSound, HomeIsTyped
  <2> HIDE DEF fetching, isConnectorConfig, isRegistry
  <2> QED BY <1>0, <1>1, <2>1 DEF ConnectorIsSound, busy
<1>2. ASSUME NEW p \in Procs, homeStep(p) \/ beginService(p) \/ serviceStep(p), UNCHANGED conn
      PROVE  CoherenceInv'
  <2>1. UNCHANGED scene /\ (begun(p) \/ (moved(p) /\ proc[p].todo # << >>)) /\ DOMAIN home' = Files
    BY <1>0, <1>2, HomeStepMoves, ServiceStepMoves DEF HomeTypes
  <2>2. did(p)
    BY <1>2, HomeStepSound, ServiceStepSound
  <2>3. ASSUME NEW q \in Procs PROVE commandIsSound(q)'
    <3>1. CASE q = p
      BY <2>2, <3>1 DEF did
    <3>2. CASE q # p
      <4>1. proc'[q] = proc[q] /\ scene.procs # {q} /\ grown /\ commandIsSound(q)
        BY <1>0, <2>1, <2>2, <3>2, MovedTypes, NotAlone DEF did, CoherenceInv
      <4> HIDE DEF commandIsSound, grown
      <4> QED BY <2>1, <4>1, OthersAreSound
    <3> QED BY <3>1, <3>2
  <2>4. ConnectorIsSound'
    BY <1>1, <1>2, <2>2 DEF did
  <2> HIDE DEF commandIsSound
  <2> QED BY <1>0, <2>1, <2>2, <2>3, <2>4 DEF CoherenceInv, did
<1>3. ASSUME UNCHANGED <<scene, proc>>, home'.relay = home.relay, home'.token = home.token,
             FilesAreSound', grown, minted' \in Nat, ConnectorIsSound'
      PROVE  CoherenceInv'
  <2>1. ASSUME NEW q \in Procs PROVE commandIsSound(q)'
    <3>1. commandIsSound(q) /\ proc'[q] = proc[q] /\ UNCHANGED scene
      BY <1>3 DEF CoherenceInv
    <3> HIDE DEF commandIsSound, grown
    <3> QED BY <1>3, <3>1, OthersAreSound
  <2> HIDE DEF commandIsSound
  <2> QED BY <1>0, <1>3, <2>1 DEF CoherenceInv
<1>4. CASE UNCHANGED <<scene, home, proc, minted, conn>>
  <2>1. FilesAreSound' /\ grown
    BY <1>4, SameFiles
  <2> QED BY <1>0, <1>1, <1>3, <1>4, <2>1
<1>5. CASE loseRepo /\ UNCHANGED connVars
  BY <1>4, <1>5 DEF loseRepo, connVars
<1>6. CASE (\E s \in ServiceNames : serviceExits(s) \/ managerRestarts(s)) /\ UNCHANGED connVars
  BY <1>4, <1>6 DEF serviceExits, managerRestarts, homeVars, connVars
<1>7. CASE connectorStep
  <2>1. connectorDid
    BY <1>7, ConnectorStepSound
  <2>2. UNCHANGED <<scene, proc>> /\ home'.relay = home.relay /\ home'.token = home.token
    BY <1>0, <1>7, ConnectorHome
  <2> QED BY <1>3, <2>1, <2>2 DEF connectorDid
<1>8. CASE UNCHANGED <<homeVars, connVars>>
  BY <1>4, <1>8 DEF homeVars, connVars
<1>9. ASSUME NEW p \in Procs, homeStep(p) \/ beginService(p) \/ serviceStep(p), UNCHANGED connVars
      PROVE  CoherenceInv'
  BY <1>2, <1>9 DEF connVars
<1> QED BY <1>5, <1>6, <1>7, <1>8, <1>9 DEF workstationStep, workstationVars

\* Files that fit together are coherent.
LEMMA SoundIsCoherent == CoherenceInv => HomeIsCoherent
<1> SUFFICES ASSUME CoherenceInv PROVE HomeIsCoherent
  OBVIOUS
<1>1. HomeIsTyped(home) /\ NamedFilesExist(home) /\ CurrentIsRegistered(home) /\ TokenIsOnDisk(home)
  BY DEF CoherenceInv, FilesAreSound
<1>2. Torn \notin {home.config, home.projects, home.machine, home.status}
  BY <1>1, KindsDiffer DEF HomeIsTyped
<1> QED BY <1>1, <1>2 DEF HomeIsCoherent

\* Any mix of commands, killed at any point and beside a running connector,
\* leaves files that fit together (setup, project, machine and connector
\* commands).
THEOREM HomesAreCoherent == WorkstationSpec => []HomeIsCoherent
<1>1. workstationInit => CoherenceInv
  <2> SUFFICES ASSUME workstationInit PROVE CoherenceInv
    OBVIOUS
  <2>1. /\ scene \in Scenes /\ home = scene.start /\ proc = [p \in Procs |-> Idle] /\ minted = 1
        /\ conn = Off
    BY DEF workstationInit, homeInit, connectorInit
  <2>2. FilesAreSound /\ DOMAIN home = Files
    BY <2>1, ScenesArePossible DEF FilesAreSound, HomeIsTyped
  <2>3. \A p \in Procs : proc[p] = Idle
    BY <2>1
  <2>4. HomeTypes
    <3>1. << >> \in Seq(HomeOps)
      OBVIOUS
    <3> QED BY <2>1, <2>2, <2>3, <3>1, IdleFields DEF HomeTypes
  <2>5. ASSUME NEW p \in Procs PROVE commandIsSound(p)
    <3>1. Idle.todo = << >> /\ Idle.status = Absent
      BY DEF Idle
    <3>2. InOrder(<< >>) /\ (\A k \in Kinds : ahead(<< >>, k)) /\ ~holds(<< >>, "pickToken")
      BY Pieces DEF Ordered, holds
    <3> QED BY <2>3, <3>1, <3>2 DEF commandIsSound, tokenInTurn, next
  <2>6. ConnectorIsSound
    <3>1. DOMAIN Off = ConnFields /\ Off.todo = << >> /\ Off.on = FALSE /\ Off.ads.instances = {}
      BY DEF Off, ConnFields, Nothing
    <3> QED BY <2>1, <3>1, ProgramsFetch DEF ConnectorIsSound, busy
  <2>7. minted \in Nat
    BY <2>1
  <2> QED BY <2>1, <2>2, <2>4, <2>5, <2>6, <2>7 DEF CoherenceInv
<1> QED BY <1>1, CoherenceStep, SoundIsCoherent, PTL DEF WorkstationSpec
====
