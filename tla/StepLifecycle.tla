--------------------------- MODULE StepLifecycle ---------------------------
(***************************************************************************)
(* The pure part of the daemon's run lifecycle: the states of steps and    *)
(* runs (internal/domain), how a run's state follows from its steps'       *)
(* (internal/service/state_reconcile.go), the policy evaluation            *)
(* (policy_service.go), the retry and finalization decisions of            *)
(* run_service.go and the salvage decision of recovery_service.go.         *)
(* Results and states are the strings the program stores.                  *)
(***************************************************************************)

LOCAL INSTANCE Naturals

ActiveStates == {"pending", "dispatching", "running", "collecting_artifacts",
                 "validating"}

SuccessStates == {"completed", "completed_with_warnings"}

FailureStates == {"failed_terminal", "failed_validation", "failed_adapter",
                  "failed_bridge", "failed_retryable", "timeout"}

StepStates == ActiveStates \cup SuccessStates \cup FailureStates
                \cup {"needs_approval", "needs_manual_attention", "cancelled"}

\* StepState.IsTerminal: needs_approval and needs_manual_attention are not.
StepTerminal(s) == s \in SuccessStates \cup FailureStates \cup {"cancelled"}

RunStates == {"created", "running", "paused_for_gate", "completed", "failed",
              "cancelled"}

RunTerminal(r) == r \in {"completed", "failed", "cancelled"}

\* The run state derived from the set S of the states of the run's steps.
deriveRunState(S) ==
  IF S = {} THEN "running"
  ELSE IF "needs_approval" \in S THEN "paused_for_gate"
  ELSE IF S \cap ActiveStates # {} THEN "running"
  ELSE IF ~ S \subseteq SuccessStates \cup {"cancelled"} THEN "failed"
  ELSE IF S \subseteq SuccessStates THEN "completed"
  ELSE "cancelled"

-----------------------------------------------------------------------------
\* A policy, reduced to the switches the run service reads: fail on a terminal
\* failure, retry a failed process, and gate on what the attempt changed.
Policies == [fail: BOOLEAN, retry: BOOLEAN, gate: BOOLEAN]

\* The verdict on an attempt.  `hit' says that the changed files or the
\* questions of the result match one of the policy's gate rules.
Evaluate(policy, result, hit) ==
  {v \in {"fail", "gate"} :
     \/ v = "fail" /\ policy.fail /\ result = "failed_terminal"
     \/ v = "gate" /\ policy.gate /\ hit}

\* Mutant: one attempt too many.
shouldRetryAtMax(policy, result, num, max) ==
  /\ result \in {"failed_retryable", "failed_terminal"}
  /\ policy.retry
  /\ num <= max

shouldRetry(policy, result, num, max) ==
  /\ result \in {"failed_retryable", "failed_terminal"}
  /\ policy.retry
  /\ num < max

\* Mutant: an abort without a result falls through to success.
finalStepStateAbortLast(aborted, result, eval) ==
  IF aborted /\ result # "none" THEN result
  ELSE IF result = "needs_manual_attention" THEN result
  ELSE IF "gate" \in eval THEN "needs_approval"
  ELSE IF "fail" \in eval THEN "failed_validation"
  ELSE IF result \in SuccessStates THEN result
  ELSE IF result = "none" THEN "completed"
  ELSE IF result \in FailureStates \ {"failed_retryable"} THEN result
  ELSE "failed_adapter"

\* The state finalizeStep gives the step; "none" stands for the nil result.
finalStepState(aborted, result, eval) ==
  IF aborted
    THEN IF result = "none" THEN "cancelled" ELSE result
  ELSE IF result = "needs_manual_attention" THEN result
  ELSE IF "gate" \in eval THEN "needs_approval"
  ELSE IF "fail" \in eval THEN "failed_validation"
  ELSE IF result = "none" THEN "completed"
  ELSE IF result \in SuccessStates THEN result
  ELSE IF result \in FailureStates \ {"failed_retryable"} THEN result
  ELSE "failed_adapter"

\* What reconcileRunSteps makes of a step without a pending gate whose latest
\* attempt stores `row' and left the evidence file `evidence' on disk.
salvagedState(row, evidence) ==
  IF StepTerminal(row) \/ row = "needs_approval" THEN row
  ELSE IF StepTerminal(evidence) \/ evidence = "needs_approval" THEN evidence
  ELSE "needs_manual_attention"
=============================================================================
