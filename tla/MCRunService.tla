---------------------------- MODULE MCRunService ----------------------------
(* Instances of RunService: all steps in one run, or one step per run.     *)
EXTENDS RunService, TLC

oneRun == [s \in Steps |-> CHOOSE r \in Runs : TRUE]

runEach == CHOOSE f \in [Steps -> Runs] :
             \A s, t \in Steps : f[s] = f[t] => s = t

\* domain.DefaultPolicy
DefaultPolicy == [fail |-> TRUE, retry |-> TRUE, gate |-> TRUE]

Interchangeable == Permutations(Dispatches) \cup Permutations(Clients)
=============================================================================
