---------------------------- MODULE MCLockRecovery ---------------------------
(* LockRecovery with all steps in one run, as a manifest submits them.     *)
EXTENDS LockRecovery

oneRun == [s \in Steps |-> CHOOSE r \in Runs : TRUE]

\* domain.DefaultPolicy
DefaultPolicy == [fail |-> TRUE, retry |-> TRUE, gate |-> TRUE]
=============================================================================
