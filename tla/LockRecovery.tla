---------------------------- MODULE LockRecovery ----------------------------
(***************************************************************************)
(* The daemon beside the operator's `recover locks': recoverLocks of       *)
(* internal/supervisor/recovery.go, a process of its own that reads the    *)
(* daemon's lock file, asks the daemon for the owner's run over HTTP and   *)
(* removes the file when that run is terminal.                             *)
(***************************************************************************)
EXTENDS RunService

VARIABLE supervisor   \* one invocation: its step and the owner it has read

supervisorVars == <<vars, supervisor>>

SupervisorInit == Init /\ supervisor = [pc |-> "idle", owner |-> None]

\* Without a lock file, or with an empty one, nothing is done.
readOwner ==
  /\ supervisor.pc = "idle" /\ lock \in Runs
  /\ supervisor' = [pc |-> "verify", owner |-> lock]
  /\ UNCHANGED vars

verifyOwner ==
  /\ supervisor.pc = "verify" /\ up
  /\ supervisor' = [supervisor EXCEPT !.pc =
       IF RunTerminal(runState[supervisor.owner]) THEN "remove" ELSE "done"]
  /\ UNCHANGED vars

removeLock ==
  /\ supervisor.pc = "remove"
  /\ lock' = None
  /\ supervisor' = [supervisor EXCEPT !.pc = "done"]
  /\ UNCHANGED <<rows, memory, worker, client>>

SupervisorNext ==
  \/ Next /\ UNCHANGED supervisor
  \/ readOwner
  \/ verifyOwner
  \/ removeLock

SupervisorSpec == SupervisorInit /\ [][SupervisorNext]_supervisorVars

\* recoverLocks takes away only a stale lock, one that no running attempt holds.
RemovesOnlyStaleLocks ==
  [][removeLock => \A d \in Dispatches : ~ holding(d)]_supervisorVars
=============================================================================
