---- MODULE Cloud ----
(***************************************************************************)
(* The cloud control plane: accounts, connector installations with their   *)
(* worker, and claimed runtimes.  The three share the requests and their   *)
(* authentication; a scenario names the operations that meet.              *)
(***************************************************************************)
EXTENDS CloudInstallations, CloudRuntime

vars == <<accessVars, instVars, runtimeVars>>

Init == accessInit /\ instInit /\ runtimeInit

Next ==
    \/ \E c \in Callers :
         \/ authStep(c) /\ UNCHANGED <<instVars, runtimeVars>>
         \/ accessStep(c) /\ UNCHANGED <<instVars, runtimeVars>>
         \/ handlerStep(c) /\ UNCHANGED runtimeVars
         \/ runtimeStep(c) /\ UNCHANGED instVars
    \/ workerStep /\ UNCHANGED runtimeVars
    \/ \E i \in Instances : advertise(i) /\ UNCHANGED instVars

Spec == Init /\ [][Next]_vars

====
