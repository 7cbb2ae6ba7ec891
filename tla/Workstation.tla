---- MODULE Workstation ----
(***************************************************************************)
(* One workstation: the files under CODENCER_HOME and the commands on      *)
(* them, the user services started from those files, the connector         *)
(* process, and the editor's language servers that attempts run on.  A     *)
(* scenario names the commands that meet.                                  *)
(***************************************************************************)
EXTENDS Services, ConnectorProcess, AgentBroker

workstationVars == <<homeVars, serviceVars, connVars, agentVars>>

workstationInit == homeInit /\ serviceInit /\ connectorInit /\ agentInit(scene.agents)

workstationStep ==
    \/ \E p \in Procs :
         \/ homeStep(p) /\ UNCHANGED <<serviceVars, connVars, agentVars>>
         \/ beginService(p) /\ UNCHANGED <<connVars, agentVars>>
         \/ serviceStep(p) /\ UNCHANGED <<connVars, agentVars>>
    \/ loseRepo /\ UNCHANGED <<serviceVars, connVars, agentVars>>
    \/ \E s \in ServiceNames : (serviceExits(s) \/ managerRestarts(s)) /\ UNCHANGED <<connVars, agentVars>>
    \/ connectorStep /\ UNCHANGED <<serviceVars, agentVars>>
    \/ agentStep /\ UNCHANGED <<homeVars, serviceVars, connVars>>

WorkstationSpec == workstationInit /\ [][workstationStep]_workstationVars
====
