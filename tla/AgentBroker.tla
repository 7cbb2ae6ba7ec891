---- MODULE AgentBroker ----
(***************************************************************************)
(* Attempts run by an Antigravity language server: which server a repo is  *)
(* bound to, the adapter that talks to it directly, and the host-side      *)
(* broker with the adapter that goes through it.  Every call to a server   *)
(* can fail; servers go away; the operator rebinds while attempts run; the *)
(* broker forgets its tasks when it restarts.                              *)
(*                                                                         *)
(* The server itself is external.  A request of its cascade is one of      *)
(* three kinds: a read inside the attempt's workspace, a read outside it,  *)
(* anything else.                                                          *)
(***************************************************************************)
EXTENDS Naturals, FiniteSets

CONSTANTS
    Attempts,       \* attempts of the daemon's run service
    Agents,         \* language servers, by process id
    NoOne           \* no server

VARIABLES
    agentMode,      \* "direct", "broker", or "off"
    agents,         \* servers that answer
    binding,        \* the server this repo is bound to
    cascades,       \* the servers' side of each attempt
    attempt,        \* the adapter's side of each attempt
    tasks,          \* the broker's memory
    refused         \* history: attempts that met a request to refuse

agentVars == <<agentMode, agents, binding, cascades, attempt, tasks, refused>>

NoCascade == [on |-> NoOne, status |-> "none", asks |-> "nothing", steps |-> FALSE]
NoTask == [state |-> "none", inst |-> NoOne]
Fresh == [pc |-> "new", inst |-> NoOne, blocked |-> FALSE, approved |-> FALSE, result |-> "none"]

to(a, pc) == attempt' = [attempt EXCEPT ![a].pc = pc]

\* The run service records how the attempt ended.
ends(a, result) == attempt' = [attempt EXCEPT ![a] = [Fresh EXCEPT !.pc = "done", !.result = result]]

\* Client.Call reaches a server that answers and knows the cascade.
reaches(inst, a) == inst \in agents /\ cascades[a].on = inst

------------------------------------------------------------------------------
\* Binding.

\* Discovery reads the servers' own files and probes each one.
GetInstances == agents

\* POST /binding: the broker looks the process id up.
brokerBinds(i) == agentMode = "broker" => i \in GetInstances

\* Directly, any process id is stored.
Bind ==
    /\ \E i \in Agents : i # binding /\ brokerBinds(i) /\ binding' = i
    /\ UNCHANGED <<agentMode, agents, cascades, attempt, tasks, refused>>

Unbind ==
    /\ binding # NoOne /\ binding' = NoOne
    /\ UNCHANGED <<agentMode, agents, cascades, attempt, tasks, refused>>

------------------------------------------------------------------------------
\* The direct adapter.

\* Adapter.Start reads the binding once and keeps that server for the attempt.
GetBinding(a) ==
    /\ agentMode = "direct" /\ attempt[a].pc = "new"
    /\ IF binding = NoOne THEN ends(a, "failed_adapter")
       ELSE attempt' = [attempt EXCEPT ![a] = [@ EXCEPT !.pc = "starting", !.inst = binding]]
    /\ UNCHANGED <<agentMode, agents, binding, cascades, tasks, refused>>

StartCascade(a) ==
    /\ attempt[a].pc = "starting"
    /\ \/ /\ attempt[a].inst \in agents
          /\ cascades' = [cascades EXCEPT ![a] = [NoCascade EXCEPT !.on = attempt[a].inst, !.status = "idle"]]
          /\ to(a, "sending")
       \/ ends(a, "failed_adapter") /\ UNCHANGED cascades
    /\ UNCHANGED <<agentMode, agents, binding, tasks, refused>>

SendUserCascadeMessage(a) ==
    /\ attempt[a].pc = "sending"
    /\ \/ /\ reaches(attempt[a].inst, a)
          /\ cascades' = [cascades EXCEPT ![a].status = "running"]
          /\ to(a, "polling")
       \/ ends(a, "failed_adapter") /\ UNCHANGED cascades
    /\ UNCHANGED <<agentMode, agents, binding, tasks, refused>>

\* Poll: a final status ends the polling, running and idle look at the steps.
Poll(a) ==
    /\ agentMode = "direct" /\ attempt[a].pc = "polling"
    /\ \/ /\ reaches(attempt[a].inst, a)
          /\ to(a, CASE cascades[a].status = "running" -> "inspecting"
                     [] cascades[a].status = "idle" -> "inspectingIdle"
                     [] OTHER -> "collecting")
       \/ ends(a, "failed_adapter")
    /\ UNCHANGED <<agentMode, agents, binding, cascades, tasks, refused>>

readOnlyApprovalForStep(asks) == asks = "readInside"

\* A request that cannot be approved ends the attempt for a human; one that
\* can is approved once.  An idle cascade that has steps counts as finished.
inspectAndApprovePendingInteractions(a) ==
    LET c == cascades[a] IN
    /\ attempt[a].pc \in {"inspecting", "inspectingIdle"}
    /\ \/ /\ reaches(attempt[a].inst, a)
          /\ IF c.asks # "nothing" /\ ~readOnlyApprovalForStep(c.asks)
             THEN /\ attempt' = [attempt EXCEPT ![a] = [@ EXCEPT !.pc = "collecting", !.blocked = TRUE]]
                  /\ refused' = refused \cup {a}
             ELSE /\ to(a, IF c.asks # "nothing" /\ ~attempt[a].approved
                           THEN IF attempt[a].pc = "inspecting" THEN "approving" ELSE "approvingIdle"
                           ELSE IF attempt[a].pc = "inspecting" \/ ~c.steps THEN "polling" ELSE "collecting")
                  /\ UNCHANGED refused
       \/ ends(a, "failed_adapter") /\ UNCHANGED refused
    /\ UNCHANGED <<agentMode, agents, binding, cascades, tasks>>

HandleCascadeUserInteraction(a) ==
    /\ attempt[a].pc \in {"approving", "approvingIdle"}
    /\ \/ /\ reaches(attempt[a].inst, a)
          /\ cascades' = [cascades EXCEPT ![a].asks = "nothing", ![a].status = "running"]
          /\ attempt' = [attempt EXCEPT ![a] =
                [@ EXCEPT !.approved = TRUE, !.pc = IF attempt[a].pc = "approving" THEN "polling" ELSE "collecting"]]
       \/ ends(a, "failed_adapter") /\ UNCHANGED cascades
    /\ UNCHANGED <<agentMode, agents, binding, tasks, refused>>

\* The trajectory is fetched and saved; without it the bridge has failed.
CollectArtifacts(a) ==
    /\ agentMode = "direct" /\ attempt[a].pc = "collecting"
    /\ \/ reaches(attempt[a].inst, a) /\ to(a, "normalizing")
       \/ ends(a, "failed_bridge")
    /\ UNCHANGED <<agentMode, agents, binding, cascades, tasks, refused>>

\* Mutant: a final status is looked at first.
resultOfMutant(blocked, status) ==
    CASE status = "completed" -> "completed"
      [] status = "failed" -> "failed_terminal"
      [] status = "aborted" -> "cancelled"
      [] OTHER -> IF blocked THEN "needs_manual_attention" ELSE "completed"

\* A blocked interaction decides the result before the status does.
resultOf(blocked, status) ==
    CASE blocked -> "needs_manual_attention"
      [] ~blocked /\ status = "failed" -> "failed_terminal"
      [] ~blocked /\ status = "aborted" -> "cancelled"
      [] OTHER -> "completed"

NormalizeResult(a) ==
    /\ agentMode = "direct" /\ attempt[a].pc = "normalizing"
    /\ \/ reaches(attempt[a].inst, a) /\ ends(a, resultOf(attempt[a].blocked, cascades[a].status))
       \/ ends(a, "failed_bridge")
    /\ UNCHANGED <<agentMode, agents, binding, cascades, tasks, refused>>

\* Cancel asks the pinned server; the attempt goes on being polled.
Cancel(a) ==
    /\ agentMode = "direct" /\ attempt[a].pc = "polling"
    /\ reaches(attempt[a].inst, a) /\ cascades[a].status \in {"running", "idle"}
    /\ cascades' = [cascades EXCEPT ![a].status = "aborted", ![a].asks = "nothing"]
    /\ UNCHANGED <<agentMode, agents, binding, attempt, tasks, refused>>

------------------------------------------------------------------------------
\* The broker and its adapter.

\* POST /tasks: the bound server starts the cascade and the task is kept; the
\* answer may be lost on its way back.
postTask(a) ==
    /\ agentMode = "broker" /\ attempt[a].pc = "new"
    /\ \/ /\ binding # NoOne /\ binding \in agents
          /\ cascades' = [cascades EXCEPT ![a] = [NoCascade EXCEPT !.on = binding, !.status = "running"]]
          /\ tasks' = [tasks EXCEPT ![a] = [state |-> "running", inst |-> binding]]
          /\ attempt' = [attempt EXCEPT ![a] = [@ EXCEPT !.pc = "polling", !.inst = binding]] \/ ends(a, "failed_adapter")
       \/ ends(a, "failed_adapter") /\ UNCHANGED <<cascades, tasks>>
    /\ UNCHANGED <<agentMode, agents, binding, refused>>

\* Every request to /tasks/<id> asks the task's server for the status first.
taskState(a) ==
    IF ~reaches(tasks[a].inst, a) THEN "error"
    ELSE IF cascades[a].status \in {"running", "idle"} THEN "running" ELSE cascades[a].status

\* An answer from the broker; a call of the broker's that fails shows as error.
getTask(a, found(_)) ==
    \/ /\ tasks[a] # NoTask
       /\ \E state \in {taskState(a), "error"} :
            tasks' = [tasks EXCEPT ![a].state = state] /\ found(state)
    \/ ends(a, IF attempt[a].pc = "polling" THEN "failed_adapter" ELSE "failed_bridge") /\ UNCHANGED tasks

brokerPoll(a) ==
    /\ agentMode = "broker" /\ attempt[a].pc = "polling"
    /\ getTask(a, LAMBDA state : to(a, IF state = "running" THEN "polling" ELSE "collecting"))
    /\ UNCHANGED <<agentMode, agents, binding, cascades, refused>>

\* GET /tasks/<id>/result: what comes back is saved, an error body too.
brokerCollect(a) ==
    /\ agentMode = "broker" /\ attempt[a].pc = "collecting"
    /\ getTask(a, LAMBDA state : to(a, "normalizing"))
    /\ UNCHANGED <<agentMode, agents, binding, cascades, refused>>

\* The state is asked once more; whatever is not a failure is a success.
brokerResult(state) ==
    CASE state = "failed" -> "failed_terminal"
      [] state = "aborted" -> "cancelled"
      [] state = "error" -> "failed_adapter"
      [] OTHER -> "completed"

brokerNormalize(a) ==
    /\ agentMode = "broker" /\ attempt[a].pc = "normalizing"
    /\ getTask(a, LAMBDA state : ends(a, brokerResult(state)))
    /\ UNCHANGED <<agentMode, agents, binding, cascades, refused>>

\* DELETE /tasks/<id> is answered like any other method: nothing is stopped.
brokerCancel(a) ==
    /\ agentMode = "broker" /\ attempt[a].pc = "polling" /\ tasks[a] # NoTask
    /\ tasks' = [tasks EXCEPT ![a].state = taskState(a)]
    /\ UNCHANGED <<agentMode, agents, binding, cascades, attempt, refused>>

\* The binding is on disk, the tasks are not.
brokerRestarts ==
    /\ agentMode = "broker" /\ \E a \in Attempts : tasks[a] # NoTask
    /\ tasks' = [a \in Attempts |-> NoTask]
    /\ UNCHANGED <<agentMode, agents, binding, cascades, attempt, refused>>

------------------------------------------------------------------------------
\* The language server and its user.

serverWorks(a) ==
    LET c == cascades[a] IN
    /\ c.on \in agents /\ c.status = "running" /\ c.asks = "nothing"
    /\ \/ \E s \in {"idle", "completed", "failed"} : cascades' = [cascades EXCEPT ![a] = [c EXCEPT !.status = s, !.steps = TRUE]]
       \/ \E k \in {"readInside", "readOutside", "other"}, s \in {"running", "idle"} :
            cascades' = [cascades EXCEPT ![a] = [c EXCEPT !.asks = k, !.status = s, !.steps = TRUE]]
    /\ UNCHANGED <<agentMode, agents, binding, attempt, tasks, refused>>

\* The user answers in the editor.
userAnswers(a) ==
    /\ cascades[a].on \in agents /\ cascades[a].asks # "nothing"
    /\ cascades' = [cascades EXCEPT ![a].asks = "nothing", ![a].status = "running"]
    /\ UNCHANGED <<agentMode, agents, binding, attempt, tasks, refused>>

serverExits ==
    /\ \E i \in agents : agents' = agents \ {i}
    /\ UNCHANGED <<agentMode, binding, cascades, attempt, tasks, refused>>

agentStep ==
    /\ agentMode # "off"
    /\ \/ Bind \/ Unbind \/ brokerRestarts \/ serverExits
       \/ \E a \in Attempts :
            \/ GetBinding(a) \/ StartCascade(a) \/ SendUserCascadeMessage(a) \/ Poll(a)
            \/ inspectAndApprovePendingInteractions(a) \/ HandleCascadeUserInteraction(a)
            \/ CollectArtifacts(a) \/ NormalizeResult(a) \/ Cancel(a)
            \/ postTask(a) \/ brokerPoll(a) \/ brokerCollect(a) \/ brokerNormalize(a) \/ brokerCancel(a)
            \/ serverWorks(a) \/ userAnswers(a)

agentInit(mode) ==
    /\ agentMode = mode
    /\ agents = Agents
    /\ binding = NoOne
    /\ cascades = [a \in Attempts |-> NoCascade]
    /\ attempt = [a \in Attempts |-> Fresh]
    /\ tasks = [a \in Attempts |-> NoTask]
    /\ refused = {}

------------------------------------------------------------------------------
\* Properties.

\* An attempt that met a request no rule approves ends for a human to look
\* at or as a failure, even if the user answers and the cascade completes
\* before the result is read.
BlockedIsSurfaced ==
    \A a \in refused :
        attempt[a].result \in {"none", "needs_manual_attention", "failed_adapter", "failed_bridge"}
====
