-------------------------- MODULE RunServiceProofs --------------------------
(***************************************************************************)
(* Theorems about RunService for any number of runs, steps, dispatches,    *)
(* requests, attempts and crashes.  WorkspaceExclusive is not inductive:   *)
(* it needs that a goroutine inside has a step (so that the lock names a   *)
(* run and is not free) and that nobody is inside while the daemon is down *)
(* (so that the sweep may remove the lock).  TypeOK needs in addition what *)
(* the goroutines and handlers hold when they write a row.                 *)
(*                                                                         *)
(* The theorems on completions, gates, run states and aborts hold for      *)
(* callers and operations that their hypotheses describe; what these       *)
(* exclude does break the property.  They rest on each run having one      *)
(* goroutine at work, and on what that goroutine and the handlers of the   *)
(* run have still to write.                                                *)
(***************************************************************************)
EXTENDS RunService, TLAPS

\* What a goroutine has in its variables at each point.
wellFormedWorker(w) ==
  /\ w.pc # "unused" => w.step \in Steps
  /\ w.pc \in {"validate", "validating"} => w.res # "none"
  /\ w.pc = "reconciling" => w.seen # None

WorkerOK == \A d \in Dispatches : wellFormedWorker(worker[d])

\* What a request handler has in its variables at each point.
wellFormedClient(h) ==
  /\ h.pc \in {"resolving", "resolved"} => h.verdict # "none" /\ h.gate # None
  /\ h.pc = "reconciling" => h.seen # None

ClientOK == \A c \in Clients : wellFormedClient(client[c])

\* A policy gate that exists, or is being resolved, belongs to a dispatch that
\* has a step.
GateOK ==
  /\ \A d \in Dispatches : gate[d] # "absent" => worker[d].step \in Steps
  /\ \A c \in Clients :
       client[c].pc = "resolving" /\ client[c].gate \in Dispatches =>
         worker[client[c].gate].step \in Steps

\* Between a crash and the next sweep no goroutine runs.
DownOK == ~ up => \A d \in Dispatches : ~ inFlight(d)

\* The inductive invariant.
IInv == TypeOK /\ WorkerOK /\ ClientOK /\ GateOK /\ DownOK
          /\ WorkspaceExclusive /\ LockReleased

\* deriveRunState always yields a state that a run row may hold.
LEMMA DeriveType == \A S : deriveRunState(S) \in RunStates
BY DEF deriveRunState, RunStates

\* finalizeStep always gives the step a step state, whatever the attempts left.
LEMMA FinalType ==
  ASSUME NEW aborted, NEW result \in StepStates \cup {"none"}, NEW eval
  PROVE  finalStepState(aborted, result, eval) \in StepStates
BY DEF finalStepState, StepStates, SuccessStates, FailureStates

\* An attempt that ends with a result keeps the goroutine well formed.
LEMMA ResultWorker ==
  ASSUME worker \in [Dispatches -> Goroutines], NEW d \in Dispatches,
         wellFormedWorker(worker[d]), worker[d].pc # "unused",
         NEW r \in StepStates, NEW b,
         NEW p \in WorkerPC \ {"unused", "reconciling"},
         setResult(d, r, b, p)
  PROVE  /\ worker' = [worker EXCEPT ![d] = worker'[d]]
         /\ worker'[d] \in Goroutines
         /\ wellFormedWorker(worker'[d])
         /\ worker'[d].pc = p
         /\ worker'[d].step = worker[d].step
<1>1. "none" \notin StepStates
  BY DEF StepStates, ActiveStates, SuccessStates, FailureStates
<1> QED
BY <1>1 DEF setResult, wellFormedWorker, Goroutines

\* A step of a goroutine changes its own record only, keeps its step and leaves
\* it well formed.
LEMMA GoroutineStep ==
  ASSUME TypeOK, WorkerOK, NEW d \in Dispatches, workerStep(d)
  PROVE  /\ inFlight(d)
         /\ worker' = [worker EXCEPT ![d] = worker'[d]]
         /\ worker'[d] \in Goroutines
         /\ wellFormedWorker(worker'[d])
         /\ worker'[d].step = worker[d].step
<1>0. /\ worker \in [Dispatches -> Goroutines]
      /\ wellFormedWorker(worker[d])
  BY DEF TypeOK, WorkerOK
<1> USE <1>0
<1>1. CASE registerExecution(d)
  BY <1>1 DEF registerExecution, inFlight, wellFormedWorker, Goroutines,
       WorkerPC
<1>2. CASE finalizeEarlyAbort(d)
  BY <1>2 DEF finalizeEarlyAbort, inFlight, wellFormedWorker, Goroutines,
       WorkerPC
<1>3. CASE noViableAdapter(d)
  BY <1>3 DEF noViableAdapter, inFlight, wellFormedWorker, Goroutines,
       WorkerPC
<1>4. CASE beginAttempts(d)
  BY <1>4 DEF beginAttempts, inFlight, wellFormedWorker, Goroutines, WorkerPC
<1>5. CASE createAttempt(d)
  BY <1>5 DEF createAttempt, inFlight, wellFormedWorker, Goroutines, WorkerPC
<1>6. CASE artifactRootFails(d)
  BY <1>6, ResultWorker, RunServiceConstants DEF artifactRootFails,
       inFlight, StepStates, WorkerPC, FailureStates
<1>7. CASE lockConflict(d)
  BY <1>7, ResultWorker, RunServiceConstants DEF lockConflict, inFlight,
       StepStates, WorkerPC, FailureStates
<1>8. CASE openLock(d)
  BY <1>8 DEF openLock, inFlight, wellFormedWorker, Goroutines, WorkerPC
<1>9. CASE writeOwner(d)
  BY <1>9 DEF writeOwner, inFlight, wellFormedWorker, Goroutines, WorkerPC
<1>10. CASE environmentFails(d)
  BY <1>10, ResultWorker, RunServiceConstants DEF environmentFails,
       inFlight, StepStates, WorkerPC, FailureStates
<1>11. CASE adapterStart(d)
  BY <1>11 DEF adapterStart, inFlight, wellFormedWorker, Goroutines, WorkerPC
<1>12. CASE pollStops(d)
  BY <1>12, ResultWorker, RunServiceConstants DEF pollStops, inFlight,
       StepStates, WorkerPC, FailureStates
<1>13. CASE pollFinishes(d)
  BY <1>13 DEF pollFinishes, inFlight, wellFormedWorker, Goroutines, WorkerPC
<1>14. CASE collectFails(d)
  BY <1>14, ResultWorker, RunServiceConstants DEF collectFails, inFlight,
       StepStates, WorkerPC, FailureStates
<1>15. CASE normalizeResult(d)
  BY <1>15, ResultWorker, RunServiceConstants DEF normalizeResult,
       inFlight, StepStates, WorkerPC, FailureStates
<1>16. CASE startValidations(d)
  BY <1>16 DEF startValidations, inFlight, wellFormedWorker, Goroutines,
       WorkerPC
<1>17. CASE evaluatePolicy(d)
  <2>1. PICK r \in StepStates, e \in SUBSET {"fail", "gate"} :
          worker' = [worker EXCEPT ![d] =
                       [@ EXCEPT !.res = r, !.pc = "release", !.eval = e]]
    <3>1. PICK hit \in BOOLEAN,
               r \in {worker[d].res} \cup {"failed_validation"} :
            worker' = [worker EXCEPT ![d] =
                         [@ EXCEPT !.res = r, !.pc = "release",
                                   !.eval = Evaluate(Policy, r, hit)]]
      BY <1>17 DEF evaluatePolicy
    <3>2. r \in StepStates
      BY <1>17 DEF evaluatePolicy, wellFormedWorker, Goroutines,
           StepStates, FailureStates
    <3>3. Evaluate(Policy, r, hit) \in SUBSET {"fail", "gate"}
      BY DEF Evaluate
    <3> QED BY <3>1, <3>2, <3>3
  <2>2. worker[d].pc \in {"validate", "validating"}
    BY <1>17 DEF evaluatePolicy
  <2> DEFINE w == [worker[d] EXCEPT !.res = r, !.pc = "release", !.eval = e]
  <2>3. worker' = [worker EXCEPT ![d] = w]
    BY <2>1
  <2>4. w \in Goroutines /\ w.pc = "release" /\ w.step = worker[d].step
    BY <2>1 DEF Goroutines, WorkerPC
  <2> HIDE DEF w
  <2>5. worker'[d] = w
    BY <2>3
  <2>6. inFlight(d) /\ wellFormedWorker(w)
    BY <2>2, <2>4 DEF inFlight, wellFormedWorker
  <2> QED BY <2>3, <2>4, <2>5, <2>6
<1>18. CASE releaseLock(d)
  BY <1>18 DEF releaseLock, inFlight, wellFormedWorker, Goroutines, WorkerPC
<1>19. CASE afterAttempt(d)
  <2>0. worker[d].pc = "attempted" BY <1>19 DEF afterAttempt
  <2>1. CASE worker' = [worker EXCEPT ![d].pc = "finalize"]
    BY <2>0, <2>1 DEF inFlight, wellFormedWorker, Goroutines, WorkerPC
  <2>2. CASE /\ worker[d].num < MaxAttempts
             /\ worker' = [worker EXCEPT ![d] =
                  [@ EXCEPT !.num = worker[d].num + 1, !.pc = "loop"]]
    <3>1. worker[d].num + 1 \in 1..MaxAttempts
      BY <2>2, RunServiceConstants DEF Goroutines
    <3>2. worker' = [worker EXCEPT ![d] =
                [worker[d] EXCEPT !.num = worker[d].num + 1, !.pc = "loop"]]
      BY <2>2
    <3> DEFINE w == [worker[d] EXCEPT !.num = worker[d].num + 1, !.pc = "loop"]
    <3>3. w \in Goroutines /\ w.pc = "loop" /\ w.step = worker[d].step
      BY <3>1 DEF Goroutines, WorkerPC
    <3>4. worker' = [worker EXCEPT ![d] = w]
      BY <3>2
    <3> HIDE DEF w
    <3>5. worker'[d] = w
      BY <3>4
    <3>6. inFlight(d) /\ wellFormedWorker(w)
      BY <2>0, <3>3 DEF inFlight, wellFormedWorker
    <3> QED BY <3>3, <3>4, <3>5, <3>6
  <2> QED BY <1>19, <2>1, <2>2 DEF afterAttempt, shouldRetry
<1>20. CASE finalizeStep(d)
  BY <1>20 DEF finalizeStep, inFlight, wellFormedWorker, Goroutines, WorkerPC
<1>21. CASE createGate(d)
  BY <1>21 DEF createGate, inFlight, wellFormedWorker, Goroutines, WorkerPC
<1>22. CASE parkStep(d)
  BY <1>22 DEF parkStep, inFlight, wellFormedWorker, Goroutines, WorkerPC
<1>23. CASE reconcileRead(d)
  <2>1. derivedState(RunOfDispatch(d)) \in RunStates
    BY DeriveType DEF derivedState
  <2>2. derivedState(RunOfDispatch(d)) # None
    BY <2>1, RunServiceConstants
  <2> HIDE DEF derivedState
  <2> QED
    BY <1>23, <2>1, <2>2 DEF reconcileRead, inFlight, wellFormedWorker,
         Goroutines, WorkerPC
<1>24. CASE reconcileWrite(d)
  BY <1>24 DEF reconcileWrite, inFlight, wellFormedWorker, Goroutines,
       WorkerPC
<1>25. CASE closeDone(d)
  BY <1>25 DEF closeDone, inFlight, wellFormedWorker, Goroutines, WorkerPC
<1>26. CASE clearExecution(d)
  BY <1>26 DEF clearExecution, inFlight, wellFormedWorker, Goroutines,
       WorkerPC
<1> QED
  BY <1>1, <1>2, <1>3, <1>4, <1>5, <1>6, <1>7, <1>8, <1>9, <1>10, <1>11,
       <1>12, <1>13, <1>14, <1>15, <1>16, <1>17, <1>18, <1>19, <1>20, <1>21,
       <1>22, <1>23, <1>24, <1>25, <1>26 DEF workerStep

\* The states the actions write are step states, and step states are row states.
LEMMA StateNames ==
  /\ {"dispatching", "running", "collecting_artifacts", "validating",
      "failed_bridge", "failed_retryable", "failed_adapter", "timeout",
      "failed_validation", "cancelled", "needs_approval",
      "needs_manual_attention"} \subseteq StepStates
  /\ StepStates \subseteq RowStates
  /\ {"pending", "started"} \subseteq RowStates
  /\ "none" \notin StepStates
BY DEF StepStates, ActiveStates, SuccessStates, FailureStates, RowStates

\* Storing a result keeps the attempt rows typed.
LEMMA ResultRow ==
  ASSUME TypeOK, NEW d \in Dispatches, NEW r \in StepStates, NEW b,
         NEW p, setResult(d, r, b, p)
  PROVE  attempt' \in [Dispatches -> [1..MaxAttempts -> RowStates]]
BY StateNames DEF TypeOK, setResult, Goroutines

\* The goroutines of dispatchPreparedStep preserve the types.
LEMMA WorkerTypes ==
  ASSUME TypeOK, WorkerOK, NEW d \in Dispatches, workerStep(d)
  PROVE  TypeOK'
<1>0. /\ worker' \in [Dispatches -> Goroutines]
      /\ worker[d].num \in 1..MaxAttempts
      /\ worker[d].res \in StepStates \cup {"none"}
  BY GoroutineStep DEF TypeOK, Goroutines
<1> USE <1>0, StateNames DEF TypeOK, rows, memory
<1>1. CASE registerExecution(d) \/ clearExecution(d)
  BY <1>1 DEF registerExecution, clearExecution
<1>2. CASE \/ finalizeEarlyAbort(d) \/ afterAttempt(d) \/ closeDone(d)
           \/ reconcileRead(d)
  BY <1>2 DEF finalizeEarlyAbort, afterAttempt, closeDone, reconcileRead
<1>3. CASE noViableAdapter(d) \/ beginAttempts(d) \/ parkStep(d)
  BY <1>3 DEF noViableAdapter, beginAttempts, parkStep
<1>4. CASE createAttempt(d)
  <2>1. \/ attempt' = attempt
        \/ attempt' = [attempt EXCEPT ![d][worker[d].num] = "pending"]
    BY <1>4 DEF createAttempt
  <2>2. UNCHANGED <<runState, stepState, gate, lock, memory, client>>
    BY <1>4 DEF createAttempt
  <2>3. CASE attempt' = attempt
    BY <2>2, <2>3
  <2>4. CASE attempt' = [attempt EXCEPT ![d][worker[d].num] = "pending"]
    BY <2>2, <2>4
  <2> QED
    BY <2>1, <2>3, <2>4
<1>5. CASE artifactRootFails(d)
  BY <1>5, ResultRow DEF artifactRootFails
<1>6. CASE lockConflict(d)
  BY <1>6, ResultRow DEF lockConflict
<1>7. CASE openLock(d) \/ releaseLock(d)
  BY <1>7 DEF openLock, releaseLock
<1>8. CASE writeOwner(d)
  BY <1>8, RunServiceConstants DEF writeOwner, RunOfDispatch, WorkerOK,
       wellFormedWorker
<1>9. CASE environmentFails(d)
  BY <1>9, ResultRow DEF environmentFails
<1>10. CASE adapterStart(d)
  BY <1>10 DEF adapterStart
<1>11. CASE pollStops(d)
  BY <1>11, ResultRow DEF pollStops
<1>12. CASE pollFinishes(d) \/ startValidations(d)
  BY <1>12 DEF pollFinishes, startValidations, updateStep
<1>13. CASE collectFails(d)
  BY <1>13, ResultRow DEF collectFails
<1>14. CASE normalizeResult(d)
  BY <1>14, ResultRow, RunServiceConstants DEF normalizeResult
<1>15. CASE evaluatePolicy(d)
  BY <1>15 DEF evaluatePolicy, WorkerOK, wellFormedWorker
<1>16. CASE finalizeStep(d)
  BY <1>16, FinalType DEF finalizeStep, finalizing
<1>17. CASE createGate(d)
  BY <1>17 DEF createGate
<1>18. CASE reconcileWrite(d)
  BY <1>18 DEF reconcileWrite, WorkerOK, wellFormedWorker, Goroutines
<1> QED
  BY <1>1, <1>2, <1>3, <1>4, <1>5, <1>6, <1>7, <1>8, <1>9, <1>10, <1>11,
       <1>12, <1>13, <1>14, <1>15, <1>16, <1>17, <1>18 DEF workerStep

\* What a goroutine leaves alone: the handlers, the life of the process and the
\* policy gates of the other dispatches.
LEMMA WorkerFrame ==
  ASSUME TypeOK, NEW d \in Dispatches, workerStep(d)
  PROVE  /\ client' = client /\ up' = up /\ crashes' = crashes
         /\ \A e \in Dispatches \ {d} : gate'[e] = gate[e]
BY DEF workerStep, registerExecution, finalizeEarlyAbort, noViableAdapter,
     beginAttempts, createAttempt, artifactRootFails, lockConflict, openLock,
     writeOwner, environmentFails, adapterStart, pollStops, pollFinishes,
     collectFails, normalizeResult, startValidations, evaluatePolicy,
     releaseLock, afterAttempt, finalizeStep, createGate, parkStep,
     reconcileRead, reconcileWrite, closeDone, clearExecution,
     memory, rows, TypeOK, GateIDs

\* Apart from AcquireLock and Release no step of a goroutine touches the lock
\* file or moves into or out of its critical section.
LEMMA KeepsLock ==
  ASSUME TypeOK, NEW d \in Dispatches, workerStep(d),
         ~ openLock(d), ~ writeOwner(d), ~ releaseLock(d)
  PROVE  /\ lock' = lock
         /\ holding(d)' <=> holding(d)
         /\ worker'[d].pc = "opened" <=> worker[d].pc = "opened"
<1> USE DEF TypeOK, holding, Goroutines
<1>1. CASE registerExecution(d)
  BY <1>1 DEF registerExecution
<1>2. CASE finalizeEarlyAbort(d)
  BY <1>2 DEF finalizeEarlyAbort
<1>3. CASE noViableAdapter(d)
  BY <1>3 DEF noViableAdapter
<1>4. CASE beginAttempts(d)
  BY <1>4 DEF beginAttempts
<1>5. CASE createAttempt(d)
  BY <1>5 DEF createAttempt
<1>6. CASE artifactRootFails(d)
  BY <1>6 DEF artifactRootFails, setResult
<1>7. CASE lockConflict(d)
  BY <1>7 DEF lockConflict, setResult
<1>8. CASE environmentFails(d)
  BY <1>8 DEF environmentFails, setResult
<1>9. CASE adapterStart(d)
  BY <1>9 DEF adapterStart
<1>10. CASE pollStops(d)
  BY <1>10 DEF pollStops, setResult
<1>11. CASE pollFinishes(d)
  BY <1>11 DEF pollFinishes
<1>12. CASE collectFails(d)
  BY <1>12 DEF collectFails, setResult
<1>13. CASE normalizeResult(d)
  BY <1>13 DEF normalizeResult, setResult
<1>14. CASE startValidations(d)
  BY <1>14 DEF startValidations
<1>15. CASE evaluatePolicy(d)
  BY <1>15 DEF evaluatePolicy
<1>16. CASE afterAttempt(d)
  BY <1>16 DEF afterAttempt
<1>17. CASE finalizeStep(d)
  BY <1>17 DEF finalizeStep
<1>18. CASE createGate(d)
  BY <1>18 DEF createGate
<1>19. CASE parkStep(d)
  BY <1>19 DEF parkStep
<1>20. CASE reconcileRead(d)
  BY <1>20 DEF reconcileRead
<1>21. CASE reconcileWrite(d)
  BY <1>21 DEF reconcileWrite
<1>22. CASE closeDone(d)
  BY <1>22 DEF closeDone
<1>23. CASE clearExecution(d)
  BY <1>23 DEF clearExecution
<1> QED
  BY <1>1, <1>2, <1>3, <1>4, <1>5, <1>6, <1>7, <1>8, <1>9, <1>10, <1>11,
       <1>12, <1>13, <1>14, <1>15, <1>16, <1>17, <1>18, <1>19, <1>20, <1>21,
       <1>22, <1>23 DEF workerStep

\* The goroutines preserve exclusion: the exclusive create succeeds only if no
\* other attempt is inside.
LEMMA WorkerExclusion ==
  ASSUME TypeOK, WorkerOK, WorkspaceExclusive, NEW d \in Dispatches,
         workerStep(d)
  PROVE  WorkspaceExclusive'
<1> DEFINE keeps(e) == /\ holding(e)' <=> holding(e)
                       /\ worker'[e].pc = "opened" <=> worker[e].pc = "opened"
<1>0. /\ \A e \in Dispatches : RunOfDispatch(e)' = RunOfDispatch(e) 
      /\ \A e \in Dispatches \ {d} : worker'[e] = worker[e]
      /\ RunOfDispatch(d) \in Runs
  <2>1. /\ worker \in [Dispatches -> Goroutines]
        /\ worker' = [worker EXCEPT ![d] = worker'[d]]
        /\ worker'[d].step = worker[d].step
        /\ worker[d].step \in Steps
    BY GoroutineStep DEF TypeOK, WorkerOK, wellFormedWorker, inFlight
  <2>2. \A e \in Dispatches : worker'[e].step = worker[e].step
    BY <2>1
  <2> QED
    BY <2>1, <2>2, RunServiceConstants DEF RunOfDispatch
<1>1. CASE openLock(d)
  <2>1. \A e \in Dispatches : ~ holding(e)
    <3> SUFFICES ASSUME NEW e \in Dispatches, holding(e) PROVE FALSE
      OBVIOUS
    <3>1. lock = NoOwner \/ lock = RunOfDispatch(e)
      BY DEF WorkspaceExclusive
    <3>2. RunOfDispatch(e) \in Runs
      BY RunServiceConstants DEF holding, WorkerOK, wellFormedWorker,
           RunOfDispatch
    <3> QED BY <1>1, <3>1, <3>2, RunServiceConstants DEF openLock
  <2>2. /\ \A e \in Dispatches \ {d} : ~ holding(e)'
        /\ worker'[d].pc = "opened" /\ lock' = NoOwner
    BY <1>0, <1>1, <2>1 DEF openLock, holding, TypeOK, Goroutines
  <2> QED BY <2>2 DEF WorkspaceExclusive
<1>2. CASE writeOwner(d)
  <2>1. /\ \A e \in Dispatches \ {d} : ~ holding(e)
        /\ lock = NoOwner
    BY <1>2 DEF writeOwner, WorkspaceExclusive, holding
  <2>2. /\ \A e \in Dispatches \ {d} : ~ holding(e)'
        /\ worker'[d].pc = "locked" /\ lock' = RunOfDispatch(d)
    BY <1>0, <1>2, <2>1, RunServiceConstants DEF writeOwner, holding,
         TypeOK, Goroutines
  <2> QED BY <1>0, <2>2 DEF WorkspaceExclusive
<1>3. CASE releaseLock(d)
  BY <1>0, <1>3 DEF releaseLock, WorkspaceExclusive, TypeOK, holding,
       Goroutines
<1>4. ~ openLock(d) /\ ~ writeOwner(d) /\ ~ releaseLock(d)
        => lock' = lock /\ keeps(d)
  BY KeepsLock
<1>5. CASE lock' = lock /\ keeps(d)
  BY <1>0, <1>5 DEF WorkspaceExclusive, holding
<1> QED BY <1>1, <1>2, <1>3, <1>4, <1>5

\* The goroutines leak no lock.
LEMMA WorkerRelease ==
  ASSUME TypeOK, WorkerOK, LockReleased, NEW d \in Dispatches, workerStep(d)
  PROVE  LockReleased'
<1>1. /\ worker \in [Dispatches -> Goroutines]
      /\ crashes' = crashes
      /\ worker' = [worker EXCEPT ![d] = worker'[d]]
  BY GoroutineStep, WorkerFrame DEF TypeOK
<1>2. CASE openLock(d)
  <2>1. holding(d)'
    BY <1>1, <1>2 DEF openLock, holding, Goroutines
  <2> QED BY <2>1 DEF LockReleased
<1>3. CASE writeOwner(d)
  <2>1. holding(d)'
    BY <1>1, <1>3 DEF writeOwner, holding, Goroutines
  <2> QED BY <2>1 DEF LockReleased
<1>4. CASE releaseLock(d)
  BY <1>4 DEF releaseLock, LockReleased
<1>5. CASE lock' = lock /\ (holding(d)' <=> holding(d))
  BY <1>1, <1>5 DEF LockReleased, holding
<1> QED
  BY <1>2, <1>3, <1>4, <1>5, KeepsLock

\* The goroutines preserve the inductive invariant.
LEMMA WorkerInv ==
  ASSUME IInv, NEW d \in Dispatches, workerStep(d)
  PROVE  IInv'
<1>1. TypeOK' /\ WorkspaceExclusive' /\ LockReleased'
  BY WorkerTypes, WorkerExclusion, WorkerRelease DEF IInv
<1>2. /\ worker \in [Dispatches -> Goroutines]
      /\ worker' = [worker EXCEPT ![d] = worker'[d]]
      /\ wellFormedWorker(worker'[d])
      /\ worker'[d].step = worker[d].step
      /\ inFlight(d)
      /\ worker[d].step \in Steps
  BY GoroutineStep DEF IInv, TypeOK, WorkerOK, wellFormedWorker, inFlight
<1>3. WorkerOK'
  BY <1>2 DEF IInv, WorkerOK
<1>4. client' = client /\ up' = up
  BY WorkerFrame DEF IInv
<1>5. ClientOK' /\ DownOK'
  BY <1>2, <1>4 DEF IInv, ClientOK, DownOK
<1>6. GateOK'
  <2>1. \A e \in Dispatches \ {d} : gate'[e] = gate[e]
    BY WorkerFrame DEF IInv
  <2>2. \A e \in Dispatches : worker'[e].step = worker[e].step
    BY <1>2
  <2> QED BY <1>2, <1>4, <2>1, <2>2 DEF IInv, GateOK
<1> QED BY <1>1, <1>3, <1>5, <1>6 DEF IInv

\* A step of a handler changes its own record only and leaves it well formed.
LEMMA HandlerLocal ==
  ASSUME TypeOK, ClientOK, NEW c \in Clients, handlerStep(c)
  PROVE  /\ client' = [client EXCEPT ![c] = client'[c]]
         /\ client'[c] \in Handlers
         /\ wellFormedClient(client'[c])
         /\ client'[c].pc # "resolving"
<1>0. /\ client \in [Clients -> Handlers]
      /\ wellFormedClient(client[c])
  BY DEF TypeOK, ClientOK
<1> USE <1>0 DEF wellFormedClient, Handlers, ClientPC
<1>1. CASE abortOrphans(c)
  BY <1>1 DEF abortOrphans
<1>2. CASE abortSignal(c)
  BY <1>2 DEF abortSignal
<1>3. CASE abortOutcome(c)
  <2>1. PICK p \in {"aborted", "done"} : client' = [client EXCEPT ![c].pc = p]
    BY <1>3 DEF abortOutcome
  <2> QED BY <2>1
<1>4. CASE retryDispatched(c)
  BY <1>4 DEF retryDispatched
<1>5. CASE clientReconcileRead(c)
  <2>1. derivedState(client[c].run) \in RunStates
    BY DeriveType DEF derivedState
  <2>2. derivedState(client[c].run) # None
    BY <2>1, RunServiceConstants
  <2> QED
    BY <1>5, <2>1, <2>2 DEF clientReconcileRead
<1>6. CASE clientReconcileWrite(c)
  BY <1>6 DEF clientReconcileWrite
<1>7. CASE writeVerdict(c)
  BY <1>7 DEF writeVerdict
<1>8. CASE restoreStep(c)
  BY <1>8 DEF restoreStep
<1>9. CASE recoverSteps(c)
  BY <1>9 DEF recoverSteps
<1> QED
  BY <1>1, <1>2, <1>3, <1>4, <1>5, <1>6, <1>7, <1>8, <1>9 DEF handlerStep

\* reconcileRunSteps keeps the rows typed and touches no policy gate.
LEMMA SalvageTypes ==
  ASSUME TypeOK, NEW R, NEW ss, NEW gg, salvage(R, ss, gg)
  PROVE  /\ ss \in [Steps -> StepStates \cup {"absent"}]
         /\ gg \in [GateIDs -> {"absent", "pending", "approved", "rejected"}]
         /\ \A d \in Dispatches : gg[d] = gate[d]
<1> DEFINE marks == {s \in UNION {StepsOf(r) : r \in R} : unsettled(s)}
<1>1. PICK f \in [marks -> StepStates] :
        /\ ss = [s \in Steps |-> IF s \in marks THEN f[s] ELSE stepState[s]]
        /\ gg = [g \in GateIDs |->
             IF /\ g \in marks /\ f[g] = "needs_approval"
                /\ findPendingGate(g) = {} /\ gate[g] = "absent"
             THEN "pending" ELSE gate[g]]
  BY DEF salvage
<1>2. marks \subseteq Steps
  BY DEF StepsOf
<1> HIDE DEF marks
<1>3. ss \in [Steps -> StepStates \cup {"absent"}]
  BY <1>1, <1>2 DEF TypeOK
<1>4. gg \in [GateIDs -> {"absent", "pending", "approved", "rejected"}]
  BY <1>1 DEF TypeOK
<1>5. \A d \in Dispatches : gg[d] = gate[d]
  BY <1>1, <1>2, RunServiceConstants DEF GateIDs
<1> QED
  BY <1>3, <1>4, <1>5

\* Approval restores a step state.
LEMMA RestoreType ==
  ASSUME TypeOK, NEW s, NEW v \in restoreStates(s)
  PROVE  v \in StepStates
<1>1. CASE latestAttempts(s) = {}
  BY <1>1, StateNames DEF restoreStates
<1>2. CASE latestAttempts(s) # {}
  <2>1. PICK a \in latestAttempts(s) :
          v = IF attempt[a[1]][a[2]] \in {"pending", "started"}
                THEN "needs_manual_attention" ELSE attempt[a[1]][a[2]]
    BY <1>2 DEF restoreStates
  <2>2. /\ attempt[a[1]][a[2]] \in RowStates
        /\ attempt[a[1]][a[2]] # "absent"
    BY DEF latestAttempts, TypeOK
  <2> QED BY <2>1, <2>2, StateNames DEF RowStates
<1> QED BY <1>1, <1>2

\* The handlers preserve the inductive invariant.
LEMMA HandlerInv ==
  ASSUME IInv, NEW c \in Clients, handlerStep(c)
  PROVE  IInv'
<1>1. worker' = worker /\ lock' = lock /\ up' = up /\ crashes' = crashes
  BY DEF handlerStep, abortOrphans, abortSignal, abortOutcome,
       retryDispatched, clientReconcileRead, clientReconcileWrite, writeVerdict,
       restoreStep, recoverSteps, memory
<1>2. /\ client \in [Clients -> Handlers]
      /\ client' = [client EXCEPT ![c] = client'[c]]
      /\ client'[c] \in Handlers
      /\ wellFormedClient(client'[c])
      /\ client'[c].pc # "resolving"
  BY HandlerLocal DEF IInv, TypeOK
<1>3. client' \in [Clients -> Handlers] /\ ClientOK'
  BY <1>2 DEF IInv, ClientOK
<1>4. WorkerOK' /\ DownOK' /\ WorkspaceExclusive' /\ LockReleased'
  BY <1>1 DEF IInv, LockReleased, WorkerOK, DownOK, inFlight,
       WorkspaceExclusive, holding, RunOfDispatch
<1>5. TypeOK'
  <2> USE <1>1, <1>3, StateNames DEF IInv, TypeOK, rows, memory
  <2>1. CASE abortOrphans(c)
    BY <2>1 DEF abortOrphans
  <2>2. CASE abortSignal(c)
    BY <2>2 DEF abortSignal
  <2>3. CASE abortOutcome(c) \/ retryDispatched(c) \/ clientReconcileRead(c)
    BY <2>3 DEF abortOutcome, retryDispatched, clientReconcileRead
  <2>4. CASE clientReconcileWrite(c)
    BY <2>4 DEF clientReconcileWrite, ClientOK, wellFormedClient, Handlers
  <2>5. CASE writeVerdict(c)
    BY <2>5 DEF writeVerdict, ClientOK, wellFormedClient, Handlers
  <2>6. CASE restoreStep(c)
    <3> DEFINE s == GateStep(client[c].gate)
    <3>1. PICK v \in restoreStates(s) \cup {"cancelled"} :
            stepState' = [stepState EXCEPT ![s] = v]
      BY <2>6 DEF restoreStep
    <3>2. v \in StepStates
      BY <3>1, RestoreType
    <3> QED BY <2>6, <3>1, <3>2 DEF restoreStep
  <2>7. CASE recoverSteps(c)
    BY <2>7, SalvageTypes DEF recoverSteps
  <2> QED
    BY <2>1, <2>2, <2>3, <2>4, <2>5, <2>6, <2>7 DEF handlerStep
<1>6. GateOK'
  <2>1. CASE writeVerdict(c)
    <3>1. \A d \in Dispatches :
            gate'[d] # "absent" => gate[d] # "absent" \/ d = client[c].gate
      BY <2>1 DEF writeVerdict, IInv, TypeOK, GateIDs
    <3> QED BY <1>2, <1>1, <2>1, <3>1 DEF writeVerdict, IInv, GateOK
  <2>2. CASE recoverSteps(c)
    <3>1. \A d \in Dispatches : gate'[d] = gate[d]
      BY <2>2, SalvageTypes DEF recoverSteps, IInv
    <3> QED BY <1>2, <1>1, <3>1 DEF IInv, GateOK
  <2>3. CASE gate' = gate
    BY <1>2, <1>1, <2>3 DEF IInv, GateOK
  <2>4. ~ writeVerdict(c) /\ ~ recoverSteps(c) => gate' = gate
    BY DEF handlerStep, abortOrphans, abortSignal, abortOutcome,
         retryDispatched, clientReconcileRead, clientReconcileWrite,
         restoreStep, rows
  <2> QED BY <2>1, <2>2, <2>3, <2>4
<1> QED BY <1>3, <1>4, <1>5, <1>6 DEF IInv

\* What initializeStep does to the goroutines, the step row and the lock.
LEMMA InitializeInv ==
  ASSUME IInv, up, NEW d \in Dispatches, NEW s \in Steps, initializeStep(d, s)
  PROVE  /\ worker' \in [Dispatches -> Goroutines]
         /\ stepState' \in [Steps -> StepStates \cup {"absent"}]
         /\ WorkerOK'
         /\ \A e \in Dispatches :
              worker[e].step \in Steps => worker'[e].step \in Steps
         /\ UNCHANGED <<lock, crashes>> => WorkspaceExclusive' /\ LockReleased'
<1> DEFINE w == [idleWorker EXCEPT !.pc = "register", !.step = s]
<1>0. 1 \in 1..MaxAttempts
  BY RunServiceConstants
<1>1. /\ w \in Goroutines
      /\ wellFormedWorker(w)
      /\ w.pc = "register" /\ w.step = s
  BY <1>0 DEF idleWorker, Goroutines, WorkerPC, wellFormedWorker
<1>2. /\ worker \in [Dispatches -> Goroutines]
      /\ worker' = [worker EXCEPT ![d] = w]
      /\ worker[d].pc = "unused"
  BY DEF initializeStep, IInv, TypeOK
<1> HIDE DEF w
<1>3. worker' \in [Dispatches -> Goroutines] /\ WorkerOK'
  BY <1>1, <1>2 DEF IInv, WorkerOK
<1>4. stepState' \in [Steps -> StepStates \cup {"absent"}]
  BY StateNames DEF initializeStep, IInv, TypeOK
<1>5. \A e \in Dispatches :
              worker[e].step \in Steps => worker'[e].step \in Steps
  BY <1>1, <1>2
<1>6. ASSUME UNCHANGED <<lock, crashes>>
      PROVE  WorkspaceExclusive' /\ LockReleased'
  <2>1. \A e \in Dispatches : holding(e)' => e # d /\ worker'[e] = worker[e]
    BY <1>1, <1>2 DEF holding
  <2>2. WorkspaceExclusive'
    BY <1>6, <2>1 DEF IInv, WorkspaceExclusive, holding, RunOfDispatch
  <2>3. \A e \in Dispatches : holding(e) => holding(e)'
    BY <1>1, <1>2 DEF holding
  <2>4. LockReleased'
    BY <1>6, <2>3 DEF IInv, LockReleased
  <2> QED BY <2>2, <2>4
<1> QED BY <1>3, <1>4, <1>5, <1>6

\* Dispatching a step preserves the inductive invariant.
LEMMA DispatchInv ==
  ASSUME IInv, NEW d \in Dispatches, NEW s \in Steps, DispatchStepAsync(d, s)
  PROVE  IInv'
<1>1. /\ up /\ initializeStep(d, s)
      /\ UNCHANGED <<runState, attempt, gate, lock, memory, client>>
  BY DEF DispatchStepAsync
<1>2. /\ worker' \in [Dispatches -> Goroutines]
      /\ stepState' \in [Steps -> StepStates \cup {"absent"}]
      /\ WorkerOK' /\ WorkspaceExclusive' /\ LockReleased'
      /\ \A e \in Dispatches :
              worker[e].step \in Steps => worker'[e].step \in Steps
  BY <1>1, InitializeInv DEF memory
<1>3. TypeOK'
  BY <1>1, <1>2 DEF IInv, TypeOK, memory
<1>4. ClientOK' /\ GateOK' /\ DownOK'
  BY <1>1, <1>2 DEF IInv, ClientOK, GateOK, DownOK, memory
<1> QED BY <1>2, <1>3, <1>4 DEF IInv

\* A new request preserves the inductive invariant.
LEMMA RequestInv ==
  ASSUME IInv, NEW c \in Clients, request(c)
  PROVE  IInv'
<1>0. idleClient \in Handlers
  BY DEF idleClient, Handlers, ClientPC
<1>1. ASSUME NEW h \in Handlers, wellFormedClient(h),
             client' = [client EXCEPT ![c] = h],
             h.pc # "resolving" \/ GateStep(h.gate) \in Steps,
             runState' \in [Runs -> RunStates \cup {"absent"}],
             UNCHANGED <<stepState, attempt, gate, lock, memory, worker>>
      PROVE  IInv'
  <2>1. client \in [Clients -> Handlers]
    BY DEF IInv, TypeOK
  <2>2. client' \in [Clients -> Handlers] /\ ClientOK'
    BY <1>1, <2>1 DEF IInv, ClientOK
  <2>3. TypeOK'
    BY <1>1, <2>2 DEF IInv, TypeOK, memory
  <2>4. GateOK'
    BY <1>1, <2>1, RunServiceConstants DEF IInv, GateOK, GateStep
  <2>5. WorkerOK' /\ DownOK' /\ WorkspaceExclusive' /\ LockReleased'
    BY <1>1 DEF IInv, LockReleased, WorkerOK, DownOK, inFlight,
         WorkspaceExclusive, holding, RunOfDispatch, memory
  <2> QED BY <2>2, <2>3, <2>4, <2>5 DEF IInv
<1>2. ASSUME NEW r \in Runs, AbortRun(c, r) PROVE IInv'
  <2> DEFINE marks == {s \in StepsOf(r) : /\ ~ StepTerminal(stepState[s])
                                          /\ stepState[s] # "needs_approval"}
             h == IF execution[r] # None
                    THEN [idleClient EXCEPT !.pc = "signal", !.run = r,
                                            !.disp = execution[r]]
                    ELSE [idleClient EXCEPT !.pc = "orphans", !.run = r,
                                            !.marks = marks]
  <2>1. marks \in SUBSET Steps
    BY DEF StepsOf
  <2> HIDE DEF marks
  <2>2. /\ h \in Handlers /\ wellFormedClient(h) /\ h.pc # "resolving"
    BY <2>1 DEF IInv, TypeOK, idleClient, Handlers, ClientPC, wellFormedClient
  <2>3. /\ client' = [client EXCEPT ![c] = h]
        /\ UNCHANGED <<rows, lock, memory, worker>>
    BY <1>2 DEF AbortRun, marks
  <2> QED BY <1>1, <2>2, <2>3 DEF rows, IInv, TypeOK
<1>3. ASSUME NEW r \in Runs, RecoverRun(c, r) PROVE IInv'
  <2> DEFINE seen == derivedState(r)
             h == IF \E s \in StepsOf(r) : stepState[s] \in ActiveStates
                    THEN [idleClient EXCEPT !.pc = "salvaging", !.run = r]
                    ELSE [idleClient EXCEPT !.pc = "reconciling", !.run = r,
                                            !.seen = seen]
  <2>1. seen \in RunStates /\ seen # None
    BY DeriveType, RunServiceConstants DEF derivedState
  <2> HIDE DEF seen
  <2>2. /\ h \in Handlers /\ wellFormedClient(h) /\ h.pc # "resolving"
    BY <2>1 DEF idleClient, Handlers, ClientPC, wellFormedClient
  <2>3. /\ client' = [client EXCEPT ![c] = h]
        /\ UNCHANGED <<rows, lock, memory, worker>>
    BY <1>3 DEF RecoverRun, seen
  <2> QED BY <1>1, <2>2, <2>3 DEF rows, IInv, TypeOK
<1>4. ASSUME NEW r \in Runs, ResumeRun(c, r) PROVE IInv'
  <2>1. client[c] \in Handlers
    BY DEF IInv, TypeOK
  <2>2. /\ [client[c] EXCEPT !.pc = "done"] \in Handlers
        /\ wellFormedClient([client[c] EXCEPT !.pc = "done"])
        /\ [client[c] EXCEPT !.pc = "done"].pc # "resolving"
    BY <2>1 DEF Handlers, ClientPC, wellFormedClient
  <2>3. /\ client' = [client EXCEPT ![c] = [client[c] EXCEPT !.pc = "done"]]
        /\ runState' \in [Runs -> RunStates \cup {"absent"}]
        /\ UNCHANGED <<stepState, attempt, gate, lock, memory, worker>>
    BY <1>4 DEF ResumeRun, IInv, TypeOK, RunStates
  <2> QED BY <1>1, <2>2, <2>3
<1>5. ASSUME NEW d \in Dispatches, NEW s \in Steps, RetryStep(c, d, s)
      PROVE  IInv'
  <2> DEFINE h == [idleClient EXCEPT !.pc = "retrying", !.run = RunOf[s],
                                     !.disp = d]
  <2>1. /\ h \in Handlers /\ wellFormedClient(h) /\ h.pc # "resolving"
    BY RunServiceConstants DEF idleClient, Handlers, ClientPC,
         wellFormedClient
  <2>2. /\ up /\ initializeStep(d, s)
        /\ client' = [client EXCEPT ![c] = h]
        /\ UNCHANGED <<runState, attempt, gate, lock, memory>>
    BY <1>5 DEF RetryStep
  <2> HIDE DEF h
  <2>3. /\ worker' \in [Dispatches -> Goroutines]
        /\ stepState' \in [Steps -> StepStates \cup {"absent"}]
        /\ WorkerOK' /\ WorkspaceExclusive' /\ LockReleased'
        /\ \A e \in Dispatches :
              worker[e].step \in Steps => worker'[e].step \in Steps
    BY <2>2, InitializeInv DEF memory
  <2>4. client \in [Clients -> Handlers]
    BY DEF IInv, TypeOK
  <2>5. client' \in [Clients -> Handlers] /\ ClientOK'
    BY <2>1, <2>2, <2>4 DEF IInv, ClientOK
  <2>6. TypeOK'
    BY <2>2, <2>3, <2>5 DEF IInv, TypeOK, memory
  <2>7. GateOK'
    BY <2>1, <2>2, <2>3, <2>4 DEF IInv, GateOK
  <2>8. DownOK'
    BY <2>2 DEF DownOK, memory
  <2> QED BY <2>3, <2>5, <2>6, <2>7, <2>8 DEF IInv
<1>6. ASSUME NEW g \in GateIDs, NEW v \in {"approved", "rejected"},
             resolveGate(c, g, v)
      PROVE  IInv'
  <2> DEFINE h == [idleClient EXCEPT !.pc = "resolving",
                     !.run = RunOf[GateStep(g)], !.gate = g, !.verdict = v]
  <2>1. GateStep(g) \in Steps
    BY <1>6 DEF resolveGate, IInv, GateOK, GateStep, GateIDs
  <2>2. RunOf[GateStep(g)] \in Runs
    BY <2>1, RunServiceConstants
  <2>3. h \in Handlers /\ wellFormedClient(h) /\ h.gate = g
    BY <2>2, RunServiceConstants DEF GateIDs, idleClient, Handlers, ClientPC, wellFormedClient
  <2>4. /\ client' = [client EXCEPT ![c] = h]
        /\ UNCHANGED <<rows, lock, memory, worker>>
    BY <1>6 DEF resolveGate
  <2> HIDE DEF h
  <2> QED BY <1>1, <2>1, <2>3, <2>4 DEF rows, IInv, TypeOK
<1>7. CASE disconnect(c)
  <2> DEFINE h == [idleClient EXCEPT !.pc = "done"]
  <2>1. /\ h \in Handlers /\ wellFormedClient(h) /\ h.pc # "resolving"
    BY DEF idleClient, Handlers, ClientPC, wellFormedClient
  <2>2. /\ client' = [client EXCEPT ![c] = h]
        /\ UNCHANGED <<rows, lock, memory, worker>>
    BY <1>7 DEF disconnect
  <2> QED BY <1>1, <2>1, <2>2 DEF rows, IInv, TypeOK
<1> QED
  BY <1>2, <1>3, <1>4, <1>5, <1>6, <1>7 DEF request

\* The invariant holds initially.
LEMMA InitInv == Init => IInv
<1> SUFFICES ASSUME Init PROVE IInv
  OBVIOUS
<1>0. 1 \in 1..MaxAttempts /\ 0 \in 0..MaxCrashes
  BY RunServiceConstants
<1>1. idleWorker \in Goroutines /\ idleClient \in Handlers
  BY <1>0 DEF idleWorker, Goroutines, WorkerPC, idleClient, Handlers, ClientPC
<1>2. TypeOK
  BY <1>0, <1>1 DEF Init, TypeOK, RowStates
<1>3. /\ WorkerOK /\ ClientOK /\ GateOK /\ DownOK
      /\ WorkspaceExclusive /\ LockReleased
  BY DEF Init, LockReleased, WorkerOK, wellFormedWorker, ClientOK,
       wellFormedClient, GateOK, GateIDs, DownOK, WorkspaceExclusive, holding,
       idleWorker, idleClient
<1> QED BY <1>2, <1>3 DEF IInv

\* StartRun preserves the inductive invariant.
LEMMA StartRunInv ==
  ASSUME IInv, NEW r \in Runs, startRunCreate(r) \/ startRunActivate(r)
  PROVE  IInv'
<1>1. /\ runState' \in [Runs -> RunStates \cup {"absent"}]
      /\ starting' \subseteq Runs
      /\ UNCHANGED <<stepState, attempt, gate, lock, execution, abortReq,
                     ctxDone, up, crashes, worker, client>>
  BY DEF startRunCreate, startRunActivate, IInv, TypeOK, RunStates
<1>2. TypeOK'
  BY <1>1 DEF IInv, TypeOK
<1>3. /\ WorkerOK' /\ ClientOK' /\ GateOK' /\ DownOK'
      /\ WorkspaceExclusive' /\ LockReleased'
  BY <1>1 DEF IInv, LockReleased, WorkerOK, ClientOK, GateOK, DownOK,
       inFlight, WorkspaceExclusive, holding, RunOfDispatch
<1> QED BY <1>2, <1>3 DEF IInv

\* A crash preserves the inductive invariant: nobody is inside afterwards.
LEMMA CrashInv ==
  ASSUME IInv, Crash
  PROVE  IInv'
<1>0. /\ worker \in [Dispatches -> Goroutines]
      /\ client \in [Clients -> Handlers]
      /\ WorkerOK /\ ClientOK
  BY DEF IInv, TypeOK
<1>1. ASSUME NEW d \in Dispatches
      PROVE  /\ worker'[d] \in Goroutines
             /\ wellFormedWorker(worker'[d])
             /\ worker'[d].step = worker[d].step
             /\ worker'[d].pc \in {"unused", "done", "dead"}
  <2>1. CASE worker[d].pc \in {"unused", "done"}
    BY <1>0, <2>1 DEF Crash, WorkerOK
  <2>2. CASE worker[d].pc \notin {"unused", "done"}
    <3>1. worker'[d] = [worker[d] EXCEPT !.pc = "dead", !.seen = None]
      BY <2>2 DEF Crash
    <3>2. worker[d] \in Goroutines /\ wellFormedWorker(worker[d])
      BY <1>0 DEF WorkerOK
    <3> QED BY <2>2, <3>1, <3>2 DEF Goroutines, WorkerPC, wellFormedWorker
  <2> QED BY <2>1, <2>2
<1>2. ASSUME NEW c \in Clients
      PROVE  /\ client'[c] \in Handlers
             /\ wellFormedClient(client'[c])
             /\ client'[c].pc # "resolving"
  <2>1. CASE client[c].pc \in {"idle", "done", "aborted"}
    BY <1>0, <2>1 DEF Crash, ClientOK
  <2>2. CASE client[c].pc \notin {"idle", "done", "aborted"}
    <3>1. client'[c] = [idleClient EXCEPT !.pc = "dead"]
      BY <2>2 DEF Crash
    <3> QED BY <3>1 DEF idleClient, Handlers, ClientPC, wellFormedClient
  <2> QED BY <2>1, <2>2
<1>3. /\ worker' \in [Dispatches -> Goroutines]
      /\ client' \in [Clients -> Handlers]
  <2>1. /\ worker' = [d \in Dispatches |-> worker'[d]]
        /\ client' = [c \in Clients |-> client'[c]]
    BY DEF Crash
  <2> QED BY <1>1, <1>2, <2>1
<1>4. crashes' \in 0..MaxCrashes /\ crashes' # 0
  <2>1. /\ crashes \in 0..MaxCrashes /\ MaxCrashes \in Nat
        /\ crashes < MaxCrashes /\ crashes' = crashes + 1
    BY RunServiceConstants DEF Crash, IInv, TypeOK
  <2> QED BY <2>1
<1>5. TypeOK'
  <2>2. execution' \in [Runs -> Dispatches \cup {None}]
    BY DEF Crash
  <2> QED BY <1>3, <1>4, <2>2 DEF Crash, IInv, TypeOK, rows
<1>6. LockReleased'
  BY <1>4 DEF LockReleased
<1>7. WorkerOK' /\ ClientOK' /\ DownOK' /\ WorkspaceExclusive'
  BY <1>1, <1>2 DEF WorkerOK, ClientOK, DownOK, inFlight,
       WorkspaceExclusive, holding
<1>8. GateOK'
  BY <1>1, <1>2 DEF Crash, IInv, GateOK, rows
<1> QED BY <1>5, <1>7, <1>8, <1>6 DEF IInv

\* The sweep preserves the inductive invariant: it may remove the lock, because
\* no goroutine runs while the daemon is down.
LEMMA SweepInv ==
  ASSUME IInv, SweepStaleRuns
  PROVE  IInv'
<1>1. /\ stepState' \in [Steps -> StepStates \cup {"absent"}]
      /\ gate' \in [GateIDs -> {"absent", "pending", "approved", "rejected"}]
      /\ \A d \in Dispatches : gate'[d] = gate[d]
  BY SalvageTypes DEF SweepStaleRuns, IInv
<1>2. runState' \in [Runs -> RunStates \cup {"absent"}]
  BY DeriveType DEF SweepStaleRuns, IInv, TypeOK
<1>3. TypeOK'
  BY <1>1, <1>2 DEF SweepStaleRuns, IInv, TypeOK
<1>4. \A d \in Dispatches : ~ inFlight(d)'
  BY DEF SweepStaleRuns, IInv, DownOK, inFlight
<1>5. WorkerOK' /\ ClientOK' /\ GateOK' /\ DownOK'
  BY <1>1, <1>4 DEF SweepStaleRuns, IInv, WorkerOK, ClientOK, GateOK, DownOK
<1>6. WorkspaceExclusive'
  BY <1>4 DEF WorkspaceExclusive, holding, inFlight
<1>7. LockReleased'
  <2>1. \A d \in Dispatches : ~ holding(d)
    BY DEF SweepStaleRuns, IInv, DownOK, inFlight, holding
  <2> QED BY <2>1 DEF SweepStaleRuns, IInv, LockReleased
<1> QED BY <1>3, <1>5, <1>6, <1>7 DEF IInv

\* Every step preserves the inductive invariant.
LEMMA NextInv == IInv /\ [Next]_vars => IInv'
<1> SUFFICES ASSUME IInv, [Next]_vars PROVE IInv'
  OBVIOUS
<1>1. ASSUME NEW r \in Runs, startRunCreate(r) \/ startRunActivate(r)
      PROVE  IInv'
  BY <1>1, StartRunInv
<1>2. ASSUME NEW d \in Dispatches, NEW s \in Steps, DispatchStepAsync(d, s)
      PROVE  IInv'
  BY <1>2, DispatchInv
<1>3. ASSUME NEW d \in Dispatches, workerStep(d)
      PROVE  IInv'
  BY <1>3, WorkerInv
<1>4. ASSUME NEW c \in Clients, handlerStep(c)
      PROVE  IInv'
  BY <1>4, HandlerInv
<1>5. ASSUME NEW c \in Clients, request(c)
      PROVE  IInv'
  BY <1>5, RequestInv
<1>6. CASE Crash
  BY <1>6, CrashInv
<1>7. CASE SweepStaleRuns
  BY <1>7, SweepInv
<1>8. CASE UNCHANGED vars
  BY <1>8 DEF vars, rows, memory, IInv, TypeOK, WorkerOK, ClientOK, GateOK,
       DownOK, inFlight, WorkspaceExclusive, LockReleased, holding,
       RunOfDispatch
<1> QED
  BY <1>1, <1>2, <1>3, <1>4, <1>5, <1>6, <1>7, <1>8 DEF Next

\* The inductive invariant holds in every reachable state of the run service.
THEOREM Invariance == Spec => []IInv
BY InitInv, NextInv, PTL DEF Spec

\* Rows, lock file and memory of the daemon keep their types: in particular no
\* dispatch numbers an attempt above maxAttempts and only step states reach
\* steps.state, whatever requests and crashes come.
THEOREM TypeCorrect == Spec => []TypeOK
<1>1. IInv => TypeOK BY DEF IInv
<1> QED BY <1>1, Invariance, PTL

\* AcquireLock and the deferred Release of executeAttempt exclude the attempts
\* of all runs from each other, across crashes and sweeps.
THEOREM Exclusion == Spec => []WorkspaceExclusive
<1>1. IInv => WorkspaceExclusive BY DEF IInv
<1> QED BY <1>1, Invariance, PTL

\* Without a crash no path through executeAttempt leaks the lock file.
THEOREM Release == Spec => []LockReleased
<1>1. IInv => LockReleased
  BY DEF IInv
<1> QED BY <1>1, Invariance, PTL

-----------------------------------------------------------------------------
(* The sweep.                                                              *)

\* The salvage decision never yields an active state.
LEMMA SalvagedInactive ==
  \A row, evidence : salvagedState(row, evidence) \notin ActiveStates
BY DEF salvagedState, StepTerminal, ActiveStates, SuccessStates, FailureStates

\* reconcileRunSteps never chooses an active state for a step.
LEMMA SalvageInactive ==
  ASSUME NEW s PROVE salvageStates(s) \cap ActiveStates = {}
<1>1. {"needs_approval", "needs_manual_attention"} \cap ActiveStates = {}
  BY DEF ActiveStates
<1> QED
  BY <1>1, SalvagedInactive DEF salvageStates

\* After reconcileRunSteps no step of the runs it looked at is active.
LEMMA SalvageSettles ==
  ASSUME NEW R, NEW ss, NEW gg, salvage(R, ss, gg),
         NEW r \in R, NEW s \in StepsOf(r)
  PROVE  ss[s] \notin ActiveStates
<1> DEFINE marks == {t \in UNION {StepsOf(q) : q \in R} : unsettled(t)}
<1>1. PICK f \in [marks -> StepStates] :
        /\ \A t \in marks : f[t] \in salvageStates(t)
        /\ ss = [t \in Steps |-> IF t \in marks THEN f[t] ELSE stepState[t]]
  BY DEF salvage
<1>2. s \in Steps
  BY DEF StepsOf
<1>3. CASE s \in marks
  BY <1>1, <1>2, <1>3, SalvageInactive
<1>4. CASE s \notin marks
  <2>1. ~ unsettled(s)
    BY <1>4
  <2>2. stepState[s] \notin ActiveStates
    BY <2>1 DEF unsettled, StepTerminal, ActiveStates, SuccessStates,
         FailureStates
  <2> QED BY <1>1, <1>2, <1>4, <2>2
<1> QED BY <1>3, <1>4

\* A run with steps of which none is active is not derived to be running.
LEMMA DeriveInactive ==
  ASSUME NEW S, S # {}, S \cap ActiveStates = {}
  PROVE  deriveRunState(S) # "running"
BY DEF deriveRunState

\* Only the sweep takes the daemon from down to up.
LEMMA OnlySweepStarts ==
  ASSUME IInv, Next, ~ up, up'
  PROVE  SweepStaleRuns
<1>1. ASSUME NEW d \in Dispatches, workerStep(d) PROVE FALSE
  BY <1>1, WorkerFrame DEF IInv
<1>2. ASSUME NEW c \in Clients, handlerStep(c) PROVE FALSE
  BY <1>2 DEF handlerStep, abortOrphans, abortSignal, abortOutcome,
       retryDispatched, clientReconcileRead, clientReconcileWrite, writeVerdict,
       restoreStep, recoverSteps, memory
<1>3. ASSUME NEW c \in Clients, request(c) PROVE FALSE
  BY <1>3 DEF request, AbortRun, RecoverRun, ResumeRun, RetryStep,
       resolveGate, disconnect, memory
<1> QED
  BY <1>1, <1>2, <1>3 DEF Next, startRunCreate, startRunActivate,
       DispatchStepAsync, Crash

\* The sweep of a restart settles every run it finds running, and all its steps,
\* for any number of runs, steps and attempts.
THEOREM SweepSettles == Spec => SweepSettlesRunning
<1> DEFINE settles == ~ up /\ up' => \A r \in Runs : runState[r] = "running" =>
       /\ \A s \in StepsOf(r) : stepState'[s] \notin ActiveStates
       /\ StepsOf(r) # {} => runState'[r] # "running"
<1>1. IInv /\ [Next]_vars => [settles]_vars
  <2> SUFFICES ASSUME IInv, Next, ~ up, up', NEW r \in Runs,
                      runState[r] = "running"
               PROVE  /\ \A s \in StepsOf(r) : stepState'[s] \notin ActiveStates
                      /\ StepsOf(r) # {} => runState'[r] # "running"
    BY DEF vars
  <2> DEFINE stale == {q \in Runs : runState[q] = "running"}
  <2>1. /\ salvage(stale, stepState', gate')
        /\ runState'[r] = deriveRunState({stepState'[s] : s \in StepsOf(r)})
    BY OnlySweepStarts DEF SweepStaleRuns
  <2>2. \A s \in StepsOf(r) : stepState'[s] \notin ActiveStates
    BY <2>1, SalvageSettles
  <2>3. StepsOf(r) # {} => runState'[r] # "running"
    BY <2>1, <2>2, DeriveInactive
  <2> QED BY <2>2, <2>3
<1> QED
  BY <1>1, Invariance, PTL DEF Spec, SweepSettlesRunning

-----------------------------------------------------------------------------
(* The lock after a sweep.                                                 *)

\* Rows are never deleted and refer to rows: a step that a goroutine, a gate or
\* a request names has a row, its run has one, and so has a step of the run
\* that the lock file names.
Recorded ==
  /\ \A d \in Dispatches :
       worker[d].step \in Steps => stepState[worker[d].step] # "absent"
  /\ \A s \in Steps : gate[s] # "absent" => stepState[s] # "absent"
  /\ \A c \in Clients, s \in Steps :
       s \in client[c].marks \/ s = client[c].gate => stepState[s] # "absent"
  /\ \A s \in Steps : stepState[s] # "absent" => runState[RunOf[s]] # "absent"
  /\ lock \in Runs => StepsOf(lock) # {}

\* No row that is written is an absent one.
LEMMA NoAbsentState == "absent" \notin StepStates \cup RunStates
BY DEF StepStates, RunStates, ActiveStates, SuccessStates, FailureStates

\* A goroutine writes the row of its own step, and the lock of its own run.
LEMMA WorkerRows ==
  ASSUME IInv, NEW d \in Dispatches, workerStep(d)
  PROVE  /\ \A s \in Steps : \/ stepState'[s] = stepState[s]
                             \/ s = worker[d].step /\ stepState'[s] # "absent"
         /\ \A r \in Runs : runState'[r] = runState[r] \/ runState'[r] # "absent"
         /\ \A s \in Steps : gate'[s] = gate[s]
         /\ lock' \in {lock, None, NoOwner, RunOfDispatch(d)}
<1>0. /\ TypeOK /\ wellFormedWorker(worker[d])
      /\ worker[d] \in Goroutines
      /\ \A s \in Steps : s # d
  BY RunServiceConstants DEF IInv, TypeOK, WorkerOK
<1> USE <1>0, StateNames, NoAbsentState DEF TypeOK, rows, memory
<1>1. CASE registerExecution(d) \/ clearExecution(d)
  BY <1>1 DEF registerExecution, clearExecution
<1>2. CASE \/ finalizeEarlyAbort(d) \/ afterAttempt(d) \/ closeDone(d)
           \/ reconcileRead(d)
  BY <1>2 DEF finalizeEarlyAbort, afterAttempt, closeDone, reconcileRead
<1>3. CASE noViableAdapter(d) \/ beginAttempts(d) \/ parkStep(d)
  BY <1>3 DEF noViableAdapter, beginAttempts, parkStep
<1>4. CASE \/ createAttempt(d) \/ artifactRootFails(d) \/ lockConflict(d)
           \/ environmentFails(d) \/ adapterStart(d) \/ pollStops(d)
           \/ collectFails(d) \/ normalizeResult(d) \/ evaluatePolicy(d)
  BY <1>4 DEF createAttempt, artifactRootFails, lockConflict, environmentFails,
       adapterStart, pollStops, collectFails, normalizeResult, evaluatePolicy
<1>5. CASE openLock(d) \/ writeOwner(d) \/ releaseLock(d)
  BY <1>5 DEF openLock, writeOwner, releaseLock
<1>6. CASE pollFinishes(d) \/ startValidations(d)
  BY <1>6 DEF pollFinishes, startValidations, updateStep
<1>7. CASE finalizeStep(d)
  <2>1. finalizing(d) \in StepStates
    BY FinalType DEF finalizing, Goroutines
  <2> QED BY <1>7, <2>1 DEF finalizeStep
<1>8. CASE createGate(d)
  BY <1>8 DEF createGate, GateIDs
<1>9. CASE reconcileWrite(d)
  <2>1. worker[d].seen \in RunStates
    BY <1>9 DEF reconcileWrite, wellFormedWorker, Goroutines
  <2> QED BY <1>9, <2>1 DEF reconcileWrite
<1> QED
  BY <1>1, <1>2, <1>3, <1>4, <1>5, <1>6, <1>7, <1>8, <1>9 DEF workerStep

\* The goroutines keep the rows recorded.
LEMMA WorkerRecorded ==
  ASSUME IInv, Recorded, NEW d \in Dispatches, workerStep(d)
  PROVE  Recorded'
<1>1. /\ \A e \in Dispatches : worker'[e].step = worker[e].step
      /\ worker[d].step \in Steps
      /\ client' = client
  <2>1. /\ worker \in [Dispatches -> Goroutines]
        /\ worker' = [worker EXCEPT ![d] = worker'[d]]
        /\ worker'[d].step = worker[d].step
        /\ worker[d].step \in Steps
    BY GoroutineStep DEF IInv, TypeOK, WorkerOK, wellFormedWorker, inFlight
  <2> QED BY <2>1, WorkerFrame DEF IInv
<1>2. \A s \in Steps : stepState'[s] # "absent" <=> stepState[s] # "absent"
  BY <1>1, WorkerRows DEF Recorded
<1>3. \A r \in Runs : runState[r] # "absent" => runState'[r] # "absent"
  BY WorkerRows
<1>4. /\ \A e \in Dispatches :
           worker'[e].step \in Steps => stepState'[worker'[e].step] # "absent"
      /\ \A c \in Clients, s \in Steps :
           s \in client'[c].marks \/ s = client'[c].gate
             => stepState'[s] # "absent"
  BY <1>1, <1>2 DEF Recorded
<1>5. /\ \A s \in Steps : gate'[s] # "absent" => stepState'[s] # "absent"
      /\ \A s \in Steps :
           stepState'[s] # "absent" => runState'[RunOf[s]] # "absent"
  BY <1>2, <1>3, WorkerRows, RunServiceConstants DEF Recorded
<1>6. lock' \in Runs => StepsOf(lock)' # {}
  <2>1. CASE lock' = lock
    BY <1>2, <2>1 DEF Recorded, StepsOf
  <2>2. CASE lock' = RunOfDispatch(d)
    <3>1. worker[d].step \in StepsOf(lock)'
      BY <1>1, <1>2, <2>2 DEF Recorded, StepsOf, RunOfDispatch
    <3> QED BY <3>1
  <2> QED BY <2>1, <2>2, WorkerRows, RunServiceConstants
<1> QED BY <1>4, <1>5, <1>6 DEF Recorded

\* reconcileRunSteps writes only rows that are there, and a recovery gate only
\* for such a row.
LEMMA SalvageRows ==
  ASSUME IInv, NEW R \in SUBSET Runs, NEW ss, NEW gg, salvage(R, ss, gg)
  PROVE  /\ \A s \in Steps : ss[s] # "absent" <=> stepState[s] # "absent"
         /\ \A s \in Steps : \/ gg[s] = gate[s]
                             \/ stepState[s] # "absent"
<1> DEFINE marks == {s \in UNION {StepsOf(r) : r \in R} : unsettled(s)}
<1>1. PICK f \in [marks -> StepStates] :
        /\ ss = [s \in Steps |-> IF s \in marks THEN f[s] ELSE stepState[s]]
        /\ gg = [g \in GateIDs |->
             IF /\ g \in marks /\ f[g] = "needs_approval"
                /\ findPendingGate(g) = {} /\ gate[g] = "absent"
             THEN "pending" ELSE gate[g]]
  BY DEF salvage
<1>2. \A s \in marks : s \in Steps /\ stepState[s] # "absent"
  BY DEF StepsOf
<1> HIDE DEF marks
<1>3. \A s \in Steps : ss[s] # "absent" <=> stepState[s] # "absent"
  BY <1>1, <1>2, NoAbsentState
<1>4. \A s \in Steps : gg[s] = gate[s] \/ stepState[s] # "absent"
  BY <1>1, <1>2 DEF GateIDs
<1> QED BY <1>3, <1>4

\* What is recorded stays recorded when the rows that exist are kept and the
\* goroutines and the lock are left alone.
LEMMA KeptRecorded ==
  ASSUME IInv, Recorded,
         \A e \in Dispatches : worker'[e].step = worker[e].step,
         lock' \in {lock, None},
         \A s \in Steps : stepState'[s] # "absent" <=> stepState[s] # "absent",
         \A r \in Runs : runState[r] # "absent" => runState'[r] # "absent",
         \A s \in Steps : gate'[s] = gate[s] \/ stepState[s] # "absent",
         \A c \in Clients, s \in Steps :
           s \in client'[c].marks \/ s = client'[c].gate
             => stepState[s] # "absent"
  PROVE  Recorded'
<1>1. \A d \in Dispatches :
        worker'[d].step \in Steps => stepState'[worker'[d].step] # "absent"
  BY DEF Recorded
<1>2. /\ \A s \in Steps : gate'[s] # "absent" => stepState'[s] # "absent"
      /\ \A c \in Clients, s \in Steps :
           s \in client'[c].marks \/ s = client'[c].gate
             => stepState'[s] # "absent"
  BY DEF Recorded
<1>3. \A s \in Steps :
        stepState'[s] # "absent" => runState'[RunOf[s]] # "absent"
  BY RunServiceConstants DEF Recorded
<1>4. lock' \in Runs => StepsOf(lock)' # {}
  BY RunServiceConstants DEF Recorded, StepsOf
<1> QED BY <1>1, <1>2, <1>3, <1>4 DEF Recorded

\* The handlers keep the rows recorded.
LEMMA HandlerRecorded ==
  ASSUME IInv, Recorded, NEW c \in Clients, handlerStep(c)
  PROVE  Recorded'
<1>0. /\ TypeOK /\ wellFormedClient(client[c]) /\ client[c] \in Handlers
      /\ client \in [Clients -> Handlers]
  BY DEF IInv, TypeOK, ClientOK
<1>1. worker' = worker /\ lock' = lock
  BY DEF handlerStep, abortOrphans, abortSignal, abortOutcome,
       retryDispatched, clientReconcileRead, clientReconcileWrite, writeVerdict,
       restoreStep, recoverSteps, memory
<1>2. \A e \in Clients : /\ client'[e].marks \subseteq client[e].marks
                         /\ client'[e].gate = client[e].gate
  <2> USE <1>0 DEF Handlers
  <2>1. CASE abortOrphans(c)
    BY <2>1 DEF abortOrphans
  <2>2. CASE abortSignal(c) \/ retryDispatched(c) \/ writeVerdict(c)
    BY <2>2 DEF abortSignal, retryDispatched, writeVerdict
  <2>3. CASE abortOutcome(c)
    BY <2>3 DEF abortOutcome
  <2>4. CASE clientReconcileRead(c)
    <3>1. PICK v : client' = [client EXCEPT ![c] =
                                [@ EXCEPT !.pc = "reconciling", !.seen = v]]
      BY <2>4 DEF clientReconcileRead
    <3> QED BY <3>1
  <2>5. CASE clientReconcileWrite(c)
    BY <2>5 DEF clientReconcileWrite
  <2>6. CASE restoreStep(c) \/ recoverSteps(c)
    BY <2>6 DEF restoreStep, recoverSteps
  <2> QED BY <2>1, <2>2, <2>3, <2>4, <2>5, <2>6 DEF handlerStep
<1>3. \A e \in Clients, s \in Steps :
        s \in client'[e].marks \/ s = client'[e].gate => stepState[s] # "absent"
  BY <1>2 DEF Recorded
<1>4. \A s \in Steps : stepState'[s] # "absent" <=> stepState[s] # "absent"
  <2>1. CASE abortOrphans(c)
    BY <1>0, <2>1 DEF abortOrphans, Recorded, Handlers
  <2>2. CASE restoreStep(c)
    <3> DEFINE s == GateStep(client[c].gate)
    <3>1. PICK v \in restoreStates(s) \cup {"cancelled"} :
            stepState' = [stepState EXCEPT ![s] = v]
      BY <2>2 DEF restoreStep
    <3>2. v # "absent"
      BY <1>0, <3>1, RestoreType, StateNames, NoAbsentState
    <3>3. s \in Steps => stepState[s] # "absent"
      <4>1. client[c].gate \in Steps \cup Dispatches
        BY <1>0, <2>2 DEF restoreStep, wellFormedClient, Handlers, GateIDs
      <4> QED BY <4>1 DEF GateStep, Recorded
    <3> HIDE DEF s
    <3> QED BY <1>0, <3>1, <3>2, <3>3 DEF TypeOK
  <2>3. CASE recoverSteps(c)
    <3>1. CASE client[c].run \in Runs
      BY <2>3, <3>1, SalvageRows DEF recoverSteps
    <3>2. CASE client[c].run \notin Runs
      <4>1. StepsOf(client[c].run) = {}
        BY <3>2, RunServiceConstants DEF StepsOf
      <4>2. stepState' = [s \in Steps |-> stepState[s]]
        BY <2>3, <4>1 DEF recoverSteps, salvage
      <4> QED BY <4>2
    <3> QED BY <3>1, <3>2
  <2> QED
    BY <2>1, <2>2, <2>3 DEF handlerStep, abortSignal, abortOutcome,
         retryDispatched, clientReconcileRead, clientReconcileWrite,
         writeVerdict, rows
<1>5. \A r \in Runs : runState[r] # "absent" => runState'[r] # "absent"
  <2>1. CASE clientReconcileWrite(c)
    <3>1. client[c].seen \in RunStates
      BY <1>0, <2>1 DEF clientReconcileWrite, wellFormedClient, Handlers
    <3> QED BY <1>0, <2>1, <3>1, NoAbsentState DEF clientReconcileWrite, TypeOK
  <2> QED
    BY <2>1 DEF handlerStep, abortOrphans, abortSignal, abortOutcome,
         retryDispatched, clientReconcileRead, writeVerdict, restoreStep,
         recoverSteps, rows
<1>6. \A s \in Steps : gate'[s] = gate[s] \/ stepState[s] # "absent"
  <2>1. CASE writeVerdict(c)
    BY <1>0, <2>1 DEF writeVerdict, Recorded, TypeOK
  <2>2. CASE recoverSteps(c)
    <3>1. CASE client[c].run \in Runs
      BY <2>2, <3>1, SalvageRows DEF recoverSteps
    <3>2. CASE client[c].run \notin Runs
      <4>1. StepsOf(client[c].run) = {}
        BY <3>2, RunServiceConstants DEF StepsOf
      <4>2. gate' = [g \in GateIDs |-> gate[g]]
        BY <2>2, <4>1 DEF recoverSteps, salvage
      <4> QED BY <4>2 DEF GateIDs
    <3> QED BY <3>1, <3>2
  <2> QED
    BY <2>1, <2>2 DEF handlerStep, abortOrphans, abortSignal, abortOutcome,
         retryDispatched, clientReconcileRead, clientReconcileWrite,
         restoreStep, rows
<1> QED BY <1>1, <1>3, <1>4, <1>5, <1>6, KeptRecorded

\* Dispatching a step of a stored run keeps the rows recorded.
LEMMA InitializeRecorded ==
  ASSUME IInv, Recorded, NEW d \in Dispatches, NEW s \in Steps,
         initializeStep(d, s), runState[RunOf[s]] # "absent",
         UNCHANGED <<runState, gate, lock>>,
         \A c \in Clients : /\ client'[c].marks \subseteq client[c].marks
                            /\ client'[c].gate \in {client[c].gate, None}
  PROVE  Recorded'
<1>0. None \notin Steps
  BY RunServiceConstants
<1>1. /\ \A e \in Dispatches : worker'[e].step \in {worker[e].step, s}
      /\ \A t \in Steps : stepState'[t] # "absent"
                            <=> stepState[t] # "absent" \/ t = s
  <2>1. [idleWorker EXCEPT !.pc = "register", !.step = s].step = s
    BY DEF idleWorker
  <2> QED BY <2>1 DEF initializeStep, IInv, TypeOK
<1>2. /\ \A e \in Dispatches :
           worker'[e].step \in Steps => stepState'[worker'[e].step] # "absent"
      /\ \A t \in Steps : gate'[t] # "absent" => stepState'[t] # "absent"
  BY <1>1 DEF Recorded
<1>3. \A c \in Clients, t \in Steps :
        t \in client'[c].marks \/ t = client'[c].gate
          => stepState'[t] # "absent"
  BY <1>0, <1>1 DEF Recorded
<1>4. \A t \in Steps :
        stepState'[t] # "absent" => runState'[RunOf[t]] # "absent"
  BY <1>1 DEF Recorded
<1>5. lock' \in Runs => StepsOf(lock)' # {}
  BY <1>1 DEF Recorded, StepsOf
<1> QED BY <1>2, <1>3, <1>4, <1>5 DEF Recorded

\* A new request keeps the rows recorded.
LEMMA RequestRecorded ==
  ASSUME IInv, Recorded, NEW c \in Clients, request(c)
  PROVE  Recorded'
<1>0. /\ client \in [Clients -> Handlers] /\ None \notin Steps
      /\ idleClient.marks = {} /\ idleClient.gate = None
  BY RunServiceConstants DEF IInv, TypeOK, idleClient
<1>1. ASSUME NEW h, client' = [client EXCEPT ![c] = h],
             \A s \in Steps : s \in h.marks \/ s = h.gate
                                => stepState[s] # "absent",
             \A r \in Runs : runState[r] # "absent" => runState'[r] # "absent",
             UNCHANGED <<stepState, gate, lock, worker>>
      PROVE  Recorded'
  <2>1. \A e \in Clients, s \in Steps :
          s \in client'[e].marks \/ s = client'[e].gate
            => stepState[s] # "absent"
    BY <1>0, <1>1 DEF Recorded
  <2> QED BY <1>1, <2>1, KeptRecorded
<1>2. ASSUME NEW r \in Runs, AbortRun(c, r) PROVE Recorded'
  <2> DEFINE marks == {s \in StepsOf(r) : /\ ~ StepTerminal(stepState[s])
                                          /\ stepState[s] # "needs_approval"}
             h == IF execution[r] # None
                    THEN [idleClient EXCEPT !.pc = "signal", !.run = r,
                                            !.disp = execution[r]]
                    ELSE [idleClient EXCEPT !.pc = "orphans", !.run = r,
                                            !.marks = marks]
  <2>1. \A s \in marks : stepState[s] # "absent"
    BY DEF StepsOf
  <2> HIDE DEF marks
  <2>2. h.marks \in {{}, marks} /\ h.gate = None
    BY DEF idleClient
  <2>3. /\ client' = [client EXCEPT ![c] = h]
        /\ UNCHANGED <<rows, lock, memory, worker>>
    BY <1>2 DEF AbortRun, marks
  <2> HIDE DEF h
  <2> QED BY <1>0, <1>1, <2>1, <2>2, <2>3 DEF rows
<1>3. ASSUME NEW r \in Runs, RecoverRun(c, r) PROVE Recorded'
  <2> DEFINE seen == derivedState(r)
             h == IF \E s \in StepsOf(r) : stepState[s] \in ActiveStates
                    THEN [idleClient EXCEPT !.pc = "salvaging", !.run = r]
                    ELSE [idleClient EXCEPT !.pc = "reconciling", !.run = r,
                                            !.seen = seen]
  <2> HIDE DEF seen
  <2>2. h.marks = {} /\ h.gate = None
    BY DEF idleClient
  <2>3. /\ client' = [client EXCEPT ![c] = h]
        /\ UNCHANGED <<rows, lock, memory, worker>>
    BY <1>3 DEF RecoverRun, seen
  <2> HIDE DEF h
  <2> QED BY <1>0, <1>1, <2>2, <2>3 DEF rows
<1>4. ASSUME NEW r \in Runs, ResumeRun(c, r) PROVE Recorded'
  <2> DEFINE h == [client[c] EXCEPT !.pc = "done"]
  <2>1. h.marks = client[c].marks /\ h.gate = client[c].gate
    BY <1>0 DEF Handlers
  <2>2. /\ client' = [client EXCEPT ![c] = h]
        /\ UNCHANGED <<stepState, attempt, gate, lock, memory, worker>>
        /\ \A q \in Runs : runState[q] # "absent" => runState'[q] # "absent"
    BY <1>4 DEF ResumeRun, IInv, TypeOK
  <2> HIDE DEF h
  <2>3. \A s \in Steps : s \in h.marks \/ s = h.gate
                                => stepState[s] # "absent"
    BY <2>1 DEF Recorded
  <2> QED BY <1>1, <2>2, <2>3
<1>5. ASSUME NEW d \in Dispatches, NEW s \in Steps, RetryStep(c, d, s)
      PROVE  Recorded'
  <2> DEFINE h == [idleClient EXCEPT !.pc = "retrying", !.run = RunOf[s],
                                     !.disp = d]
  <2>1. h.marks = {} /\ h.gate = None
    BY DEF idleClient
  <2>2. /\ initializeStep(d, s) /\ stepState[s] # "absent"
        /\ client' = [client EXCEPT ![c] = h]
        /\ UNCHANGED <<runState, attempt, gate, lock, memory>>
    BY <1>5 DEF RetryStep
  <2> HIDE DEF h
  <2>3. \A e \in Clients : /\ client'[e].marks \subseteq client[e].marks
                           /\ client'[e].gate \in {client[e].gate, None}
    BY <1>0, <2>1, <2>2
  <2> QED BY <2>2, <2>3, InitializeRecorded DEF Recorded
<1>6. ASSUME NEW g \in GateIDs, NEW v \in {"approved", "rejected"},
             resolveGate(c, g, v)
      PROVE  Recorded'
  <2> DEFINE h == [idleClient EXCEPT !.pc = "resolving",
                     !.run = RunOf[GateStep(g)], !.gate = g, !.verdict = v]
  <2>1. h.marks = {} /\ h.gate = g
    BY DEF idleClient
  <2>2. /\ client' = [client EXCEPT ![c] = h]
        /\ gate[g] # "absent"
        /\ UNCHANGED <<rows, lock, memory, worker>>
    BY <1>6 DEF resolveGate
  <2> HIDE DEF h
  <2>3. \A s \in Steps : s \in h.marks \/ s = h.gate
                                => stepState[s] # "absent"
    BY <2>1, <2>2 DEF Recorded
  <2> QED BY <1>1, <2>2, <2>3 DEF rows
<1>7. CASE disconnect(c)
  <2> DEFINE h == [idleClient EXCEPT !.pc = "done"]
  <2>1. h.marks = {} /\ h.gate = None
    BY DEF idleClient
  <2>2. /\ client' = [client EXCEPT ![c] = h]
        /\ UNCHANGED <<rows, lock, memory, worker>>
    BY <1>7 DEF disconnect
  <2> HIDE DEF h
  <2> QED BY <1>0, <1>1, <2>1, <2>2 DEF rows
<1> QED
  BY <1>2, <1>3, <1>4, <1>5, <1>6, <1>7 DEF request

\* Every step keeps the rows recorded.
LEMMA NextRecorded == IInv /\ Recorded /\ [Next]_vars => Recorded'
<1> SUFFICES ASSUME IInv, Recorded, [Next]_vars PROVE Recorded'
  OBVIOUS
<1>0. /\ client \in [Clients -> Handlers] /\ None \notin Steps
      /\ idleClient.marks = {} /\ idleClient.gate = None
  BY RunServiceConstants DEF IInv, TypeOK, idleClient
<1>1. ASSUME NEW r \in Runs, startRunCreate(r) \/ startRunActivate(r)
      PROVE  Recorded'
  <2>1. \A q \in Runs : runState[q] # "absent" => runState'[q] # "absent"
    BY <1>1 DEF startRunCreate, startRunActivate, IInv, TypeOK
  <2>2. UNCHANGED <<stepState, gate, lock, worker, client>>
    BY <1>1 DEF startRunCreate, startRunActivate
  <2>3. \A c \in Clients, s \in Steps :
          s \in client'[c].marks \/ s = client'[c].gate
            => stepState[s] # "absent"
    BY <2>2 DEF Recorded
  <2> QED BY <2>1, <2>2, <2>3, KeptRecorded
<1>2. ASSUME NEW d \in Dispatches, NEW s \in Steps, DispatchStepAsync(d, s)
      PROVE  Recorded'
  BY <1>2, InitializeRecorded DEF DispatchStepAsync
<1>3. ASSUME NEW d \in Dispatches, workerStep(d)
      PROVE  Recorded'
  BY <1>3, WorkerRecorded
<1>4. ASSUME NEW c \in Clients, handlerStep(c)
      PROVE  Recorded'
  BY <1>4, HandlerRecorded
<1>5. ASSUME NEW c \in Clients, request(c)
      PROVE  Recorded'
  BY <1>5, RequestRecorded
<1>6. CASE Crash
  <2>1. \A d \in Dispatches : worker'[d].step = worker[d].step
    <3> SUFFICES ASSUME NEW d \in Dispatches
                 PROVE  worker'[d].step = worker[d].step
      OBVIOUS
    <3>1. \/ worker'[d] = worker[d]
          \/ worker'[d] = [worker[d] EXCEPT !.pc = "dead", !.seen = None]
      BY <1>6 DEF Crash
    <3>2. worker[d] \in Goroutines
      BY DEF IInv, TypeOK
    <3> QED BY <3>1, <3>2 DEF Goroutines
  <2>2. \A c \in Clients : \/ client'[c] = client[c]
                           \/ client'[c].marks = {} /\ client'[c].gate = None
    <3>1. [idleClient EXCEPT !.pc = "dead"].marks = {}
      BY DEF idleClient
    <3>2. [idleClient EXCEPT !.pc = "dead"].gate = None
      BY DEF idleClient
    <3> QED BY <1>6, <3>1, <3>2 DEF Crash
  <2>3. \A c \in Clients, s \in Steps :
          s \in client'[c].marks \/ s = client'[c].gate
            => stepState[s] # "absent"
    BY <1>0, <2>2 DEF Recorded
  <2>4. UNCHANGED <<rows, lock>>
    BY <1>6 DEF Crash
  <2> QED BY <2>1, <2>3, <2>4, KeptRecorded DEF rows
<1>7. CASE SweepStaleRuns
  <2> DEFINE stale == {r \in Runs : runState[r] = "running"}
  <2>1. salvage(stale, stepState', gate') /\ stale \in SUBSET Runs
    BY <1>7 DEF SweepStaleRuns
  <2>2. \A r \in Runs : runState[r] # "absent" => runState'[r] # "absent"
    BY <1>7, DeriveType, NoAbsentState DEF SweepStaleRuns
  <2>3. lock' \in {lock, None} /\ worker' = worker /\ client' = client
    BY <1>7 DEF SweepStaleRuns
  <2> HIDE DEF stale
  <2>4. \A c \in Clients, s \in Steps :
          s \in client'[c].marks \/ s = client'[c].gate
            => stepState[s] # "absent"
    BY <2>3 DEF Recorded
  <2> QED BY <2>1, <2>2, <2>3, <2>4, SalvageRows, KeptRecorded
<1>8. CASE UNCHANGED vars
  <2>1. UNCHANGED <<runState, stepState, gate, lock, worker, client>>
    BY <1>8 DEF vars, rows
  <2>2. \A c \in Clients, s \in Steps :
          s \in client'[c].marks \/ s = client'[c].gate
            => stepState[s] # "absent"
    BY <2>1 DEF Recorded
  <2> QED BY <2>1, <2>2, KeptRecorded
<1> QED
  BY <1>1, <1>2, <1>3, <1>4, <1>5, <1>6, <1>7, <1>8 DEF Next

\* Initially there are no rows.
LEMMA InitRecorded == Init => Recorded
<1> SUFFICES ASSUME Init PROVE Recorded
  OBVIOUS
<1>1. /\ idleWorker.step = None /\ idleClient.marks = {}
      /\ idleClient.gate = None
  BY DEF idleWorker, idleClient
<1> QED BY <1>1, RunServiceConstants DEF Init, Recorded, GateIDs

\* A sweep frees the lock of every run but one that waits at a gate or that a
\* crash inside StartRun left created, for any number of crashes.
THEOREM SweepFrees == Spec => SweepFreesLock
<1> DEFINE frees == ~ up /\ up' /\ lock' \in Runs =>
       \/ runState'[lock'] = "paused_for_gate"
       \/ runState[lock'] = "created"
<1>1. Init => Recorded
  BY InitRecorded
<1>2. IInv /\ Recorded /\ [Next]_vars => [frees]_vars
  <2> SUFFICES ASSUME IInv, Recorded, Next, ~ up, up', lock' \in Runs,
                      runState[lock'] # "created"
               PROVE  runState'[lock'] = "paused_for_gate"
    BY DEF vars
  <2> DEFINE stale == {q \in Runs : runState[q] = "running"}
             r == lock
  <2>1. /\ salvage(stale, stepState', gate')
        /\ runState' = [q \in Runs |-> IF q \in stale
              THEN deriveRunState({stepState'[s] : s \in StepsOf(q)})
              ELSE runState[q]]
        /\ lock' = lock /\ lock \in Runs /\ ~ RunTerminal(runState'[lock])
    BY OnlySweepStarts, RunServiceConstants DEF SweepStaleRuns
  <2>2. StepsOf(r) # {}
    BY <2>1 DEF Recorded
  <2>3. runState[r] # "absent" /\ runState[r] \in RunStates \cup {"absent"}
    BY <2>1, <2>2 DEF Recorded, StepsOf, IInv, TypeOK
  <2>4. CASE r \in stale
    <3>1. \A s \in StepsOf(r) : stepState'[s] \notin ActiveStates
      BY <2>1, <2>4, SalvageSettles
    <3>2. runState'[r] = deriveRunState({stepState'[s] : s \in StepsOf(r)})
      BY <2>1, <2>4
    <3>3. runState'[r] # "running"
      BY <2>2, <3>1, <3>2, DeriveInactive
    <3>4. runState'[r] \in {"running", "paused_for_gate", "completed",
                            "failed", "cancelled"}
      BY <3>2 DEF deriveRunState
    <3> QED BY <2>1, <3>3, <3>4 DEF RunTerminal
  <2>5. CASE r \notin stale
    <3>1. runState'[r] = runState[r] /\ runState[r] # "running"
      BY <2>1, <2>5
    <3> QED BY <2>1, <2>3, <3>1 DEF RunStates, RunTerminal
  <2> QED BY <2>4, <2>5
<1> QED
  BY <1>1, <1>2, NextRecorded, Invariance, PTL DEF Spec, SweepFreesLock

-----------------------------------------------------------------------------
(* A step that is completed was attempted.  The theorem is about callers   *)
(* that leave a run alone until its goroutine has returned; with others a  *)
(* second dispatch of the run replaces or deletes the entry that carries   *)
(* the abort flag.                                                         *)

\* The executions map describes the goroutines: a run has at most one, and its
\* entry is that goroutine from registerExecution to clearExecution.
OnePerRun ==
  /\ \A d, e \in Dispatches :
       inFlight(d) /\ inFlight(e) /\ RunOfDispatch(d) = RunOfDispatch(e)
         => d = e
  /\ \A d \in Dispatches : inFlight(d) /\ worker[d].pc # "register"
                             => execution[RunOfDispatch(d)] = d
  /\ \A r \in Runs : execution[r] # None =>
       /\ worker[execution[r]].pc \notin {"unused", "register"}
       /\ RunOfDispatch(execution[r]) = r

\* A context is cancelled only together with the flag of its entry, and only
\* after the entry was registered.
CancelIsFlagged ==
  /\ \A c \in Clients : client[c].pc = "signal" =>
       /\ client[c].disp \in Dispatches
       /\ worker[client[c].disp].pc \notin {"unused", "register"}
       /\ RunOfDispatch(client[c].disp) = client[c].run
  /\ \A d \in Dispatches : ctxDone[d] =>
       /\ worker[d].pc \notin {"unused", "register"}
       /\ inFlight(d) => abortReq[d]

attempting(d) == worker[d].pc \in {"setup", "opened", "locked", "polling",
                   "collect", "validate", "validating", "release", "attempted"}

\* A goroutine that has a result has made an attempt, and one that finalizes
\* without a result was told to stop.
madeAttempt(d) ==
  /\ attempting(d) \/ worker[d].res # "none" => attempt[d][1] # "absent"
  /\ worker[d].pc \in {"release", "attempted"} \/ worker[d].num # 1
       => worker[d].res # "none"
  /\ worker[d].pc = "finalize" /\ worker[d].res = "none" => abortReq[d]
  /\ worker[d].step \in Steps => worker[d].pc # "unused"

AttemptInv == OnePerRun /\ CancelIsFlagged
                /\ (\A d \in Dispatches : madeAttempt(d))
                /\ CompletedWasAttempted

\* An attempt that ends with a result was made.
LEMMA ResultMade ==
  ASSUME TypeOK, NEW d \in Dispatches, madeAttempt(d), attempting(d),
         NEW r \in StepStates, NEW b,
         NEW p \in {"attempted", "release", "validate"}, setResult(d, r, b, p)
  PROVE  /\ madeAttempt(d)'
         /\ \A e \in Dispatches, n \in 1..MaxAttempts :
              attempt[e][n] # "absent" => attempt'[e][n] # "absent"
<1>1. /\ worker'[d].res = r /\ worker'[d].pc = p
      /\ worker'[d].num = worker[d].num /\ worker'[d].step = worker[d].step
  BY DEF setResult, TypeOK, Goroutines
<1>2. \A e \in Dispatches, n \in 1..MaxAttempts :
        attempt[e][n] # "absent" => attempt'[e][n] # "absent"
  BY NoAbsentState DEF setResult, TypeOK
<1>3. attempt'[d][1] # "absent"
  <2>1. 1 \in 1..MaxAttempts
    BY RunServiceConstants
  <2> QED BY <1>2, <2>1 DEF madeAttempt
<1> QED BY <1>1, <1>2, <1>3, StateNames DEF madeAttempt

\* A move of a goroutine between two points keeps what is known of its attempts.
LEMMA MoveMade ==
  ASSUME TypeOK, NEW d \in Dispatches, madeAttempt(d), NEW p \in WorkerPC,
         worker' = [worker EXCEPT ![d].pc = p], p # "unused",
         attempt' = attempt, abortReq' = abortReq,
         p \in {"setup", "opened", "locked", "polling", "collect", "validating",
                "attempted"} => attempting(d),
         p \in {"validate", "release"} => FALSE,
         p = "attempted" => worker[d].pc = "release",
         p = "finalize" => worker[d].res # "none" \/ abortReq[d]
  PROVE  madeAttempt(d)'
<1>1. /\ worker'[d].res = worker[d].res /\ worker'[d].pc = p
      /\ worker'[d].num = worker[d].num /\ worker'[d].step = worker[d].step
  BY DEF TypeOK, Goroutines
<1> QED BY <1>1 DEF madeAttempt, attempting

\* A goroutine keeps what is known of its attempts, and no attempt row goes away.
LEMMA WorkerMade ==
  ASSUME IInv, OnePerRun, CancelIsFlagged,
         NEW d \in Dispatches, madeAttempt(d), workerStep(d)
  PROVE  /\ madeAttempt(d)'
         /\ \A e \in Dispatches, n \in 1..MaxAttempts :
              attempt[e][n] # "absent" => attempt'[e][n] # "absent"
<1>0. /\ TypeOK /\ wellFormedWorker(worker[d])
      /\ worker \in [Dispatches -> Goroutines]
      /\ worker[d] \in Goroutines
      /\ worker[d].num \in 1..MaxAttempts
      /\ 1 \in 1..MaxAttempts
      /\ worker[d].step \in Steps
      /\ RunOfDispatch(d) \in Runs
      /\ inFlight(d)
  BY GoroutineStep, RunServiceConstants DEF IInv, TypeOK, WorkerOK, Goroutines,
       RunOfDispatch, wellFormedWorker, inFlight
<1>1. worker[d].pc # "register" =>
        /\ execution[RunOfDispatch(d)] = d
        /\ isAbortRequested(RunOfDispatch(d)) => abortReq[d]
        /\ ctxDone[d] => abortReq[d]
  BY <1>0 DEF OnePerRun, CancelIsFlagged, isAbortRequested
<1>2. CASE registerExecution(d)
  BY <1>0, <1>2, MoveMade DEF registerExecution, rows, WorkerPC
<1>3. CASE finalizeEarlyAbort(d)
  BY <1>0, <1>1, <1>3, MoveMade DEF finalizeEarlyAbort, aborting, rows, memory,
       WorkerPC
<1>4. CASE noViableAdapter(d) \/ beginAttempts(d)
  BY <1>0, <1>4, MoveMade DEF noViableAdapter, beginAttempts, memory, WorkerPC
<1>5. CASE createAttempt(d)
  <2>1. CASE isAbortRequested(RunOfDispatch(d)) \/ ctxDone[d]
    <3>1. /\ attempt' = attempt /\ abortReq' = abortReq
          /\ \/ worker' = [worker EXCEPT ![d].pc = "closing"]
             \/ worker' = [worker EXCEPT ![d].pc = "finalize"]
      BY <1>5, <2>1 DEF createAttempt, memory
    <3>2. abortReq[d]
      BY <1>1, <1>5, <2>1 DEF createAttempt
    <3> QED BY <1>0, <3>1, <3>2, MoveMade DEF WorkerPC
  <2>2. CASE ~ isAbortRequested(RunOfDispatch(d)) /\ ~ ctxDone[d]
    <3>1. /\ worker' = [worker EXCEPT ![d].pc = "setup"]
          /\ attempt' = [attempt EXCEPT ![d][worker[d].num] = "pending"]
          /\ abortReq' = abortReq
      BY <1>5, <2>2 DEF createAttempt, memory
    <3>2. \A e \in Dispatches, n \in 1..MaxAttempts :
            attempt[e][n] # "absent" => attempt'[e][n] # "absent"
      BY <1>0, <3>1 DEF TypeOK
    <3>3. attempt'[d][1] # "absent"
      <4>1. CASE worker[d].num = 1
        BY <1>0, <3>1, <4>1 DEF TypeOK
      <4>2. CASE worker[d].num # 1
        BY <1>0, <3>2, <4>2 DEF madeAttempt
      <4> QED BY <4>1, <4>2
    <3>4. /\ worker'[d].res = worker[d].res /\ worker'[d].pc = "setup"
          /\ worker'[d].num = worker[d].num
      BY <1>0, <3>1 DEF Goroutines
    <3> QED BY <3>2, <3>3, <3>4 DEF madeAttempt
  <2> QED BY <2>1, <2>2
<1>6. CASE artifactRootFails(d)
  BY <1>0, <1>6, ResultMade, StateNames DEF artifactRootFails, attempting
<1>7. CASE lockConflict(d)
  BY <1>0, <1>7, ResultMade, StateNames DEF lockConflict, attempting
<1>8. CASE openLock(d) \/ writeOwner(d) \/ releaseLock(d)
  BY <1>0, <1>8, MoveMade DEF openLock, writeOwner, releaseLock, rows, memory,
       WorkerPC, attempting
<1>9. CASE environmentFails(d)
  BY <1>0, <1>9, ResultMade, StateNames DEF environmentFails, attempting
<1>10. CASE adapterStart(d)
  <2>1. /\ worker' = [worker EXCEPT ![d].pc = "polling"]
        /\ attempt' = [attempt EXCEPT ![d][worker[d].num] = "started"]
        /\ attempting(d)
    BY <1>10 DEF adapterStart, attempting
  <2>2. \A e \in Dispatches, n \in 1..MaxAttempts :
          attempt[e][n] # "absent" => attempt'[e][n] # "absent"
    BY <1>0, <2>1 DEF TypeOK
  <2>3. /\ worker'[d].res = worker[d].res /\ worker'[d].pc = "polling"
        /\ worker'[d].num = worker[d].num
    BY <1>0, <2>1 DEF Goroutines
  <2> QED BY <1>0, <2>1, <2>2, <2>3 DEF madeAttempt
<1>11. CASE pollStops(d)
  BY <1>0, <1>11, ResultMade, StateNames DEF pollStops, attempting
<1>12. CASE pollFinishes(d) \/ startValidations(d)
  BY <1>0, <1>12, MoveMade DEF pollFinishes, startValidations, memory, WorkerPC,
       attempting
<1>13. CASE collectFails(d)
  BY <1>0, <1>13, ResultMade, StateNames DEF collectFails, attempting
<1>14. CASE normalizeResult(d)
  <2>1. PICK r \in StepStates : setResult(d, r, FALSE, "validate")
    BY <1>14, StateNames, RunServiceConstants DEF normalizeResult
  <2>2. attempting(d)
    BY <1>14 DEF normalizeResult, attempting
  <2> QED BY <1>0, <2>1, <2>2, ResultMade
<1>15. CASE evaluatePolicy(d)
  <2>1. /\ worker[d].pc \in {"validate", "validating"}
        /\ worker[d].res \in StepStates
        /\ attempting(d)
    BY <1>0, <1>15 DEF evaluatePolicy, wellFormedWorker, Goroutines, attempting
  <2> DEFINE ends(r, e) ==
               /\ worker' = [worker EXCEPT ![d] =
                    [@ EXCEPT !.res = r, !.pc = "release", !.eval = e]]
               /\ attempt' \in {attempt, [attempt EXCEPT ![d][worker[d].num] = r]}
  <2>a. PICK r \in {worker[d].res, "failed_validation"}, hit \in BOOLEAN :
          ends(r, Evaluate(Policy, r, hit))
    BY <1>15 DEF evaluatePolicy
  <2>2. PICK e : ends(r, e)
    BY <2>a
  <2>3. r \in StepStates /\ r # "absent" /\ r # "none"
    BY <2>1, <2>a, StateNames, NoAbsentState
  <2>4. \A f \in Dispatches, n \in 1..MaxAttempts :
          attempt[f][n] # "absent" => attempt'[f][n] # "absent"
    <3>1. CASE attempt' = attempt
      BY <3>1
    <3>2. CASE attempt' = [attempt EXCEPT ![d][worker[d].num] = r]
      BY <1>0, <2>3, <3>2 DEF TypeOK
    <3> QED BY <2>2, <3>1, <3>2
  <2>5. worker'[d].res = r /\ worker'[d].pc = "release"
    BY <1>0, <2>2 DEF Goroutines
  <2> QED BY <1>0, <2>1, <2>3, <2>4, <2>5 DEF madeAttempt
<1>16. CASE afterAttempt(d)
  <2>1. /\ worker[d].pc = "attempted" /\ attempting(d)
        /\ worker[d].res # "none" /\ attempt[d][1] # "absent"
        /\ attempt' = attempt /\ abortReq' = abortReq
    BY <1>16 DEF afterAttempt, attempting, madeAttempt, rows, memory
  <2>2. /\ worker'[d].res = worker[d].res /\ worker'[d].pc # "unused"
    <3>1. CASE worker' = [worker EXCEPT ![d].pc = "finalize"]
      BY <1>0, <3>1 DEF Goroutines
    <3>2. CASE worker' = [worker EXCEPT ![d] =
                 [@ EXCEPT !.num = worker[d].num + 1, !.pc = "loop"]]
      BY <1>0, <3>2 DEF Goroutines
    <3> QED BY <1>16, <3>1, <3>2 DEF afterAttempt
  <2> QED BY <2>1, <2>2 DEF madeAttempt
<1>17. CASE finalizeStep(d) \/ parkStep(d) \/ closeDone(d)
  BY <1>0, <1>17, MoveMade DEF finalizeStep, parkStep, closeDone, rows, memory,
       WorkerPC
<1>18. CASE createGate(d)
  BY <1>0, <1>18, MoveMade DEF createGate, memory, WorkerPC
<1>19. CASE reconcileRead(d)
  <2>1. PICK v : worker' = [worker EXCEPT ![d] =
                   [@ EXCEPT !.pc = "reconciling", !.seen = v]]
    BY <1>19 DEF reconcileRead
  <2>2. /\ worker'[d].res = worker[d].res /\ worker'[d].pc = "reconciling"
        /\ worker'[d].num = worker[d].num
    BY <1>0, <2>1 DEF Goroutines
  <2> QED BY <1>19, <2>2 DEF reconcileRead, madeAttempt, attempting, rows
<1>20. CASE reconcileWrite(d)
  <2>1. /\ worker'[d].res = worker[d].res /\ worker'[d].pc = "closing"
        /\ worker'[d].num = worker[d].num
    BY <1>0, <1>20 DEF Goroutines, reconcileWrite
  <2> QED BY <1>20, <2>1 DEF reconcileWrite, madeAttempt, attempting
<1>21. CASE clearExecution(d)
  BY <1>0, <1>21, MoveMade DEF clearExecution, rows, WorkerPC
<1> QED
  BY <1>2, <1>3, <1>4, <1>5, <1>6, <1>7, <1>8, <1>9, <1>10, <1>11, <1>12,
       <1>13, <1>14, <1>15, <1>16, <1>17, <1>18, <1>19, <1>20, <1>21
       DEF workerStep

\* A step of a goroutine cancels no context, sets no flag and keeps the
\* executions map in agreement with the goroutines.
LEMMA WorkerOnePerRun ==
  ASSUME IInv, OnePerRun, NEW d \in Dispatches, workerStep(d)
  PROVE  /\ OnePerRun'
         /\ worker'[d].pc \notin {"unused", "register"}
         /\ UNCHANGED <<abortReq, ctxDone>>
<1>0. /\ worker \in [Dispatches -> Goroutines]
      /\ worker' = [worker EXCEPT ![d] = worker'[d]]
      /\ worker'[d].step = worker[d].step
      /\ inFlight(d)
      /\ RunOfDispatch(d) \in Runs
      /\ execution \in [Runs -> Dispatches \cup {None}]
      /\ None \notin Dispatches
  BY GoroutineStep, RunServiceConstants DEF IInv, TypeOK, WorkerOK, inFlight,
       wellFormedWorker, RunOfDispatch
<1>1. \A e \in Dispatches : /\ RunOfDispatch(e)' = RunOfDispatch(e)
                            /\ inFlight(e)' => inFlight(e)
                            /\ e # d => worker'[e] = worker[e]
  <2>1. \A e \in Dispatches : worker'[e].step = worker[e].step
    BY <1>0
  <2>2. \A e \in Dispatches \ {d} : worker'[e] = worker[e]
    BY <1>0
  <2> QED BY <1>0, <2>1, <2>2 DEF RunOfDispatch, inFlight
<1>8. ASSUME \A e \in Dispatches : inFlight(e)' /\ worker'[e].pc # "register"
                => execution'[RunOfDispatch(e)'] = e,
             \A r \in Runs : execution'[r] # None =>
               /\ worker'[execution'[r]].pc \notin {"unused", "register"}
               /\ RunOfDispatch(execution[r])' = r
      PROVE  OnePerRun'
  <2>1. \A e, f \in Dispatches :
          /\ inFlight(e)' /\ inFlight(f)'
          /\ RunOfDispatch(e)' = RunOfDispatch(f)'
          => e = f
    BY <1>1 DEF OnePerRun
  <2> QED BY <1>8, <2>1 DEF OnePerRun, RunOfDispatch
<1>2. UNCHANGED <<abortReq, ctxDone>>
  BY DEF workerStep, registerExecution, finalizeEarlyAbort, noViableAdapter,
     beginAttempts, createAttempt, artifactRootFails, lockConflict, openLock,
     writeOwner, environmentFails, adapterStart, pollStops, pollFinishes,
     collectFails, normalizeResult, startValidations, evaluatePolicy,
     releaseLock, afterAttempt, finalizeStep, createGate, parkStep,
     reconcileRead, reconcileWrite, closeDone, clearExecution, memory
<1>3. worker'[d].pc \notin {"unused", "register"}
  <2> USE <1>0 DEF Goroutines
  <2>1. CASE \/ registerExecution(d) \/ finalizeEarlyAbort(d)
             \/ noViableAdapter(d) \/ beginAttempts(d) \/ openLock(d)
             \/ writeOwner(d) \/ adapterStart(d) \/ pollFinishes(d)
             \/ startValidations(d) \/ releaseLock(d) \/ finalizeStep(d)
             \/ parkStep(d) \/ closeDone(d) \/ clearExecution(d)
    BY <2>1 DEF registerExecution, finalizeEarlyAbort, noViableAdapter,
         beginAttempts, openLock, writeOwner, adapterStart, pollFinishes,
         startValidations, releaseLock, finalizeStep, parkStep, closeDone,
         clearExecution
  <2>2. CASE createAttempt(d) \/ createGate(d)
    BY <2>2 DEF createAttempt, createGate
  <2>3. CASE \/ artifactRootFails(d) \/ lockConflict(d) \/ environmentFails(d)
             \/ pollStops(d) \/ collectFails(d) \/ normalizeResult(d)
    <3>1. ASSUME NEW r, NEW b, NEW p, setResult(d, r, b, p)
          PROVE  worker'[d].pc = p
      BY <3>1 DEF setResult
    <3>2. CASE artifactRootFails(d) \/ lockConflict(d)
      BY <3>1, <3>2 DEF artifactRootFails, lockConflict
    <3>3. CASE environmentFails(d) \/ pollStops(d)
      BY <3>1, <3>3 DEF environmentFails, pollStops
    <3>4. CASE collectFails(d) \/ normalizeResult(d)
      BY <3>1, <3>4 DEF collectFails, normalizeResult
    <3> QED BY <2>3, <3>2, <3>3, <3>4
  <2>4. CASE evaluatePolicy(d)
    BY <2>4 DEF evaluatePolicy
  <2>5. CASE afterAttempt(d)
    BY <2>5 DEF afterAttempt
  <2>6. CASE reconcileRead(d)
    <3>1. PICK v : worker' = [worker EXCEPT ![d] =
                     [@ EXCEPT !.pc = "reconciling", !.seen = v]]
      BY <2>6 DEF reconcileRead
    <3> QED BY <3>1
  <2>7. CASE reconcileWrite(d)
    BY <2>7 DEF reconcileWrite
  <2> QED BY <2>1, <2>2, <2>3, <2>4, <2>5, <2>6, <2>7 DEF workerStep
<1>4. CASE registerExecution(d)
  <2>1. /\ execution' = [execution EXCEPT ![RunOfDispatch(d)] = d]
        /\ worker'[d].pc = "start"
    BY <1>0, <1>4 DEF registerExecution, Goroutines
  <2>2. \A e \in Dispatches : inFlight(e)' /\ worker'[e].pc # "register"
          => execution'[RunOfDispatch(e)'] = e
    <3> SUFFICES ASSUME NEW e \in Dispatches, inFlight(e)',
                        worker'[e].pc # "register", e # d
                 PROVE  execution'[RunOfDispatch(e)'] = e
      BY <1>0, <1>1, <2>1
    <3>1. inFlight(e) /\ worker[e].pc # "register" /\ e # d
      BY <1>1
    <3>2. RunOfDispatch(e) # RunOfDispatch(d)
      BY <1>0, <3>1 DEF OnePerRun
    <3> QED BY <1>0, <1>1, <2>1, <3>1, <3>2 DEF OnePerRun
  <2>3. \A r \in Runs : execution'[r] # None =>
          /\ worker'[execution'[r]].pc \notin {"unused", "register"}
          /\ RunOfDispatch(execution[r])' = r
    <3> SUFFICES ASSUME NEW r \in Runs, execution'[r] # None
                 PROVE  /\ worker'[execution'[r]].pc \notin {"unused", "register"}
                        /\ RunOfDispatch(execution[r])' = r
      OBVIOUS
    <3>1. CASE r = RunOfDispatch(d)
      BY <1>0, <1>1, <2>1, <3>1
    <3>2. CASE r # RunOfDispatch(d)
      <4>1. execution'[r] = execution[r] /\ execution[r] \in Dispatches
        BY <1>0, <2>1, <3>2
      <4> QED BY <1>0, <1>1, <1>3, <3>2, <4>1 DEF OnePerRun, RunOfDispatch
    <3> QED BY <3>1, <3>2
  <2> QED BY <1>2, <1>3, <1>8, <2>2, <2>3
<1>5. CASE clearExecution(d)
  <2>1. /\ execution' = [execution EXCEPT ![RunOfDispatch(d)] = None]
        /\ worker'[d].pc = "done" /\ ~ inFlight(d)'
    BY <1>0, <1>5 DEF clearExecution, Goroutines, inFlight
  <2>2. \A e \in Dispatches : inFlight(e)' /\ worker'[e].pc # "register"
          => execution'[RunOfDispatch(e)'] = e
    <3> SUFFICES ASSUME NEW e \in Dispatches, inFlight(e)',
                        worker'[e].pc # "register"
                 PROVE  execution'[RunOfDispatch(e)'] = e
      OBVIOUS
    <3>1. inFlight(e) /\ worker[e].pc # "register" /\ e # d
      BY <1>1, <2>1
    <3>2. RunOfDispatch(e) # RunOfDispatch(d)
      BY <1>0, <3>1 DEF OnePerRun
    <3> QED BY <1>0, <1>1, <2>1, <3>1, <3>2 DEF OnePerRun
  <2>3. \A r \in Runs : execution'[r] # None =>
          /\ worker'[execution'[r]].pc \notin {"unused", "register"}
          /\ RunOfDispatch(execution[r])' = r
    <3> SUFFICES ASSUME NEW r \in Runs, execution'[r] # None
                 PROVE  /\ worker'[execution'[r]].pc \notin {"unused", "register"}
                        /\ RunOfDispatch(execution[r])' = r
      OBVIOUS
    <3>1. execution'[r] = execution[r] /\ execution[r] \in Dispatches
      BY <1>0, <2>1
    <3> QED BY <1>0, <1>1, <1>3, <3>1 DEF OnePerRun, RunOfDispatch
  <2> QED BY <1>2, <1>3, <1>8, <2>2, <2>3
<1>6. CASE execution' = execution /\ worker[d].pc # "register"
  <2>1. \A e \in Dispatches : inFlight(e)' /\ worker'[e].pc # "register"
          => execution'[RunOfDispatch(e)'] = e
    BY <1>0, <1>1, <1>6 DEF OnePerRun
  <2>2. \A r \in Runs : execution'[r] # None =>
          /\ worker'[execution'[r]].pc \notin {"unused", "register"}
          /\ RunOfDispatch(execution[r])' = r
    <3> SUFFICES ASSUME NEW r \in Runs, execution'[r] # None
                 PROVE  /\ worker'[execution'[r]].pc \notin {"unused", "register"}
                        /\ RunOfDispatch(execution[r])' = r
      OBVIOUS
    <3>1. execution'[r] = execution[r] /\ execution[r] \in Dispatches
      BY <1>0, <1>6
    <3> QED BY <1>0, <1>1, <1>3, <3>1 DEF OnePerRun, RunOfDispatch
  <2> QED BY <1>2, <1>3, <1>8, <2>1, <2>2
<1>7. \/ registerExecution(d) \/ clearExecution(d)
      \/ execution' = execution /\ worker[d].pc # "register"
  BY DEF workerStep, finalizeEarlyAbort, noViableAdapter,
     beginAttempts, createAttempt, artifactRootFails, lockConflict, openLock,
     writeOwner, environmentFails, adapterStart, pollStops, pollFinishes,
     collectFails, normalizeResult, startValidations, evaluatePolicy,
     releaseLock, afterAttempt, finalizeStep, createGate, parkStep,
     reconcileRead, reconcileWrite, closeDone, memory
<1> QED BY <1>2, <1>3, <1>4, <1>5, <1>6, <1>7

attempted(s) == \E d \in Dispatches, n \in 1..MaxAttempts :
                  worker[d].step = s /\ attempt[d][n] # "absent"

\* An attempt that GetLatestByStep returns was made.
LEMMA LatestAttempted ==
  ASSUME NEW s, latestAttempts(s) # {}
  PROVE  attempted(s)
<1>1. PICK a \in Dispatches \X (1..MaxAttempts) :
        worker[a[1]].step = s /\ attempt[a[1]][a[2]] # "absent"
  BY DEF latestAttempts
<1>2. a[1] \in Dispatches /\ a[2] \in 1..MaxAttempts
  BY <1>1
<1> QED BY <1>1, <1>2 DEF attempted

\* A goroutine completes a step only after an attempt of its own.
LEMMA WorkerCompletes ==
  ASSUME IInv, OnePerRun, NEW d \in Dispatches, madeAttempt(d), workerStep(d),
         NEW s \in Steps, stepState'[s] \in SuccessStates
  PROVE  \/ stepState[s] \in SuccessStates
         \/ s = worker[d].step /\ attempt[d][1] # "absent"
<1>0. /\ TypeOK /\ worker[d] \in Goroutines
      /\ {"failed_bridge", "running", "needs_approval", "collecting_artifacts",
          "validating", "cancelled"} \cap SuccessStates = {}
      /\ inFlight(d) /\ RunOfDispatch(d) \in Runs
  BY GoroutineStep, RunServiceConstants DEF IInv, TypeOK, SuccessStates,
       WorkerOK, wellFormedWorker, inFlight, RunOfDispatch
<1>1. CASE finalizeStep(d)
  <2>1. /\ stepState' = [stepState EXCEPT ![worker[d].step] = finalizing(d)]
        /\ worker[d].pc = "finalize"
    BY <1>1 DEF finalizeStep
  <2>2. CASE worker[d].res # "none"
    BY <1>0, <2>1, <2>2 DEF madeAttempt, TypeOK
  <2>3. CASE worker[d].res = "none"
    <3>1. isAbortRequested(RunOfDispatch(d))
      <4>1. execution[RunOfDispatch(d)] = d /\ abortReq[d] /\ d # None
        BY <1>0, <2>1, <2>3, RunServiceConstants DEF madeAttempt, OnePerRun
      <4> QED BY <4>1 DEF isAbortRequested
    <3>2. finalizing(d) = "cancelled"
      BY <2>3, <3>1 DEF finalizing, finalStepState
    <3> QED BY <1>0, <2>1, <3>2 DEF TypeOK
  <2> QED BY <2>2, <2>3
<1>2. CASE noViableAdapter(d) \/ beginAttempts(d) \/ parkStep(d)
  BY <1>0, <1>2 DEF noViableAdapter, beginAttempts, parkStep, TypeOK
<1>3. CASE pollFinishes(d) \/ startValidations(d)
  BY <1>0, <1>3 DEF pollFinishes, startValidations, updateStep, TypeOK
<1>4. CASE createGate(d)
  BY <1>0, <1>4 DEF createGate, TypeOK
<1>5. CASE stepState' = stepState
  BY <1>5
<1> QED
  BY <1>1, <1>2, <1>3, <1>4, <1>5 DEF workerStep, registerExecution,
     finalizeEarlyAbort, createAttempt, artifactRootFails, lockConflict,
     openLock, writeOwner, environmentFails, adapterStart, pollStops,
     collectFails, normalizeResult, evaluatePolicy, releaseLock, afterAttempt,
     reconcileRead, reconcileWrite, closeDone, clearExecution, rows

\* The goroutines preserve the invariant about attempts.
LEMMA WorkerAttempts ==
  ASSUME IInv, AttemptInv, NEW d \in Dispatches, workerStep(d)
  PROVE  AttemptInv'
<1>0. /\ worker \in [Dispatches -> Goroutines]
      /\ worker' = [worker EXCEPT ![d] = worker'[d]]
      /\ worker'[d].step = worker[d].step
      /\ inFlight(d) /\ client' = client
      /\ 1 \in 1..MaxAttempts
  BY GoroutineStep, WorkerFrame, RunServiceConstants DEF IInv, TypeOK
<1>1. /\ OnePerRun /\ CancelIsFlagged /\ CompletedWasAttempted
      /\ \A e \in Dispatches : madeAttempt(e)
  BY DEF AttemptInv
<1>2. /\ OnePerRun' /\ worker'[d].pc \notin {"unused", "register"}
      /\ abortReq' = abortReq /\ ctxDone' = ctxDone
  BY <1>1, WorkerOnePerRun
<1>3. /\ madeAttempt(d)'
      /\ \A e \in Dispatches, n \in 1..MaxAttempts :
           attempt[e][n] # "absent" => attempt'[e][n] # "absent"
  BY <1>1, WorkerMade
<1>4. \A e \in Dispatches : /\ worker'[e].step = worker[e].step
                            /\ e # d => worker'[e] = worker[e]
  BY <1>0
<1>5. CancelIsFlagged'
  <2>1. \A e \in Dispatches :
          worker[e].pc \notin {"unused", "register"} =>
            worker'[e].pc \notin {"unused", "register"}
    BY <1>2, <1>4
  <2>2. \A e \in Dispatches : inFlight(e)' => inFlight(e)
    BY <1>0, <1>4 DEF inFlight
  <2>3. \A c \in Clients : client'[c].pc = "signal" =>
          /\ client'[c].disp \in Dispatches
          /\ worker'[client'[c].disp].pc \notin {"unused", "register"}
          /\ RunOfDispatch(client[c].disp)' = client'[c].run
    BY <1>0, <1>1, <1>4, <2>1 DEF CancelIsFlagged, RunOfDispatch
  <2>4. \A e \in Dispatches : ctxDone'[e] =>
          /\ worker'[e].pc \notin {"unused", "register"}
          /\ inFlight(e)' => abortReq'[e]
    BY <1>1, <1>2, <2>1, <2>2 DEF CancelIsFlagged
  <2> QED BY <2>3, <2>4 DEF CancelIsFlagged
<1>6. \A e \in Dispatches : madeAttempt(e)'
  <2> SUFFICES ASSUME NEW e \in Dispatches, e # d PROVE madeAttempt(e)'
    BY <1>3
  <2>1. worker'[e] = worker[e] /\ madeAttempt(e)
    BY <1>1, <1>4
  <2> QED BY <1>0, <1>2, <1>3, <2>1 DEF madeAttempt, attempting
<1>7. CompletedWasAttempted'
  <2> SUFFICES ASSUME NEW s \in Steps, stepState'[s] \in SuccessStates
               PROVE  \E e \in Dispatches, n \in 1..MaxAttempts :
                        worker'[e].step = s /\ attempt'[e][n] # "absent"
    BY DEF CompletedWasAttempted
  <2>1. CASE stepState[s] \in SuccessStates
    BY <1>1, <1>3, <1>4, <2>1 DEF CompletedWasAttempted
  <2>2. CASE s = worker[d].step /\ attempt[d][1] # "absent"
    BY <1>0, <1>3, <2>2
  <2> QED BY <1>1, <2>1, <2>2, WorkerCompletes
<1> QED BY <1>2, <1>5, <1>6, <1>7 DEF AttemptInv

\* What leaves the goroutines, their attempts, the executions map, the flags and
\* the contexts alone preserves the invariant, if it completes no step that was
\* not attempted.
LEMMA KeptAttempts ==
  ASSUME AttemptInv,
         UNCHANGED <<worker, attempt, execution, abortReq, ctxDone>>,
         \A c \in Clients : client'[c].pc = "signal" =>
           /\ client'[c].disp \in Dispatches
           /\ worker[client'[c].disp].pc \notin {"unused", "register"}
           /\ RunOfDispatch(client'[c].disp) = client'[c].run,
         \A s \in Steps : stepState'[s] \in SuccessStates => attempted(s)
  PROVE  AttemptInv'
<1>1. OnePerRun'
  BY DEF AttemptInv, OnePerRun, inFlight, RunOfDispatch
<1>2. CancelIsFlagged'
  BY DEF AttemptInv, CancelIsFlagged, inFlight, RunOfDispatch
<1>3. \A d \in Dispatches : madeAttempt(d)'
  BY DEF AttemptInv, madeAttempt, attempting
<1>4. CompletedWasAttempted'
  BY DEF CompletedWasAttempted, attempted
<1> QED BY <1>1, <1>2, <1>3, <1>4 DEF AttemptInv

\* reconcileRunSteps completes a step only on the evidence of an attempt.
LEMMA SalvageAttempted ==
  ASSUME CompletedWasAttempted, NEW R, NEW ss, NEW gg, salvage(R, ss, gg),
         NEW s \in Steps, ss[s] \in SuccessStates
  PROVE  attempted(s)
<1> DEFINE marks == {t \in UNION {StepsOf(r) : r \in R} : unsettled(t)}
<1>1. PICK f \in [marks -> StepStates] :
        /\ \A t \in marks : f[t] \in salvageStates(t)
        /\ ss = [t \in Steps |-> IF t \in marks THEN f[t] ELSE stepState[t]]
  BY DEF salvage
<1> HIDE DEF marks
<1>2. CASE s \in marks
  <2>1. ss[s] \in salvageStates(s)
    BY <1>1, <1>2
  <2>2. ss[s] \notin {"needs_approval", "needs_manual_attention"}
    BY DEF SuccessStates
  <2>3. latestAttempts(s) # {}
    BY <2>1, <2>2 DEF salvageStates
  <2> QED BY <2>3, LatestAttempted
<1>3. CASE s \notin marks
  BY <1>1, <1>3 DEF CompletedWasAttempted, attempted
<1> QED BY <1>2, <1>3

\* requestAbort and cancel preserve the invariant: the entry that is flagged is
\* the one whose context is cancelled, as long as that goroutine runs.
LEMMA SignalAttempts ==
  ASSUME IInv, AttemptInv, NEW c \in Clients, abortSignal(c)
  PROVE  AttemptInv'
<1> DEFINE d == client[c].disp
           r == client[c].run
<1>0. /\ OnePerRun /\ CancelIsFlagged /\ CompletedWasAttempted
      /\ \A e \in Dispatches : madeAttempt(e)
      /\ client \in [Clients -> Handlers]
      /\ abortReq \in [Dispatches -> BOOLEAN]
      /\ ctxDone \in [Dispatches -> BOOLEAN]
  BY DEF AttemptInv, IInv, TypeOK
<1>1. /\ d \in Dispatches /\ RunOfDispatch(d) = r
      /\ worker[d].pc \notin {"unused", "register"}
  BY <1>0 DEF abortSignal, CancelIsFlagged
<1>2. /\ UNCHANGED <<worker, attempt, execution, stepState>>
      /\ ctxDone' = [ctxDone EXCEPT ![d] = TRUE]
      /\ abortReq' = IF execution[r] = None THEN abortReq
                     ELSE [abortReq EXCEPT ![execution[r]] = TRUE]
      /\ client' = [client EXCEPT ![c].pc = "waiting"]
  BY DEF abortSignal, rows
<1>3. inFlight(d) => abortReq'[d]
  <2>1. inFlight(d) => execution[r] = d /\ d # None
    BY <1>0, <1>1, RunServiceConstants DEF OnePerRun
  <2> QED BY <1>0, <1>1, <1>2, <2>1
<1>4. \A e \in Dispatches : abortReq[e] => abortReq'[e]
  BY <1>0, <1>2
<1>5. \A e \in Clients : client'[e].pc = "signal" => client'[e] = client[e]
  BY <1>0, <1>2 DEF Handlers
<1> HIDE DEF d, r
<1>6. OnePerRun'
  BY <1>0, <1>2 DEF OnePerRun, inFlight, RunOfDispatch
<1>7. CancelIsFlagged'
  <2>1. \A e \in Clients : client'[e].pc = "signal" =>
          /\ client'[e].disp \in Dispatches
          /\ worker'[client'[e].disp].pc \notin {"unused", "register"}
          /\ RunOfDispatch(client[e].disp)' = client'[e].run
    BY <1>0, <1>2, <1>5 DEF CancelIsFlagged, RunOfDispatch
  <2>2. \A e \in Dispatches : ctxDone'[e] =>
          /\ worker'[e].pc \notin {"unused", "register"}
          /\ inFlight(e)' => abortReq'[e]
    <3> SUFFICES ASSUME NEW e \in Dispatches, ctxDone'[e]
                 PROVE  /\ worker'[e].pc \notin {"unused", "register"}
                        /\ inFlight(e)' => abortReq'[e]
      OBVIOUS
    <3>1. inFlight(e)' <=> inFlight(e)
      BY <1>2 DEF inFlight
    <3>2. CASE e = d
      BY <1>1, <1>2, <1>3, <3>1, <3>2
    <3>3. CASE e # d
      <4>1. ctxDone[e]
        BY <1>0, <1>2, <3>3
      <4> QED BY <1>0, <1>2, <1>4, <3>1, <4>1 DEF CancelIsFlagged
    <3> QED BY <3>2, <3>3
  <2> QED BY <2>1, <2>2 DEF CancelIsFlagged
<1>8. \A e \in Dispatches : madeAttempt(e)'
  BY <1>0, <1>2, <1>4 DEF madeAttempt, attempting
<1>9. CompletedWasAttempted'
  BY <1>0, <1>2 DEF CompletedWasAttempted
<1> QED BY <1>6, <1>7, <1>8, <1>9 DEF AttemptInv

\* The handlers preserve the invariant.
LEMMA HandlerAttempts ==
  ASSUME IInv, AttemptInv, NEW c \in Clients, handlerStep(c)
  PROVE  AttemptInv'
<1>0. /\ CancelIsFlagged /\ CompletedWasAttempted /\ TypeOK
      /\ client \in [Clients -> Handlers]
      /\ client' = [client EXCEPT ![c] = client'[c]]
  BY HandlerLocal DEF AttemptInv, IInv, TypeOK
<1>1. CASE abortSignal(c)
  BY <1>1, SignalAttempts
<1>2. CASE ~ abortSignal(c)
  <2>1. /\ UNCHANGED <<worker, attempt, execution, abortReq, ctxDone>>
        /\ client'[c].pc # "signal"
    <3> USE <1>0 DEF Handlers
    <3>1. CASE abortOrphans(c) \/ retryDispatched(c) \/ writeVerdict(c)
      BY <3>1 DEF abortOrphans, retryDispatched, writeVerdict, rows, memory
    <3>2. CASE abortOutcome(c)
      <4>1. PICK p \in {"aborted", "done"} :
              client' = [client EXCEPT ![c].pc = p]
        BY <3>2 DEF abortOutcome
      <4>2. client'[c].pc # "signal"
        BY <4>1
      <4> QED BY <3>2, <4>2 DEF abortOutcome, rows, memory
    <3>3. CASE clientReconcileRead(c)
      <4>1. PICK v : client' = [client EXCEPT ![c] =
                                  [@ EXCEPT !.pc = "reconciling", !.seen = v]]
        BY <3>3 DEF clientReconcileRead
      <4>2. client'[c].pc # "signal"
        BY <4>1
      <4> QED BY <3>3, <4>2 DEF clientReconcileRead, rows, memory
    <3>4. CASE clientReconcileWrite(c)
      BY <3>4 DEF clientReconcileWrite, memory
    <3>5. CASE restoreStep(c) \/ recoverSteps(c)
      BY <3>5 DEF restoreStep, recoverSteps, memory
    <3> QED BY <1>2, <3>1, <3>2, <3>3, <3>4, <3>5 DEF handlerStep
  <2>2. \A e \in Clients : client'[e].pc = "signal" =>
          /\ client'[e].disp \in Dispatches
          /\ worker[client'[e].disp].pc \notin {"unused", "register"}
          /\ RunOfDispatch(client'[e].disp) = client'[e].run
    BY <1>0, <2>1 DEF CancelIsFlagged
  <2>3. ASSUME NEW s \in Steps, stepState'[s] \in SuccessStates
        PROVE  attempted(s)
    <3>1. CASE stepState[s] \in SuccessStates
      BY <1>0, <3>1 DEF CompletedWasAttempted, attempted
    <3>2. CASE abortOrphans(c)
      BY <2>3, <3>1, <3>2 DEF abortOrphans, SuccessStates
    <3>3. CASE restoreStep(c)
      <4> DEFINE t == GateStep(client[c].gate)
      <4>1. PICK v \in restoreStates(t) \cup {"cancelled"} :
              stepState' = [stepState EXCEPT ![t] = v]
        BY <3>3 DEF restoreStep
      <4>2. CASE s = t
        <5>1. v = stepState'[s]
          BY <1>0, <4>1, <4>2 DEF TypeOK
        <5>2. latestAttempts(t) # {}
          BY <2>3, <4>1, <5>1 DEF restoreStates, SuccessStates
        <5> QED BY <4>2, <5>2, LatestAttempted
      <4>3. CASE s # t
        BY <1>0, <2>3, <3>1, <4>1, <4>3 DEF TypeOK
      <4> QED BY <4>2, <4>3
    <3>4. CASE recoverSteps(c)
      BY <1>0, <2>3, <3>4, SalvageAttempted DEF recoverSteps
    <3>5. CASE stepState' = stepState
      BY <2>3, <3>1, <3>5
    <3> QED
      BY <1>2, <3>2, <3>3, <3>4, <3>5 DEF handlerStep, abortOutcome,
           retryDispatched, clientReconcileRead, clientReconcileWrite,
           writeVerdict, rows
  <2> QED BY <2>1, <2>2, <2>3, KeptAttempts
<1> QED BY <1>1, <1>2

\* A caller that waits for the run's goroutine dispatches a step preserving the
\* invariant.
LEMMA InitializeAttempts ==
  ASSUME IInv, AttemptInv, Pacing = "goroutine", NEW d \in Dispatches,
         NEW s \in Steps, initializeStep(d, s), returned(RunOf[s]),
         UNCHANGED <<attempt, execution, abortReq, ctxDone>>,
         \A c \in Clients : client'[c] = client[c] \/ client'[c].pc # "signal"
  PROVE  AttemptInv'
<1> DEFINE w == [idleWorker EXCEPT !.pc = "register", !.step = s]
<1>0. /\ worker \in [Dispatches -> Goroutines]
      /\ worker' = [worker EXCEPT ![d] = w]
      /\ worker[d].pc = "unused" /\ ~ inFlight(d)
      /\ execution \in [Runs -> Dispatches \cup {None}]
      /\ stepState \in [Steps -> StepStates \cup {"absent"}]
      /\ RunOf[s] \in Runs
  BY RunServiceConstants DEF initializeStep, IInv, TypeOK, inFlight
<1>1. /\ OnePerRun /\ CancelIsFlagged /\ CompletedWasAttempted
      /\ \A e \in Dispatches : madeAttempt(e)
  BY DEF AttemptInv
<1>2. /\ w.pc = "register" /\ w.step = s /\ w.res = "none" /\ w.num = 1
  BY DEF idleWorker
<1> HIDE DEF w
<1>3. /\ worker'[d] = w
      /\ \A e \in Dispatches \ {d} : /\ worker'[e] = worker[e]
                                     /\ RunOfDispatch(e)' = RunOfDispatch(e)
                                     /\ inFlight(e)' <=> inFlight(e)
      /\ RunOfDispatch(d)' = RunOf[s]
  BY <1>0, <1>2 DEF RunOfDispatch, inFlight
<1>4. \A e \in Dispatches : inFlight(e) => RunOfDispatch(e) # RunOf[s]
  BY DEF returned
<1>5. ~ ctxDone[d] /\ \A r \in Runs : execution[r] # d
  BY <1>0, <1>1, RunServiceConstants DEF CancelIsFlagged, OnePerRun
<1>6. OnePerRun'
  <2>1. \A e, f \in Dispatches :
          /\ inFlight(e)' /\ inFlight(f)'
          /\ RunOfDispatch(e)' = RunOfDispatch(f)'
          => e = f
    BY <1>1, <1>3, <1>4 DEF OnePerRun
  <2>2. \A e \in Dispatches : inFlight(e)' /\ worker'[e].pc # "register"
          => execution'[RunOfDispatch(e)'] = e
    BY <1>1, <1>2, <1>3 DEF OnePerRun
  <2>3. \A r \in Runs : execution'[r] # None =>
          /\ worker'[execution'[r]].pc \notin {"unused", "register"}
          /\ RunOfDispatch(execution[r])' = r
    BY <1>0, <1>1, <1>3, <1>5 DEF OnePerRun, RunOfDispatch
  <2> QED BY <2>1, <2>2, <2>3 DEF OnePerRun, RunOfDispatch
<1>7. CancelIsFlagged'
  <2>1. \A c \in Clients : client'[c].pc = "signal" =>
          /\ client'[c].disp \in Dispatches
          /\ worker'[client'[c].disp].pc \notin {"unused", "register"}
          /\ RunOfDispatch(client[c].disp)' = client'[c].run
    BY <1>0, <1>1, <1>3 DEF CancelIsFlagged, RunOfDispatch
  <2>2. \A e \in Dispatches : ctxDone'[e] =>
          /\ worker'[e].pc \notin {"unused", "register"}
          /\ inFlight(e)' => abortReq'[e]
    BY <1>1, <1>3, <1>5 DEF CancelIsFlagged
  <2> QED BY <2>1, <2>2 DEF CancelIsFlagged
<1>8. \A e \in Dispatches : madeAttempt(e)'
  BY <1>1, <1>2, <1>3 DEF madeAttempt, attempting
<1>9. CompletedWasAttempted'
  <2> SUFFICES ASSUME NEW t \in Steps, stepState'[t] \in SuccessStates
               PROVE  \E e \in Dispatches, n \in 1..MaxAttempts :
                        worker'[e].step = t /\ attempt'[e][n] # "absent"
    BY DEF CompletedWasAttempted
  <2>1. stepState[t] \in SuccessStates
    BY <1>0 DEF initializeStep, SuccessStates
  <2>2. PICK e \in Dispatches, n \in 1..MaxAttempts :
          worker[e].step = t /\ attempt[e][n] # "absent"
    BY <1>1, <2>1 DEF CompletedWasAttempted
  <2>3. e # d
    BY <1>0, <1>1, <2>2 DEF madeAttempt
  <2> QED BY <1>3, <2>2, <2>3
<1> QED BY <1>6, <1>7, <1>8, <1>9 DEF AttemptInv

\* A new request preserves the invariant.
LEMMA RequestAttempts ==
  ASSUME IInv, AttemptInv, Pacing = "goroutine", NEW c \in Clients, request(c)
  PROVE  AttemptInv'
<1>0. /\ OnePerRun /\ CancelIsFlagged /\ CompletedWasAttempted
      /\ client \in [Clients -> Handlers]
      /\ execution \in [Runs -> Dispatches \cup {None}]
  BY DEF AttemptInv, IInv, TypeOK
<1>1. ASSUME NEW h, client' = [client EXCEPT ![c] = h],
             h.pc = "signal" =>
               /\ h.disp \in Dispatches
               /\ worker[h.disp].pc \notin {"unused", "register"}
               /\ RunOfDispatch(h.disp) = h.run,
             UNCHANGED <<stepState, attempt, memory, worker>>
      PROVE  AttemptInv'
  <2>1. \A e \in Clients : client'[e].pc = "signal" =>
          /\ client'[e].disp \in Dispatches
          /\ worker[client'[e].disp].pc \notin {"unused", "register"}
          /\ RunOfDispatch(client'[e].disp) = client'[e].run
    BY <1>0, <1>1 DEF CancelIsFlagged
  <2>2. \A s \in Steps : stepState'[s] \in SuccessStates => attempted(s)
    BY <1>0, <1>1 DEF CompletedWasAttempted, attempted
  <2> QED BY <1>1, <2>1, <2>2, KeptAttempts DEF memory
<1>2. ASSUME NEW r \in Runs, AbortRun(c, r) PROVE AttemptInv'
  <2>1. CASE execution[r] # None
    <3> DEFINE h == [idleClient EXCEPT !.pc = "signal", !.run = r,
                                       !.disp = execution[r]]
    <3>1. h.run = r /\ h.disp = execution[r]
      BY DEF idleClient
    <3>2. /\ client' = [client EXCEPT ![c] = h]
          /\ UNCHANGED <<rows, lock, memory, worker>>
      BY <1>2, <2>1 DEF AbortRun
    <3> HIDE DEF h
    <3>3. /\ h.disp \in Dispatches
          /\ worker[h.disp].pc \notin {"unused", "register"}
          /\ RunOfDispatch(h.disp) = h.run
      BY <1>0, <2>1, <3>1 DEF OnePerRun
    <3> QED BY <1>1, <3>2, <3>3 DEF rows
  <2>2. CASE execution[r] = None
    <3>1. PICK m : /\ client' = [client EXCEPT ![c] = [idleClient EXCEPT
                                  !.pc = "orphans", !.run = r, !.marks = m]]
                   /\ UNCHANGED <<rows, lock, memory, worker>>
      BY <1>2, <2>2 DEF AbortRun
    <3>2. [idleClient EXCEPT !.pc = "orphans", !.run = r, !.marks = m].pc
            # "signal"
      BY DEF idleClient
    <3> QED BY <1>1, <3>1, <3>2 DEF rows
  <2> QED BY <2>1, <2>2
<1>3. ASSUME NEW r \in Runs, RecoverRun(c, r) PROVE AttemptInv'
  <2> DEFINE seen == derivedState(r)
             h == IF \E s \in StepsOf(r) : stepState[s] \in ActiveStates
                    THEN [idleClient EXCEPT !.pc = "salvaging", !.run = r]
                    ELSE [idleClient EXCEPT !.pc = "reconciling", !.run = r,
                                            !.seen = seen]
  <2> HIDE DEF seen
  <2>2. h.pc # "signal"
    BY DEF idleClient
  <2>3. /\ client' = [client EXCEPT ![c] = h]
        /\ UNCHANGED <<rows, lock, memory, worker>>
    BY <1>3 DEF RecoverRun, seen
  <2> HIDE DEF h
  <2> QED BY <1>1, <2>2, <2>3 DEF rows
<1>4. ASSUME NEW r \in Runs, ResumeRun(c, r) PROVE AttemptInv'
  <2> DEFINE h == [client[c] EXCEPT !.pc = "done"]
  <2>1. h.pc # "signal"
    BY <1>0 DEF Handlers
  <2>2. /\ client' = [client EXCEPT ![c] = h]
        /\ UNCHANGED <<stepState, attempt, gate, lock, memory, worker>>
    BY <1>4 DEF ResumeRun
  <2> HIDE DEF h
  <2> QED BY <1>1, <2>1, <2>2
<1>5. ASSUME NEW d \in Dispatches, NEW s \in Steps, RetryStep(c, d, s)
      PROVE  AttemptInv'
  <2> DEFINE h == [idleClient EXCEPT !.pc = "retrying", !.run = RunOf[s],
                                     !.disp = d]
  <2>1. h.pc # "signal"
    BY DEF idleClient
  <2>2. /\ initializeStep(d, s) /\ returned(RunOf[s])
        /\ client' = [client EXCEPT ![c] = h]
        /\ UNCHANGED <<runState, attempt, gate, lock, memory>>
    BY <1>5 DEF RetryStep
  <2> HIDE DEF h
  <2>3. \A e \in Clients : client'[e] = client[e] \/ client'[e].pc # "signal"
    BY <1>0, <2>1, <2>2
  <2> QED BY <2>2, <2>3, InitializeAttempts DEF memory
<1>6. ASSUME NEW g \in GateIDs, NEW v \in {"approved", "rejected"},
             resolveGate(c, g, v)
      PROVE  AttemptInv'
  <2> DEFINE h == [idleClient EXCEPT !.pc = "resolving",
                     !.run = RunOf[GateStep(g)], !.gate = g, !.verdict = v]
  <2>1. h.pc # "signal"
    BY DEF idleClient
  <2>2. /\ client' = [client EXCEPT ![c] = h]
        /\ UNCHANGED <<rows, lock, memory, worker>>
    BY <1>6 DEF resolveGate
  <2> HIDE DEF h
  <2> QED BY <1>1, <2>1, <2>2 DEF rows
<1>7. CASE disconnect(c)
  <2> DEFINE h == [idleClient EXCEPT !.pc = "done"]
  <2>1. h.pc # "signal"
    BY DEF idleClient
  <2>2. /\ client' = [client EXCEPT ![c] = h]
        /\ UNCHANGED <<rows, lock, memory, worker>>
    BY <1>7 DEF disconnect
  <2> HIDE DEF h
  <2> QED BY <1>1, <2>1, <2>2 DEF rows
<1> QED
  BY <1>2, <1>3, <1>4, <1>5, <1>6, <1>7 DEF request

\* A crash preserves the invariant: the entries are gone with the goroutines.
LEMMA CrashAttempts ==
  ASSUME IInv, AttemptInv, Crash
  PROVE  AttemptInv'
<1>0. /\ OnePerRun /\ CancelIsFlagged /\ CompletedWasAttempted
      /\ \A e \in Dispatches : madeAttempt(e)
      /\ worker \in [Dispatches -> Goroutines]
  BY DEF AttemptInv, IInv, TypeOK
<1>1. /\ UNCHANGED <<stepState, attempt, abortReq, ctxDone>>
      /\ execution' = [r \in Runs |-> None]
  BY DEF Crash, rows
<1>2. ASSUME NEW d \in Dispatches
      PROVE  /\ worker'[d].step = worker[d].step
             /\ worker'[d].res = worker[d].res
             /\ worker'[d].num = worker[d].num
             /\ worker'[d].pc \in {"unused", "done", "dead"}
             /\ worker'[d].pc = "unused" <=> worker[d].pc = "unused"
  <2>1. CASE worker[d].pc \in {"unused", "done"}
    BY <2>1 DEF Crash
  <2>2. CASE worker[d].pc \notin {"unused", "done"}
    <3>1. worker'[d] = [worker[d] EXCEPT !.pc = "dead", !.seen = None]
      BY <2>2 DEF Crash
    <3> QED BY <1>0, <2>2, <3>1 DEF Goroutines
  <2> QED BY <2>1, <2>2
<1>3. \A c \in Clients : client'[c].pc # "signal"
  <2>1. [idleClient EXCEPT !.pc = "dead"].pc = "dead"
    BY DEF idleClient
  <2> QED BY <2>1 DEF Crash
<1>4. \A d \in Dispatches : ~ inFlight(d)'
  BY <1>2 DEF inFlight
<1>5. OnePerRun'
  BY <1>1, <1>4 DEF OnePerRun
<1>6. CancelIsFlagged'
  BY <1>0, <1>1, <1>2, <1>3, <1>4 DEF CancelIsFlagged
<1>7. \A d \in Dispatches : madeAttempt(d)'
  BY <1>0, <1>1, <1>2 DEF madeAttempt, attempting
<1>8. CompletedWasAttempted'
  BY <1>0, <1>1, <1>2 DEF CompletedWasAttempted
<1> QED BY <1>5, <1>6, <1>7, <1>8 DEF AttemptInv

\* Every step preserves the invariant.
LEMMA NextAttempts ==
  ASSUME Pacing = "goroutine"
  PROVE  IInv /\ AttemptInv /\ [Next]_vars => AttemptInv'
<1> SUFFICES ASSUME IInv, AttemptInv, [Next]_vars PROVE AttemptInv'
  OBVIOUS
<1>0. CancelIsFlagged /\ CompletedWasAttempted
  BY DEF AttemptInv
<1>1. ASSUME UNCHANGED <<worker, attempt, execution, abortReq, ctxDone>>,
             client' = client,
             \A s \in Steps : stepState'[s] \in SuccessStates => attempted(s)
      PROVE  AttemptInv'
  BY <1>0, <1>1, KeptAttempts DEF CancelIsFlagged
<1>2. \A s \in Steps : stepState[s] \in SuccessStates => attempted(s)
  BY <1>0 DEF CompletedWasAttempted, attempted
<1>3. ASSUME NEW r \in Runs, startRunCreate(r) \/ startRunActivate(r)
      PROVE  AttemptInv'
  BY <1>1, <1>2, <1>3 DEF startRunCreate, startRunActivate
<1>4. ASSUME NEW d \in Dispatches, NEW s \in Steps, DispatchStepAsync(d, s)
      PROVE  AttemptInv'
  BY <1>4, InitializeAttempts DEF DispatchStepAsync, memory
<1>5. ASSUME NEW d \in Dispatches, workerStep(d)
      PROVE  AttemptInv'
  BY <1>5, WorkerAttempts
<1>6. ASSUME NEW c \in Clients, handlerStep(c)
      PROVE  AttemptInv'
  BY <1>6, HandlerAttempts
<1>7. ASSUME NEW c \in Clients, request(c)
      PROVE  AttemptInv'
  BY <1>7, RequestAttempts
<1>8. CASE Crash
  BY <1>8, CrashAttempts
<1>9. CASE SweepStaleRuns
  <2>1. /\ UNCHANGED <<worker, attempt, execution, abortReq, ctxDone, client>>
        /\ salvage({r \in Runs : runState[r] = "running"}, stepState', gate')
    BY <1>9 DEF SweepStaleRuns
  <2>2. \A s \in Steps : stepState'[s] \in SuccessStates => attempted(s)
    BY <1>0, <2>1, SalvageAttempted
  <2> QED BY <1>1, <2>1, <2>2
<1>10. CASE UNCHANGED vars
  BY <1>1, <1>2, <1>10 DEF vars, rows, memory
<1> QED
  BY <1>3, <1>4, <1>5, <1>6, <1>7, <1>8, <1>9, <1>10 DEF Next

\* With callers that let a run's goroutine return before they use the run again,
\* no abort, retry, verdict, recovery or crash makes finalizeStep, resolve or
\* reconcileRunSteps report a step as completed that no attempt was made for.
THEOREM CompletionNeedsAnAttempt ==
  ASSUME Pacing = "goroutine"
  PROVE  Spec => []CompletedWasAttempted
<1>1. Init => AttemptInv
  <2> SUFFICES ASSUME Init PROVE AttemptInv
    OBVIOUS
  <2>1. /\ idleWorker.step = None /\ idleWorker.pc = "unused"
        /\ idleWorker.res = "none" /\ idleWorker.num = 1
        /\ idleClient.pc = "idle"
    BY DEF idleWorker, idleClient
  <2>2. \A d \in Dispatches : ~ inFlight(d)
    BY <2>1 DEF Init, inFlight
  <2>3. OnePerRun
    BY <2>2 DEF Init, OnePerRun
  <2>4. CancelIsFlagged
    BY <2>1 DEF Init, CancelIsFlagged
  <2>5. \A d \in Dispatches : madeAttempt(d)
    BY <2>1, RunServiceConstants DEF Init, madeAttempt, attempting
  <2>6. CompletedWasAttempted
    BY DEF Init, CompletedWasAttempted, SuccessStates
  <2> QED BY <2>3, <2>4, <2>5, <2>6 DEF AttemptInv
<1>2. IInv /\ AttemptInv /\ [Next]_vars => AttemptInv'
  BY NextAttempts
<1>3. AttemptInv => CompletedWasAttempted
  BY DEF AttemptInv
<1> QED BY <1>1, <1>2, <1>3, Invariance, PTL DEF Spec

-----------------------------------------------------------------------------
(***************************************************************************)
(* RunService implements WorkspaceMutex, by the invariant above.           *)
(***************************************************************************)
\* The goroutines between AcquireLock and Release.
inside == {d \in Dispatches : holding(d)}

\* Every step of the run service is a step of the mutex or leaves `inside' alone.
LEMMA MutexStep ==
  ASSUME IInv, IInv', [Next]_vars
  PROVE  [Mutex!Next]_inside
<1>0. /\ worker \in [Dispatches -> Goroutines]
      /\ WorkerOK
  BY DEF IInv, TypeOK
<1>1. ASSUME NEW d \in Dispatches, workerStep(d)
      PROVE  [Mutex!Next]_inside
  <2>1. \A e \in Dispatches \ {d} : worker'[e] = worker[e]
    BY <1>1, GoroutineStep DEF IInv, TypeOK
  <2>2. CASE openLock(d)
    <3>1. ~ holding(d) /\ holding(d)'
      BY <1>0, <2>2 DEF openLock, holding, Goroutines
    <3>2. inside' = {d}
      BY <3>1 DEF inside, IInv, WorkspaceExclusive
    <3>3. inside = {}
      BY <3>1, <2>1, <3>2 DEF inside, holding
    <3> QED BY <3>2, <3>3 DEF Mutex!Next, Mutex!AcquireLock, inside
  <2>3. CASE releaseLock(d)
    <3>1. holding(d) /\ ~ holding(d)'
      BY <1>0, <2>3 DEF releaseLock, holding, Goroutines
    <3>2. inside = {d}
      BY <3>1 DEF inside, IInv, WorkspaceExclusive
    <3>3. inside' = {}
      BY <3>1, <2>1, <3>2 DEF inside, holding
    <3> QED BY <3>2, <3>3 DEF Mutex!Next, Mutex!Release, inside
  <2>4. CASE holding(d)' <=> holding(d)
    <3>1. inside' = inside
      BY <2>1, <2>4 DEF inside, holding
    <3> QED BY <3>1
  <2>5. CASE writeOwner(d)
    <3>1. holding(d) /\ holding(d)'
      BY <1>0, <2>5 DEF writeOwner, holding, Goroutines
    <3> QED BY <2>4, <3>1
  <2> QED
    BY <1>1, <2>2, <2>3, <2>4, <2>5, KeepsLock DEF IInv
<1>2. ASSUME NEW d \in Dispatches, NEW s \in Steps, initializeStep(d, s)
      PROVE  inside' = inside
  <2>1. /\ ~ holding(d) /\ ~ holding(d)'
        /\ \A e \in Dispatches \ {d} : worker'[e] = worker[e]
    BY <1>0, <1>2 DEF initializeStep, holding, idleWorker
  <2> QED BY <2>1 DEF inside, holding
<1>3. CASE worker' = worker
  BY <1>3 DEF inside, holding
<1>4. CASE Crash
  <2>1. \A d \in Dispatches : worker'[d].pc \in {"unused", "done", "dead"}
    BY <1>0, <1>4 DEF Crash, Goroutines
  <2>2. inside' = {}
    BY <2>1 DEF inside, holding
  <2> QED BY <2>2 DEF Mutex!Next, Mutex!Release, inside
<1>5. ASSUME NEW c \in Clients, handlerStep(c)
      PROVE  worker' = worker
  BY <1>5 DEF handlerStep, abortOrphans, abortSignal, abortOutcome,
       retryDispatched, clientReconcileRead, clientReconcileWrite, writeVerdict,
       restoreStep, recoverSteps, memory
<1>6. ASSUME NEW c \in Clients, request(c)
      PROVE  worker' = worker \/ inside' = inside
  BY <1>2, <1>6 DEF request, AbortRun, RecoverRun, ResumeRun, RetryStep,
       resolveGate, disconnect
<1>7. ASSUME NEW r \in Runs, startRunCreate(r) \/ startRunActivate(r)
      PROVE  worker' = worker
  BY <1>7 DEF startRunCreate, startRunActivate
<1>8. CASE SweepStaleRuns
  BY <1>3, <1>8 DEF SweepStaleRuns
<1>9. ASSUME NEW d \in Dispatches, NEW s \in Steps, DispatchStepAsync(d, s)
      PROVE  inside' = inside
  BY <1>2, <1>9 DEF DispatchStepAsync
<1>10. CASE UNCHANGED vars
  BY <1>3, <1>10 DEF vars
<1> QED
  BY <1>1, <1>3, <1>4, <1>5, <1>6, <1>7, <1>8, <1>9, <1>10 DEF Next

\* The lock file implements the abstract mutex: the goroutines of all runs,
\* across aborts, recovery requests, crashes and sweeps, enter the workspace one
\* at a time.
THEOREM Refinement == Spec => ImplementsMutex
<1>1. Init => Mutex!Init
  BY DEF Init, Mutex!Init, holding, idleWorker
<1>2. IInv /\ IInv' /\ [Next]_vars => [Mutex!Next]_inside
  BY MutexStep
<1> QED
  BY <1>1, <1>2, Invariance, PTL DEF Spec, ImplementsMutex, Mutex!Spec, inside

-----------------------------------------------------------------------------
(***************************************************************************)
(* Gates and runs while nobody aborts, retries or recovers and the daemon  *)
(* does not crash: the goroutines, verdicts, resumes and callers that go   *)
(* away are all that moves the rows.                                       *)
(***************************************************************************)

\* The requests and the bound on crashes of this section.
Undisturbed == Ops \subseteq {"gate", "resume", "disconnect"} /\ MaxCrashes = 0

\* No context is cancelled, no goroutine is killed, and no gate comes from a
\* recovery.
Quiet ==
  /\ up /\ crashes = 0
  /\ \A d \in Dispatches : ~ abortReq[d] /\ ~ ctxDone[d] /\ worker[d].pc # "dead"
  /\ \A c \in Clients : client[c].pc \in {"idle", "resolving", "resolved",
                                          "reconcile", "reconciling", "done"}
  /\ \A s \in Steps : gate[s] = "absent"
  /\ \A c \in Clients : client[c].pc \in {"resolving", "resolved"} =>
       /\ client[c].gate \in Dispatches
       /\ gate[client[c].gate] # "absent"

\* The goroutine has not yet ended its step.
executing(d) == worker[d].pc \in
  {"register", "start", "loop", "setup", "opened", "locked", "polling",
   "collect", "validate", "validating", "release", "attempted", "finalize"}

\* It has, and is left with the run's row and its own entry.
past(d) == worker[d].pc \in {"reconcile", "reconciling", "closing", "clearing",
                             "done"}

\* The results that attempts have when nobody aborts.
Reports == AdapterResults \cup FailureStates

\* The attempt rows and the results in memory hold nothing else.
Reported ==
  /\ \A d \in Dispatches : worker[d].res \in Reports \cup {"none"}
  /\ \A d \in Dispatches, n \in 1..MaxAttempts :
       attempt[d][n] \in Reports \cup {"absent", "pending", "started"}

\* A step has one dispatch, and until that has a verdict of the policy it is
\* active and without a gate.
OneCycle ==
  /\ \A d \in Dispatches : worker[d].pc = "unused" => worker[d] = idleWorker
  /\ \A d, e \in Dispatches :
       worker[d].step \in Steps /\ worker[d].step = worker[e].step => d = e
  /\ \A s \in Steps : stepState[s] # "absent" <=>
       \E d \in Dispatches : worker[d].step = s
  /\ \A d \in Dispatches : executing(d) =>
       gate[d] = "absent" /\ stepState[worker[d].step] \in ActiveStates

\* What holds in every state of an undisturbed daemon.
CycleInv == Quiet /\ Reported /\ OneCycle

\* What a step of a goroutine may do to the rows then: work on the attempt,
\* end the step, insert its gate, park it, read the run's steps, write the
\* run's row, and return.
stepBecomes(d, v) == stepState' = [stepState EXCEPT ![worker[d].step] = v]

works(d) ==
  /\ executing(d) /\ executing(d)'
  /\ stepState' = stepState \/ \E v \in ActiveStates : stepBecomes(d, v)
  /\ UNCHANGED <<runState, gate>>

ends(d) ==
  /\ executing(d)
  /\ \/ worker'[d].pc = "reconcile"
     \/ worker'[d].pc = "closing" /\ worker[d].step \notin Routable
  /\ \E v \in StepStates \ (ActiveStates \cup {"needs_approval"}) :
       /\ "gate" \in worker[d].eval => v \notin SuccessStates
       /\ stepBecomes(d, v)
  /\ worker'[d].eval = worker[d].eval
  /\ UNCHANGED <<runState, gate>>

gates(d) ==
  /\ executing(d) /\ worker'[d].pc = "gated"
  /\ gate' = [gate EXCEPT ![d] = "pending"]
  /\ UNCHANGED <<runState, stepState>>

parks(d) ==
  /\ worker[d].pc = "gated" /\ worker'[d].pc = "reconcile"
  /\ stepBecomes(d, "needs_approval")
  /\ worker'[d].eval = worker[d].eval
  /\ UNCHANGED <<runState, gate>>

reads(d) ==
  /\ worker[d].pc = "reconcile" /\ worker'[d].pc = "reconciling"
  /\ worker'[d].seen = derivedState(RunOfDispatch(d))
  /\ worker'[d].eval = worker[d].eval
  /\ UNCHANGED <<runState, stepState, gate>>

stores(d) ==
  /\ worker[d].pc = "reconciling" /\ worker'[d].pc = "closing"
  /\ runState' = [runState EXCEPT ![RunOfDispatch(d)] = worker[d].seen]
  /\ worker'[d].eval = worker[d].eval
  /\ UNCHANGED <<stepState, gate>>

leaves(d) ==
  /\ \/ worker[d].pc = "closing" /\ worker'[d].pc = "clearing"
     \/ worker[d].pc = "clearing" /\ worker'[d].pc = "done"
  /\ worker'[d].eval = worker[d].eval
  /\ UNCHANGED <<runState, stepState, gate>>

effect(d) == \/ works(d) \/ ends(d) \/ gates(d) \/ parks(d) \/ reads(d)
             \/ stores(d) \/ leaves(d)

\* No abort is pending in any run.
LEMMA NoAbort ==
  ASSUME IInv, Quiet, NEW d \in Dispatches, inFlight(d)
  PROVE  ~ isAbortRequested(RunOfDispatch(d)) /\ ~ ctxDone[d] /\ ~ aborting(d)
<1>1. RunOfDispatch(d) \in Runs
  BY RunServiceConstants DEF IInv, WorkerOK, wellFormedWorker, inFlight,
       RunOfDispatch
<1>2. execution[RunOfDispatch(d)] \in Dispatches \cup {None}
  BY <1>1 DEF IInv, TypeOK
<1> QED BY <1>2 DEF Quiet, isAbortRequested, aborting

\* The state finalizeStep gives a step that is not aborted and gets no gate.
LEMMA FinalState ==
  ASSUME NEW aborted, ~ aborted, NEW result \in Reports \cup {"none"},
         NEW eval, "gate" \in eval => result = "needs_manual_attention"
  PROVE  /\ finalStepState(aborted, result, eval) \in
              StepStates \ (ActiveStates \cup {"needs_approval"})
         /\ "gate" \in eval =>
              finalStepState(aborted, result, eval) \notin SuccessStates
BY DEF finalStepState, StepStates, SuccessStates, FailureStates, ActiveStates

\* What a goroutine does to the rows is one of the seven effects.
LEMMA GoroutineEffect ==
  ASSUME IInv, CycleInv, NEW d \in Dispatches, workerStep(d)
  PROVE  effect(d)
<1>0. /\ worker \in [Dispatches -> Goroutines]
      /\ worker[d] \in Goroutines
      /\ inFlight(d)
      /\ ~ isAbortRequested(RunOfDispatch(d)) /\ ~ ctxDone[d] /\ ~ aborting(d)
      /\ Reported
  BY GoroutineStep, NoAbort DEF IInv, TypeOK, CycleInv
<1> USE <1>0 DEF Goroutines, rows
<1>1. CASE registerExecution(d)
  BY <1>1 DEF registerExecution, executing, effect, works
<1>2. CASE finalizeEarlyAbort(d)
  BY <1>2 DEF finalizeEarlyAbort
<1>3. CASE noViableAdapter(d)
  BY <1>3, StateNames DEF noViableAdapter, executing, effect, ends, stepBecomes, SuccessStates, ActiveStates
<1>4. CASE beginAttempts(d)
  BY <1>4 DEF beginAttempts, executing, effect, works, stepBecomes, ActiveStates
<1>5. CASE createAttempt(d)
  BY <1>5 DEF createAttempt, executing, effect, works
<1>6. ASSUME NEW r, NEW b, NEW p, setResult(d, r, b, p)
      PROVE  worker'[d].pc = p
  BY <1>6 DEF setResult
<1>7. CASE artifactRootFails(d) \/ lockConflict(d) \/ environmentFails(d)
  BY <1>6, <1>7 DEF artifactRootFails, lockConflict, environmentFails, executing, effect, works
<1>8. CASE openLock(d) \/ writeOwner(d) \/ releaseLock(d)
  BY <1>8 DEF openLock, writeOwner, releaseLock, executing, effect, works
<1>9. CASE adapterStart(d)
  BY <1>9 DEF adapterStart, executing, effect, works
<1>10. CASE pollStops(d) \/ collectFails(d) \/ normalizeResult(d)
  BY <1>6, <1>10 DEF pollStops, collectFails, normalizeResult, executing, effect, works
<1>11. CASE pollFinishes(d) \/ startValidations(d)
  BY <1>11 DEF pollFinishes, startValidations, updateStep, executing, effect, works, stepBecomes, ActiveStates
<1>12. CASE evaluatePolicy(d)
  <2>1. worker'[d].pc = "release"
    BY <1>12 DEF evaluatePolicy
  <2> QED BY <1>12, <2>1 DEF evaluatePolicy, executing, effect, works
<1>13. CASE afterAttempt(d)
  <2>1. worker'[d].pc \in {"loop", "finalize"}
    BY <1>13 DEF afterAttempt
  <2> QED BY <1>13, <2>1 DEF afterAttempt, executing, effect, works
<1>14. CASE finalizeStep(d)
  <2>1. "gate" \in worker[d].eval => worker[d].res = "needs_manual_attention"
    BY <1>14 DEF finalizeStep, gateDue
  <2>3. worker[d].res \in Reports \cup {"none"}
    BY DEF Reported
  <2>4. /\ finalizing(d) \in StepStates \ (ActiveStates \cup {"needs_approval"})
        /\ "gate" \in worker[d].eval => finalizing(d) \notin SuccessStates
    <3>1. ~ isAbortRequested(RunOfDispatch(d))
      OBVIOUS
    <3> HIDE <1>0
    <3> QED BY <2>1, <2>3, <3>1, FinalState DEF finalizing
  <2>5. /\ worker[d].pc = "finalize"
        /\ worker'[d].pc = "reconcile" /\ worker'[d].eval = worker[d].eval
        /\ stepBecomes(d, finalizing(d)) /\ UNCHANGED <<runState, gate>>
    BY <1>14 DEF finalizeStep, stepBecomes
  <2> QED BY <2>4, <2>5 DEF executing, effect, ends
<1>15. CASE createGate(d)
  <2>1. worker[d].pc = "finalize" /\ UNCHANGED runState
    BY <1>15 DEF createGate
  <2>2. CASE /\ gate' = [gate EXCEPT ![d] = "pending"]
             /\ worker' = [worker EXCEPT ![d].pc = "gated"]
             /\ UNCHANGED stepState
    BY <2>1, <2>2 DEF executing, effect, gates
  <2>3. CASE /\ stepState' = [stepState EXCEPT ![worker[d].step] = "failed_bridge"]
             /\ worker' = [worker EXCEPT ![d].pc = "reconcile"]
             /\ UNCHANGED gate
    BY <2>1, <2>3, StateNames DEF executing, effect, ends, stepBecomes, SuccessStates, ActiveStates
  <2> QED BY <1>15, <2>2, <2>3 DEF createGate
<1>16. CASE parkStep(d)
  BY <1>16 DEF parkStep, effect, parks, stepBecomes
<1>17. CASE reconcileRead(d)
  <2> DEFINE v == derivedState(RunOfDispatch(d))
  <2>1. /\ worker[d].pc = "reconcile"
        /\ worker' = [worker EXCEPT ![d] = [@ EXCEPT !.pc = "reconciling", !.seen = v]]
        /\ UNCHANGED <<runState, stepState, gate>>
    BY <1>17 DEF reconcileRead
  <2> HIDE DEF v
  <2>2. /\ worker'[d].pc = "reconciling" /\ worker'[d].seen = v
        /\ worker'[d].eval = worker[d].eval
    BY <2>1
  <2> QED BY <2>1, <2>2 DEF effect, reads, v
<1>18. CASE reconcileWrite(d)
  BY <1>18 DEF reconcileWrite, effect, stores
<1>19. CASE closeDone(d) \/ clearExecution(d)
  BY <1>19 DEF closeDone, clearExecution, effect, leaves
<1> QED
  BY <1>1, <1>2, <1>3, <1>4, <1>5, <1>7, <1>8, <1>9, <1>10, <1>11, <1>12,
       <1>13, <1>14, <1>15, <1>16, <1>17, <1>18, <1>19 DEF workerStep

\* What a goroutine leaves alone: handlers, flags and contexts, the other
\* goroutines, the rows of their steps and their gates.
LEMMA EffectFrame ==
  ASSUME IInv, CycleInv, NEW d \in Dispatches, workerStep(d)
  PROVE  /\ UNCHANGED <<client, up, crashes, starting, abortReq, ctxDone>>
         /\ worker' \in [Dispatches -> Goroutines]
         /\ \A e \in Dispatches : /\ worker'[e].step = worker[e].step
                                  /\ e # d => worker'[e] = worker[e]
                                  /\ e # d => gate'[e] = gate[e]
         /\ worker[d].step \in Steps
         /\ worker[d].pc # "unused" /\ worker'[d].pc \notin {"unused", "dead"}
         /\ \A s \in Steps : gate'[s] = gate[s]
         /\ \A s \in Steps \ {worker[d].step} : stepState'[s] = stepState[s]
         /\ stepState'[worker[d].step] # "absent"
<1>0. /\ IInv /\ TypeOK /\ WorkerOK /\ OneCycle /\ effect(d)
      /\ worker \in [Dispatches -> Goroutines]
      /\ stepState \in [Steps -> StepStates \cup {"absent"}]
      /\ "absent" \notin StepStates
  BY GoroutineEffect, NoAbsentState DEF IInv, TypeOK, CycleInv
<1>1. client' = client /\ up' = up /\ crashes' = crashes
  BY <1>0, WorkerFrame
<1>2. UNCHANGED <<starting, abortReq, ctxDone>>
  BY DEF workerStep, registerExecution, finalizeEarlyAbort, noViableAdapter,
     beginAttempts, createAttempt, artifactRootFails, lockConflict, openLock,
     writeOwner, environmentFails, adapterStart, pollStops, pollFinishes,
     collectFails, normalizeResult, startValidations, evaluatePolicy,
     releaseLock, afterAttempt, finalizeStep, createGate, parkStep,
     reconcileRead, reconcileWrite, closeDone, clearExecution, memory
<1>3. /\ inFlight(d)
      /\ worker' = [worker EXCEPT ![d] = worker'[d]]
      /\ worker'[d] \in Goroutines
      /\ worker'[d].step = worker[d].step
  BY <1>0, GoroutineStep
<1>4. /\ worker' \in [Dispatches -> Goroutines]
      /\ \A e \in Dispatches : worker'[e].step = worker[e].step
      /\ \A e \in Dispatches \ {d} : worker'[e] = worker[e]
  BY <1>0, <1>3
<1>5. worker[d].step \in Steps /\ worker[d].pc # "unused"
  BY <1>0, <1>3 DEF WorkerOK, wellFormedWorker, inFlight
<1>6. \A e \in Dispatches \ {d} : gate'[e] = gate[e]
  BY <1>0, WorkerFrame
<1>7. \A s \in Steps : gate'[s] = gate[s]
  BY <1>0, WorkerRows
<1>8. worker'[d].pc \notin {"unused", "dead"}
  BY <1>0 DEF effect, works, ends, gates, parks, reads, stores, leaves, executing
<1>9. stepState[worker[d].step] # "absent"
  BY <1>0, <1>5 DEF OneCycle
<1>10. \/ stepState' = stepState
       \/ \E v \in StepStates : stepBecomes(d, v)
  BY <1>0, StateNames DEF effect, works, ends, gates, parks, reads, stores, leaves,
       StepStates
<1>11. /\ \A s \in Steps \ {worker[d].step} : stepState'[s] = stepState[s]
       /\ stepState'[worker[d].step] # "absent"
  BY <1>0, <1>5, <1>9, <1>10 DEF stepBecomes
<1> QED BY <1>1, <1>2, <1>4, <1>5, <1>6, <1>7, <1>8, <1>11

\* The results of the attempts are what the adapters reported or failures.
LEMMA WorkerReported ==
  ASSUME IInv, CycleInv, NEW d \in Dispatches, workerStep(d)
  PROVE  Reported'
<1>0. /\ worker \in [Dispatches -> Goroutines]
      /\ attempt \in [Dispatches -> [1..MaxAttempts -> RowStates]]
      /\ worker[d].num \in 1..MaxAttempts
      /\ ~ ctxDone[d]
      /\ worker[d].pc \in {"validate", "validating"} => worker[d].res # "none"
  BY DEF IInv, TypeOK, CycleInv, Quiet, Goroutines, WorkerOK, wellFormedWorker
<1>1. /\ \A e \in Dispatches : worker[e].res \in Reports \cup {"none"}
      /\ \A e \in Dispatches, n \in 1..MaxAttempts :
           attempt[e][n] \in Reports \cup {"absent", "pending", "started"}
  BY DEF CycleInv, Reported
<1>2. ASSUME \/ attempt' = attempt
             \/ \E v \in Reports \cup {"pending", "started"} :
                  attempt' = [attempt EXCEPT ![d][worker[d].num] = v],
             worker'[d].res \in Reports \cup {"none"}
      PROVE  Reported'
  <2>1. \A e \in Dispatches, n \in 1..MaxAttempts :
           attempt'[e][n] \in Reports \cup {"absent", "pending", "started"}
    <3>1. CASE attempt' = attempt
      BY <1>1, <3>1
    <3>2. ASSUME NEW v \in Reports \cup {"pending", "started"},
                 attempt' = [attempt EXCEPT ![d][worker[d].num] = v]
          PROVE  \A e \in Dispatches, n \in 1..MaxAttempts :
                   attempt'[e][n] \in Reports \cup {"absent", "pending", "started"}
      <4>1. \A e \in Dispatches, n \in 1..MaxAttempts :
              attempt'[e][n] = attempt[e][n] \/ attempt'[e][n] = v
        BY <1>0, <3>2
      <4> QED BY <1>1, <3>2, <4>1
    <3> QED BY <1>2, <3>1, <3>2
  <2>2. \A e \in Dispatches : worker'[e].res \in Reports \cup {"none"}
    BY <1>1, <1>2, EffectFrame
  <2> QED BY <2>1, <2>2 DEF Reported, Reports
<1>3. ASSUME NEW r \in Reports, NEW b, NEW p, setResult(d, r, b, p)
      PROVE  Reported'
  <2>1. worker'[d].res = r
    BY <1>0, <1>3 DEF setResult, Goroutines
  <2>2. \/ attempt' = attempt
        \/ attempt' = [attempt EXCEPT ![d][worker[d].num] = r]
    BY <1>3 DEF setResult
  <2> QED BY <1>2, <1>3, <2>1, <2>2
<1>4. {"failed_bridge", "failed_retryable", "timeout", "failed_adapter",
       "failed_validation"} \cup AdapterResults \subseteq Reports
  BY DEF Reports, FailureStates
<1> HIDE DEF Reports
<1>5. CASE \/ registerExecution(d) \/ finalizeEarlyAbort(d)
           \/ noViableAdapter(d) \/ beginAttempts(d) \/ openLock(d)
           \/ writeOwner(d) \/ pollFinishes(d)
           \/ startValidations(d) \/ releaseLock(d) \/ finalizeStep(d)
           \/ parkStep(d) \/ closeDone(d) \/ clearExecution(d)
  <2>1. attempt' = attempt
    BY <1>5 DEF registerExecution, finalizeEarlyAbort, noViableAdapter,
         beginAttempts, openLock, writeOwner, pollFinishes,
         startValidations, releaseLock, finalizeStep, parkStep, closeDone,
         clearExecution, rows
  <2>2. worker'[d].res = worker[d].res
    BY <1>0, <1>5 DEF registerExecution, finalizeEarlyAbort, noViableAdapter,
         beginAttempts, openLock, writeOwner, pollFinishes,
         startValidations, releaseLock, finalizeStep, parkStep, closeDone,
         clearExecution, Goroutines
  <2> QED BY <1>1, <1>2, <2>1, <2>2
<1>6. CASE createAttempt(d) \/ adapterStart(d)
  <2>1. worker'[d].res = worker[d].res
    BY <1>0, <1>6 DEF createAttempt, adapterStart, Goroutines
  <2>2. \/ attempt' = attempt
        \/ \E v \in {"pending", "started"} :
             attempt' = [attempt EXCEPT ![d][worker[d].num] = v]
    BY <1>6 DEF createAttempt, adapterStart
  <2> QED BY <1>1, <1>2, <2>1, <2>2
<1>7. CASE \/ artifactRootFails(d) \/ lockConflict(d) \/ environmentFails(d)
           \/ collectFails(d)
  BY <1>3, <1>4, <1>7 DEF artifactRootFails, lockConflict, environmentFails,
       collectFails
<1>8. CASE normalizeResult(d)
  BY <1>3, <1>4, <1>8 DEF normalizeResult
<1>9. CASE pollStops(d)
  BY <1>0, <1>3, <1>4, <1>9 DEF pollStops
<1>10. CASE evaluatePolicy(d)
  <2>1. PICK hit \in BOOLEAN, r \in {worker[d].res, "failed_validation"} :
          /\ worker' = [worker EXCEPT ![d] =
                          [@ EXCEPT !.res = r, !.pc = "release",
                                    !.eval = Evaluate(Policy, r, hit)]]
          /\ \/ attempt' = attempt
             \/ attempt' = [attempt EXCEPT ![d][worker[d].num] = r]
    BY <1>10 DEF evaluatePolicy
  <2>2. worker'[d].res = r
    BY <1>0, <2>1 DEF Goroutines
  <2>3. r \in Reports
    BY <1>0, <1>1, <1>4, <1>10, <2>1 DEF evaluatePolicy
  <2> QED BY <1>2, <2>1, <2>2, <2>3
<1>11. CASE afterAttempt(d)
  BY <1>0, <1>1, <1>2, <1>11 DEF afterAttempt, rows, Goroutines
<1>12. CASE createGate(d)
  BY <1>0, <1>1, <1>2, <1>12 DEF createGate, rows, Goroutines
<1>13. CASE reconcileRead(d)
  <2>1. PICK v : worker' = [worker EXCEPT ![d] =
                   [@ EXCEPT !.pc = "reconciling", !.seen = v]]
    BY <1>13 DEF reconcileRead
  <2>2. worker'[d].res = worker[d].res
    BY <1>0, <2>1 DEF Goroutines
  <2> QED BY <1>1, <1>2, <1>13, <2>2 DEF reconcileRead, rows
<1>14. CASE reconcileWrite(d)
  BY <1>0, <1>1, <1>2, <1>14 DEF reconcileWrite, rows, Goroutines
<1> QED
  BY <1>5, <1>6, <1>7, <1>8, <1>9, <1>10, <1>11, <1>12, <1>13, <1>14
     DEF workerStep

\* The goroutines preserve the invariant.
LEMMA WorkerCycle ==
  ASSUME IInv, CycleInv, NEW d \in Dispatches, workerStep(d)
  PROVE  CycleInv'
<1>0. /\ Quiet /\ OneCycle /\ effect(d)
      /\ gate \in [GateIDs -> {"absent", "pending", "approved", "rejected"}]
      /\ stepState \in [Steps -> StepStates \cup {"absent"}]
      /\ Dispatches \subseteq GateIDs
  BY GoroutineEffect DEF IInv, TypeOK, CycleInv, GateIDs
<1>1. gate' = gate \/ gate' = [gate EXCEPT ![d] = "pending"]
  BY <1>0 DEF effect, works, ends, gates, parks, reads, stores, leaves
<1>2. Quiet'
  <2>1. \A e \in Dispatches : gate[e] # "absent" => gate'[e] # "absent"
    BY <1>0, <1>1
  <2>2. \A e \in Dispatches : worker'[e].pc # "dead"
    <3>1. \A e \in Dispatches : e # d => worker'[e] = worker[e]
      BY EffectFrame
    <3>2. worker'[d].pc # "dead"
      BY EffectFrame
    <3> QED BY <1>0, <3>1, <3>2 DEF Quiet
  <2>3. UNCHANGED <<client, up, crashes, abortReq, ctxDone>>
    BY EffectFrame
  <2>4. \A s \in Steps : gate'[s] = gate[s]
    BY EffectFrame
  <2> QED BY <1>0, <2>1, <2>2, <2>3, <2>4 DEF Quiet
<1>3. executing(d)' => /\ gate'[d] = "absent"
                       /\ stepState'[worker[d].step] \in ActiveStates
  <2> SUFFICES ASSUME executing(d)' PROVE /\ gate'[d] = "absent"
                       /\ stepState'[worker[d].step] \in ActiveStates
    OBVIOUS
  <2>1. works(d)
    BY <1>0 DEF effect, ends, gates, parks, reads, stores, leaves, executing
  <2>2. worker[d].step \in Steps
    BY EffectFrame
  <2> QED BY <1>0, <2>1, <2>2 DEF works, OneCycle, stepBecomes
<1>4. \A e \in Dispatches \ {d} : executing(e)' =>
         gate'[e] = "absent" /\ stepState'[worker[e].step] \in ActiveStates
  <2> SUFFICES ASSUME NEW e \in Dispatches \ {d}, executing(e)'
               PROVE  gate'[e] = "absent" /\ stepState'[worker[e].step] \in ActiveStates
    OBVIOUS
  <2>1. executing(e) /\ gate'[e] = gate[e]
    BY EffectFrame DEF executing
  <2>2. worker[e].step \in Steps /\ worker[e].step # worker[d].step
    BY <1>0, <2>1, EffectFrame DEF OneCycle, IInv, WorkerOK, wellFormedWorker, executing
  <2> QED BY <1>0, <2>1, <2>2, EffectFrame DEF OneCycle
<1>5. \A s \in Steps : stepState'[s] # "absent" <=> stepState[s] # "absent"
  BY <1>0, EffectFrame DEF OneCycle
<1>6. OneCycle'
  <2>1. \A e \in Dispatches : worker'[e].pc = "unused" => worker'[e] = idleWorker
    BY <1>0, EffectFrame DEF OneCycle
  <2>2. \A e, f \in Dispatches :
       worker'[e].step \in Steps /\ worker'[e].step = worker'[f].step => e = f
    BY <1>0, EffectFrame DEF OneCycle
  <2>3. \A s \in Steps : stepState'[s] # "absent" <=>
          \E e \in Dispatches : worker'[e].step = s
    BY <1>0, <1>5, EffectFrame DEF OneCycle
  <2>4. \A e \in Dispatches : executing(e)' =>
          gate'[e] = "absent" /\ stepState'[worker'[e].step] \in ActiveStates
    BY <1>3, <1>4, EffectFrame
  <2> QED BY <2>1, <2>2, <2>3, <2>4 DEF OneCycle, executing
<1> QED BY <1>2, <1>6, WorkerReported DEF CycleInv

\* What a request may do then: ask for a verdict on a policy gate, store it,
\* restore the step, read the run's steps, write the run's row, resume a run,
\* and end because its caller has gone.
asks(c) ==
  /\ client[c].pc = "idle" /\ client'[c].pc = "resolving"
  /\ \E g \in Dispatches :
       /\ gate[g] = "pending" /\ returned(RunOfDispatch(g))
       /\ client'[c].gate = g /\ client'[c].run = RunOfDispatch(g)
  /\ UNCHANGED <<runState, stepState, gate>>

decides(c) ==
  /\ client[c].pc = "resolving" /\ client'[c].pc = "resolved"
  /\ client'[c].gate = client[c].gate /\ client'[c].run = client[c].run
  /\ \E v \in {"approved", "rejected"} :
       gate' = [gate EXCEPT ![client[c].gate] = v]
  /\ UNCHANGED <<runState, stepState>>

restores(c) ==
  /\ client[c].pc = "resolved" /\ client'[c].pc = "reconcile"
  /\ client'[c].run = client[c].run
  /\ \E v \in restoreStates(worker[client[c].gate].step) \cup {"cancelled"} :
       stepBecomes(client[c].gate, v)
  /\ UNCHANGED <<runState, gate>>

derives(c) ==
  /\ client[c].pc = "reconcile" /\ client'[c].pc = "reconciling"
  /\ client'[c].run = client[c].run
  /\ client'[c].seen = derivedState(client[c].run)
  /\ UNCHANGED <<runState, stepState, gate>>

records(c) ==
  /\ client[c].pc = "reconciling" /\ client'[c].pc = "done"
  /\ runState' = [runState EXCEPT ![client[c].run] = client[c].seen]
  /\ UNCHANGED <<stepState, gate>>

resumes(c) ==
  /\ "resume" \in Ops
  /\ client[c].pc = "idle" /\ client'[c].pc = "done"
  /\ UNCHANGED <<stepState, gate>>

goes(c) ==
  /\ "disconnect" \in Ops
  /\ client'[c].pc = "done"
  /\ UNCHANGED <<runState, stepState, gate>>

reply(c) == \/ asks(c) \/ decides(c) \/ restores(c) \/ derives(c) \/ records(c)
            \/ resumes(c) \/ goes(c)

\* A step of a request is one of these, and changes no other request and no
\* goroutine.
LEMMA ReplyEffect ==
  ASSUME Undisturbed, IInv, CycleInv, NEW c \in Clients,
         handlerStep(c) \/ request(c)
  PROVE  /\ reply(c)
         /\ \A e \in Clients : e # c => client'[e] = client[e]
         /\ UNCHANGED <<worker, attempt, up, crashes, starting, abortReq, ctxDone>>
<1>0. /\ client \in [Clients -> Handlers]
      /\ client[c] \in Handlers
      /\ client[c].pc \in {"idle", "resolving", "resolved", "reconcile",
                           "reconciling", "done"}
      /\ client[c].pc \in {"resolving", "resolved"} =>
           /\ client[c].gate \in Dispatches
           /\ client[c].verdict \in {"approved", "rejected"}
      /\ \A s \in Steps : gate[s] = "absent" /\ s \notin Dispatches
      /\ Ops \subseteq {"gate", "resume", "disconnect"}
      /\ \A g \in Dispatches : GateStep(g) = worker[g].step
  BY RunServiceConstants
     DEF IInv, TypeOK, CycleInv, Quiet, Undisturbed, ClientOK, wellFormedClient, GateStep, Handlers
<1> USE DEF rows, memory
<1>1. ASSUME NEW h, client' = [client EXCEPT ![c] = h]
      PROVE  client'[c] = h /\ \A e \in Clients : e # c => client'[e] = client[e]
  BY <1>0, <1>1
<1>2. CASE handlerStep(c)
  <2>1. \/ clientReconcileRead(c) \/ clientReconcileWrite(c)
        \/ writeVerdict(c) \/ restoreStep(c)
    BY <1>0, <1>2 DEF handlerStep, abortOrphans, abortSignal, abortOutcome,
         retryDispatched, recoverSteps
  <2>2. CASE clientReconcileRead(c)
    <3> DEFINE v == derivedState(client[c].run)
               h == [client[c] EXCEPT !.pc = "reconciling", !.seen = v]
    <3>1. /\ client' = [client EXCEPT ![c] = h]
          /\ client[c].pc = "reconcile"
          /\ UNCHANGED <<rows, lock, memory, worker>>
      BY <2>2 DEF clientReconcileRead
    <3> HIDE DEF v
    <3>2. h.pc = "reconciling" /\ h.seen = v /\ h.run = client[c].run
      BY <1>0 DEF Handlers
    <3> HIDE DEF h
    <3> QED BY <1>1, <3>1, <3>2 DEF reply, derives, v
  <2>3. CASE clientReconcileWrite(c)
    <3> DEFINE h == [client[c] EXCEPT !.pc = "done", !.seen = None]
    <3>1. /\ client' = [client EXCEPT ![c] = h]
          /\ client[c].pc = "reconciling"
          /\ runState' = [runState EXCEPT ![client[c].run] = client[c].seen]
          /\ UNCHANGED <<stepState, attempt, gate, lock, memory, worker>>
      BY <2>3 DEF clientReconcileWrite
    <3>2. h.pc = "done"
      BY <1>0 DEF Handlers
    <3> HIDE DEF h
    <3> QED BY <1>1, <3>1, <3>2 DEF reply, records
  <2>4. CASE writeVerdict(c)
    <3> DEFINE h == [client[c] EXCEPT !.pc = "resolved"]
    <3>1. /\ client' = [client EXCEPT ![c] = h]
          /\ client[c].pc = "resolving"
          /\ gate' = [gate EXCEPT ![client[c].gate] = client[c].verdict]
          /\ UNCHANGED <<runState, stepState, attempt, lock, memory, worker>>
      BY <2>4 DEF writeVerdict
    <3>2. h.pc = "resolved" /\ h.gate = client[c].gate /\ h.run = client[c].run
      BY <1>0 DEF Handlers
    <3> HIDE DEF h
    <3> QED BY <1>0, <1>1, <3>1, <3>2 DEF reply, decides
  <2>5. CASE restoreStep(c)
    <3> DEFINE h == [client[c] EXCEPT !.pc = "reconcile"]
               s == worker[client[c].gate].step
    <3>1. /\ client' = [client EXCEPT ![c] = h]
          /\ client[c].pc = "resolved"
          /\ UNCHANGED <<runState, attempt, gate, lock, memory, worker>>
      BY <2>5 DEF restoreStep
    <3>2. GateStep(client[c].gate) = s
      BY <1>0, <3>1
    <3>3. \E v \in restoreStates(s) \cup {"cancelled"} :
            stepState' = [stepState EXCEPT ![s] = v]
      BY <2>5, <3>2 DEF restoreStep
    <3>4. h.pc = "reconcile" /\ h.run = client[c].run
      BY <1>0 DEF Handlers
    <3> HIDE DEF h
    <3> QED BY <1>1, <3>1, <3>3, <3>4 DEF reply, restores, stepBecomes
  <2> QED BY <2>1, <2>2, <2>3, <2>4, <2>5
<1>3. ASSUME NEW g \in GateIDs, NEW v \in {"approved", "rejected"}, resolveGate(c, g, v)
      PROVE  /\ reply(c)
             /\ \A e \in Clients : e # c => client'[e] = client[e]
             /\ UNCHANGED <<worker, attempt, up, crashes, starting, abortReq, ctxDone>>
  <2> DEFINE h == [idleClient EXCEPT !.pc = "resolving",
                     !.run = RunOf[GateStep(g)], !.gate = g, !.verdict = v]
  <2>1. /\ client' = [client EXCEPT ![c] = h]
        /\ client[c].pc = "idle" /\ gate[g] = "pending"
        /\ returned(RunOf[GateStep(g)])
        /\ UNCHANGED <<rows, lock, memory, worker>>
    BY <1>3 DEF resolveGate
  <2>2. h.pc = "resolving" /\ h.gate = g /\ h.run = RunOf[GateStep(g)]
    BY DEF idleClient
  <2>3. g \in Dispatches /\ RunOf[GateStep(g)] = RunOfDispatch(g)
    BY <1>0, <2>1 DEF GateIDs, RunOfDispatch
  <2> HIDE DEF h
  <2> QED BY <1>1, <2>1, <2>2, <2>3 DEF reply, asks
<1>4. ASSUME NEW r \in Runs, ResumeRun(c, r)
      PROVE  /\ reply(c)
             /\ \A e \in Clients : e # c => client'[e] = client[e]
             /\ UNCHANGED <<worker, attempt, up, crashes, starting, abortReq, ctxDone>>
  <2> DEFINE h == [client[c] EXCEPT !.pc = "done"]
  <2>1. /\ client' = [client EXCEPT ![c] = h]
        /\ client[c].pc = "idle" /\ "resume" \in Ops
        /\ UNCHANGED <<stepState, attempt, gate, lock, memory, worker>>
    BY <1>4 DEF ResumeRun
  <2>2. h.pc = "done"
    BY <1>0 DEF Handlers
  <2> HIDE DEF h
  <2> QED BY <1>1, <2>1, <2>2 DEF reply, resumes
<1>5. CASE disconnect(c)
  <2> DEFINE h == [idleClient EXCEPT !.pc = "done"]
  <2>1. /\ client' = [client EXCEPT ![c] = h]
        /\ "disconnect" \in Ops
        /\ UNCHANGED <<rows, lock, memory, worker>>
    BY <1>5 DEF disconnect
  <2>2. h.pc = "done"
    BY DEF idleClient
  <2> HIDE DEF h
  <2> QED BY <1>1, <2>1, <2>2 DEF reply, goes
<1>6. CASE request(c)
  BY <1>0, <1>3, <1>4, <1>5, <1>6 DEF request, AbortRun, RecoverRun, RetryStep
<1> QED BY <1>2, <1>6

\* Requests preserve the invariant: only the step of a gate is restored, and
\* its dispatch is past its attempts.
LEMMA ReplyCycle ==
  ASSUME Undisturbed, IInv, CycleInv, NEW c \in Clients,
         handlerStep(c) \/ request(c)
  PROVE  CycleInv'
<1>0. /\ reply(c)
      /\ \A e \in Clients : e # c => client'[e] = client[e]
      /\ UNCHANGED <<worker, attempt, up, crashes, starting, abortReq, ctxDone>>
  BY ReplyEffect
<1>1. /\ Quiet /\ OneCycle /\ Reported /\ TypeOK
      /\ gate \in [GateIDs -> {"absent", "pending", "approved", "rejected"}]
      /\ stepState \in [Steps -> StepStates \cup {"absent"}]
      /\ "absent" \notin StepStates
      /\ \A s \in Steps : s \notin Dispatches
      /\ \A g \in Dispatches : gate[g] # "absent" => worker[g].step \in Steps
      /\ Dispatches \subseteq GateIDs /\ Steps \subseteq GateIDs
  BY NoAbsentState, RunServiceConstants DEF IInv, TypeOK, CycleInv, GateIDs, GateOK
<1>2. Quiet'
  <2>1. client'[c].pc \in {"idle", "resolving", "resolved", "reconcile",
                           "reconciling", "done"}
    BY <1>0 DEF reply, asks, decides, restores, derives, records, resumes, goes
  <2>2. /\ \A g \in Dispatches : gate[g] # "absent" => gate'[g] # "absent"
        /\ \A s \in Steps : gate'[s] = gate[s]
    BY <1>0, <1>1 DEF reply, asks, decides, restores, derives, records, resumes, goes, Quiet
  <2>3. client'[c].pc \in {"resolving", "resolved"} =>
          client'[c].gate \in Dispatches /\ gate[client'[c].gate] # "absent"
    BY <1>0, <1>1 DEF reply, asks, decides, restores, derives, records, resumes, goes, Quiet
  <2> QED BY <1>0, <1>1, <2>1, <2>2, <2>3 DEF Quiet
<1>3. ASSUME restores(c) PROVE OneCycle'
  <2> DEFINE g == client[c].gate
  <2>1. g \in Dispatches /\ gate[g] # "absent" /\ worker[g].step \in Steps
    BY <1>1, <1>3 DEF restores, Quiet
  <2>2. PICK v \in restoreStates(worker[g].step) \cup {"cancelled"} :
          stepState' = [stepState EXCEPT ![worker[g].step] = v]
    BY <1>3 DEF restores, stepBecomes
  <2>3. v \in StepStates
    BY <1>1, <2>2, RestoreType, StateNames
  <2>4. gate' = gate
    BY <1>3 DEF restores
  <2> HIDE DEF g
  <2>5. \A e \in Dispatches : executing(e) => stepState'[worker[e].step] = stepState[worker[e].step]
    <3> SUFFICES ASSUME NEW e \in Dispatches, executing(e)
                 PROVE  stepState'[worker[e].step] = stepState[worker[e].step]
      OBVIOUS
    <3>1. e # g
      BY <1>1, <2>1 DEF OneCycle
    <3>2. worker[e].step # worker[g].step
      BY <1>1, <2>1, <3>1 DEF OneCycle
    <3> QED BY <1>1, <2>2, <3>2
  <2>6. \A s \in Steps : stepState'[s] # "absent" <=> stepState[s] # "absent"
    BY <1>1, <2>1, <2>2, <2>3 DEF OneCycle
  <2> QED BY <1>0, <1>1, <2>4, <2>5, <2>6 DEF OneCycle, executing
<1>4. ASSUME decides(c) PROVE OneCycle'
  <2>1. stepState' = stepState
    BY <1>4 DEF decides
  <2>2. \A e \in Dispatches : gate[e] = "absent" => gate'[e] = "absent"
    BY <1>1, <1>4 DEF decides, Quiet
  <2> QED BY <1>0, <1>1, <2>1, <2>2 DEF OneCycle, executing
<1>5. ~ restores(c) /\ ~ decides(c) => stepState' = stepState /\ gate' = gate
  BY <1>0 DEF reply, asks, derives, records, resumes, goes
<1>6. ASSUME stepState' = stepState, gate' = gate PROVE OneCycle'
  BY <1>0, <1>1, <1>6 DEF OneCycle, executing
<1>7. OneCycle'
  BY <1>3, <1>4, <1>5, <1>6
<1>8. Reported'
  BY <1>0, <1>1 DEF Reported
<1> QED BY <1>2, <1>7, <1>8 DEF CycleInv

\* What a dispatch does: a step without a row gets one, and an unused goroutine.
LEMMA DispatchEffect ==
  ASSUME IInv, CycleInv, NEW d \in Dispatches, NEW s \in Steps,
         DispatchStepAsync(d, s)
  PROVE  /\ worker[d].pc = "unused" /\ gate[d] = "absent"
         /\ worker'[d] = [idleWorker EXCEPT !.pc = "register", !.step = s]
         /\ worker'[d].pc = "register" /\ worker'[d].step = s
         /\ worker'[d].eval = {} /\ worker'[d].res = "none"
         /\ \A e \in Dispatches : e # d => worker'[e] = worker[e]
         /\ \A e \in Dispatches : worker[e].step # s
         /\ stepState[s] = "absent"
         /\ stepState' = [stepState EXCEPT ![s] = "dispatching"]
         /\ returned(RunOf[s]) /\ RunOf[s] \notin starting
         /\ UNCHANGED <<runState, attempt, gate, client, up, crashes, starting,
                        abortReq, ctxDone>>
<1> DEFINE w == [idleWorker EXCEPT !.pc = "register", !.step = s]
<1>1. /\ worker \in [Dispatches -> Goroutines] /\ OneCycle
      /\ gate[d] # "absent" => worker[d].step \in Steps
  BY DEF IInv, TypeOK, CycleInv, GateOK
<1>2. /\ worker[d].pc = "unused" /\ worker' = [worker EXCEPT ![d] = w]
      /\ stepState[s] = "absent"
      /\ stepState' = [stepState EXCEPT ![s] = "dispatching"]
      /\ returned(RunOf[s]) /\ RunOf[s] \notin starting
      /\ UNCHANGED <<runState, attempt, gate, client, memory>>
  BY DEF DispatchStepAsync, initializeStep
<1>3. /\ w.pc = "register" /\ w.step = s /\ w.eval = {} /\ w.res = "none"
      /\ idleWorker.step = None
  BY DEF idleWorker
<1>4. \A e \in Dispatches : worker[e].step # s
  BY <1>1, <1>2 DEF OneCycle
<1>5. gate[d] = "absent"
  <2>1. worker[d].step = None
    BY <1>1, <1>2, <1>3 DEF OneCycle
  <2> QED BY <1>1, <2>1, RunServiceConstants
<1> HIDE DEF w
<1>6. worker'[d] = w /\ \A e \in Dispatches : e # d => worker'[e] = worker[e]
  BY <1>1, <1>2
<1> QED BY <1>2, <1>3, <1>4, <1>5, <1>6 DEF memory, w

\* Dispatching a step preserves the invariant.
LEMMA DispatchCycle ==
  ASSUME IInv, CycleInv, NEW d \in Dispatches, NEW s \in Steps,
         DispatchStepAsync(d, s)
  PROVE  CycleInv'
<1>0. /\ worker[d].pc = "unused" /\ gate[d] = "absent"
      /\ worker'[d].pc = "register" /\ worker'[d].step = s
      /\ worker'[d].res = "none"
      /\ \A e \in Dispatches : e # d => worker'[e] = worker[e]
      /\ \A e \in Dispatches : worker[e].step # s
      /\ stepState[s] = "absent"
      /\ stepState' = [stepState EXCEPT ![s] = "dispatching"]
      /\ UNCHANGED <<attempt, gate, client, up, crashes, abortReq, ctxDone>>
  BY DispatchEffect
<1>1. /\ Quiet /\ Reported /\ OneCycle
      /\ stepState \in [Steps -> StepStates \cup {"absent"}]
      /\ \A e \in Dispatches : executing(e) => worker[e].step \in Steps
  BY DEF CycleInv, IInv, TypeOK, WorkerOK, wellFormedWorker, executing
<1>2. Quiet'
  <2>1. \A e \in Dispatches : worker'[e].pc # "dead"
    BY <1>0, <1>1 DEF Quiet
  <2> QED BY <1>0, <1>1, <2>1 DEF Quiet
<1>3. Reported'
  BY <1>0, <1>1 DEF Reported
<1>4. OneCycle'
  <2>1. \A e \in Dispatches : worker'[e].pc = "unused" => worker'[e] = idleWorker
    BY <1>0, <1>1 DEF OneCycle
  <2>2. \A e, f \in Dispatches :
       worker'[e].step \in Steps /\ worker'[e].step = worker'[f].step => e = f
    BY <1>0, <1>1 DEF OneCycle
  <2>3. \A t \in Steps : stepState'[t] # "absent" <=>
          \E e \in Dispatches : worker'[e].step = t
    <3> SUFFICES ASSUME NEW t \in Steps
                 PROVE  stepState'[t] # "absent" <=>
                          \E e \in Dispatches : worker'[e].step = t
      OBVIOUS
    <3>1. CASE t = s
      BY <1>0, <1>1, <3>1
    <3>2. CASE t # s
      <4>1. stepState'[t] = stepState[t]
        BY <1>0, <1>1, <3>2
      <4>2. \A e \in Dispatches : worker'[e].step = t <=> worker[e].step = t
        <5>1. worker[d].step # t
          BY <1>0, <1>1, RunServiceConstants DEF OneCycle, idleWorker
        <5> QED BY <1>0, <3>2, <5>1
      <4> QED BY <1>1, <4>1, <4>2 DEF OneCycle
    <3> QED BY <3>1, <3>2
  <2>4. \A e \in Dispatches : executing(e)' =>
          gate'[e] = "absent" /\ stepState'[worker'[e].step] \in ActiveStates
    <3> SUFFICES ASSUME NEW e \in Dispatches, executing(e)'
                 PROVE  gate'[e] = "absent" /\ stepState'[worker'[e].step] \in ActiveStates
      OBVIOUS
    <3>1. CASE e = d
      BY <1>0, <1>1, <3>1 DEF ActiveStates
    <3>2. CASE e # d
      <4>1. executing(e) /\ worker'[e] = worker[e]
        BY <1>0, <3>2 DEF executing
      <4> QED BY <1>0, <1>1, <4>1 DEF OneCycle
    <3> QED BY <3>1, <3>2
  <2> QED BY <2>1, <2>2, <2>3, <2>4 DEF OneCycle, executing
<1> QED BY <1>2, <1>3, <1>4 DEF CycleInv

\* The steps that are left: there is no crash, and so no sweep.
LEMMA CalmStep ==
  ASSUME Undisturbed, IInv, CycleInv, [Next]_vars
  PROVE  \/ \E r \in Runs : startRunCreate(r) \/ startRunActivate(r)
         \/ \E d \in Dispatches, s \in Steps : DispatchStepAsync(d, s)
         \/ \E d \in Dispatches : workerStep(d)
         \/ \E c \in Clients : handlerStep(c) \/ request(c)
         \/ UNCHANGED vars
<1>1. up /\ crashes = 0 /\ MaxCrashes = 0
  BY DEF CycleInv, Quiet, Undisturbed
<1>2. ~ Crash /\ ~ SweepStaleRuns
  BY <1>1 DEF Crash, SweepStaleRuns
<1> QED BY <1>2 DEF Next

\* Initially nothing has been dispatched.
LEMMA InitCycle == Init => CycleInv
<1> SUFFICES ASSUME Init PROVE CycleInv
  OBVIOUS
<1>1. /\ idleWorker.pc = "unused" /\ idleWorker.step = None
      /\ idleWorker.res = "none" /\ idleClient.pc = "idle"
  BY DEF idleWorker, idleClient
<1>2. Quiet
  BY <1>1 DEF Init, Quiet, GateIDs
<1>3. Reported
  BY <1>1 DEF Init, Reported
<1>4. OneCycle
  BY <1>1, RunServiceConstants DEF Init, OneCycle, executing
<1> QED BY <1>2, <1>3, <1>4 DEF CycleInv

\* Every step preserves the invariant.
LEMMA NextCycle ==
  ASSUME Undisturbed
  PROVE  IInv /\ CycleInv /\ [Next]_vars => CycleInv'
<1> SUFFICES ASSUME IInv, CycleInv, [Next]_vars PROVE CycleInv'
  OBVIOUS
<1>1. ASSUME UNCHANGED <<stepState, attempt, gate, client, worker, up, crashes,
                         abortReq, ctxDone>>
      PROVE  CycleInv'
  <2>1. Quiet'
    BY <1>1 DEF CycleInv, Quiet
  <2>2. OneCycle' /\ Reported'
    BY <1>1 DEF CycleInv, OneCycle, Reported, executing
  <2> QED BY <2>1, <2>2 DEF CycleInv
<1>2. ASSUME NEW r \in Runs, startRunCreate(r) \/ startRunActivate(r)
      PROVE  CycleInv'
  BY <1>1, <1>2 DEF startRunCreate, startRunActivate
<1>3. CASE UNCHANGED vars
  BY <1>1, <1>3 DEF vars, rows, memory
<1> QED BY <1>2, <1>3, CalmStep, DispatchCycle, WorkerCycle, ReplyCycle

\* A request that restores a step has stored the verdict on its gate.
Verdicts ==
  \A c \in Clients :
    client[c].pc = "resolved" => gate[client[c].gate] \in {"approved", "rejected"}

HonourInv == GateHonoured /\ Verdicts

\* Every step preserves the verdicts and honours the gates.
LEMMA NextHonours ==
  ASSUME Undisturbed
  PROVE  IInv /\ CycleInv /\ HonourInv /\ [Next]_vars => HonourInv'
<1> SUFFICES ASSUME IInv, CycleInv, HonourInv, [Next]_vars PROVE HonourInv'
  OBVIOUS
<1>0. /\ Quiet /\ OneCycle /\ GateHonoured /\ Verdicts /\ OneCycle'
      /\ gate \in [GateIDs -> {"absent", "pending", "approved", "rejected"}]
      /\ stepState \in [Steps -> StepStates \cup {"absent"}]
      /\ Dispatches \subseteq GateIDs
      /\ \A e \in Dispatches : "gate" \in worker[e].eval => worker[e].step \in Steps
      /\ SuccessStates \cap ActiveStates = {}
      /\ "needs_approval" \notin SuccessStates
  <2>1. \A e \in Dispatches : "gate" \in worker[e].eval => worker[e].step \in Steps
    BY DEF CycleInv, OneCycle, idleWorker, IInv, WorkerOK, wellFormedWorker
  <2> QED
  BY <2>1, NextCycle DEF CycleInv, HonourInv, IInv, TypeOK, GateIDs, SuccessStates, ActiveStates
<1>1. ASSUME UNCHANGED <<stepState, gate, client, worker>>
      PROVE  HonourInv'
  BY <1>0, <1>1 DEF HonourInv, GateHonoured, Verdicts
<1>2. ASSUME NEW r \in Runs, startRunCreate(r) \/ startRunActivate(r)
      PROVE  HonourInv'
  BY <1>1, <1>2 DEF startRunCreate, startRunActivate
<1>3. ASSUME NEW d \in Dispatches, NEW s \in Steps, DispatchStepAsync(d, s)
      PROVE  HonourInv'
  <2>1. /\ worker'[d].eval = {}
        /\ \A e \in Dispatches : e # d => worker'[e] = worker[e]
        /\ \A e \in Dispatches : worker[e].step # s
        /\ stepState' = [stepState EXCEPT ![s] = "dispatching"]
        /\ UNCHANGED <<gate, client>>
    BY <1>3, DispatchEffect
  <2>2. GateHonoured'
    BY <1>0, <2>1 DEF GateHonoured
  <2>3. Verdicts'
    BY <1>0, <2>1 DEF Verdicts
  <2> QED BY <2>2, <2>3 DEF HonourInv
<1>4. ASSUME NEW d \in Dispatches, workerStep(d)
      PROVE  HonourInv'
  <2>1. effect(d)
    BY <1>4, GoroutineEffect
  <2>2. /\ client' = client
        /\ worker[d].step \in Steps /\ worker'[d].step = worker[d].step
        /\ \A e \in Dispatches : /\ e # d => worker'[e] = worker[e]
                                 /\ e # d => gate'[e] = gate[e]
        /\ \A s \in Steps \ {worker[d].step} : stepState'[s] = stepState[s]
    BY <1>4, EffectFrame
  <2>3. ASSUME NEW e \in Dispatches, "gate" \in worker'[e].eval,
               worker'[e].pc \notin {"release", "attempted", "finalize"},
               stepState'[worker'[e].step] \in SuccessStates
        PROVE  gate'[e] \in {"approved", "rejected"}
    <3>1. CASE e # d
      <4>1. worker[e].step \in Steps \ {worker[d].step}
        BY <1>0, <2>2, <2>3, <3>1 DEF OneCycle
      <4> QED BY <1>0, <2>2, <2>3, <3>1, <4>1 DEF GateHonoured
    <3>2. CASE e = d
      <4>1. ~ works(d)
        BY <1>0, <2>3, <3>2 DEF works, OneCycle
      <4>2. ~ ends(d) /\ ~ parks(d)
        BY <1>0, <2>2, <2>3, <3>2 DEF ends, parks, stepBecomes
      <4>3. ~ gates(d)
        BY <1>0, <2>2, <2>3, <3>2 DEF gates, OneCycle
      <4>4. reads(d) \/ stores(d) \/ leaves(d)
        BY <2>1, <4>1, <4>2, <4>3 DEF effect
      <4> QED BY <1>0, <2>2, <2>3, <3>2, <4>4 DEF GateHonoured, reads, stores, leaves
    <3> QED BY <3>1, <3>2
  <2>4. GateHonoured'
    BY <2>3 DEF GateHonoured
  <2>5. \A e \in Dispatches : gate[e] \in {"approved", "rejected"} => gate'[e] = gate[e]
    <3>1. gate[d] \in {"approved", "rejected"} => gate'[d] = gate[d]
      BY <1>0, <2>1 DEF effect, works, ends, gates, parks, reads, stores, leaves, OneCycle
    <3> QED BY <2>2, <3>1
  <2>6. Verdicts'
    BY <1>0, <2>2, <2>5 DEF Verdicts, Quiet
  <2> QED BY <2>4, <2>6 DEF HonourInv
<1>5. ASSUME NEW c \in Clients, handlerStep(c) \/ request(c)
      PROVE  HonourInv'
  <2>0. /\ reply(c) /\ worker' = worker
        /\ \A e \in Clients : e # c => client'[e] = client[e]
    BY <1>5, ReplyEffect
  <2>1. CASE decides(c)
    <3> DEFINE g == client[c].gate
    <3>1. g \in Dispatches /\ stepState' = stepState
      BY <1>0, <2>1 DEF decides, Quiet
    <3>2. /\ gate'[g] \in {"approved", "rejected"}
          /\ \A e \in Dispatches : e # g => gate'[e] = gate[e]
          /\ client'[c].gate = g
      BY <1>0, <2>1, <3>1 DEF decides
    <3> HIDE DEF g
    <3>3. GateHonoured'
      BY <1>0, <2>0, <3>1, <3>2 DEF GateHonoured
    <3>4. Verdicts'
      BY <1>0, <2>0, <3>1, <3>2 DEF Verdicts, Quiet
    <3> QED BY <3>3, <3>4 DEF HonourInv
  <2>2. CASE restores(c)
    <3> DEFINE g == client[c].gate
    <3>1. /\ g \in Dispatches /\ gate[g] \in {"approved", "rejected"} /\ gate' = gate
          /\ worker[g].step \in Steps
      BY <1>0, <2>2 DEF restores, Quiet, Verdicts, IInv, GateOK
    <3>2. \A s \in Steps \ {worker[g].step} : stepState'[s] = stepState[s]
      BY <1>0, <2>2 DEF restores, stepBecomes
    <3>3. GateHonoured'
      <4> SUFFICES ASSUME NEW e \in Dispatches, "gate" \in worker[e].eval,
               worker[e].pc \notin {"release", "attempted", "finalize"},
               stepState'[worker[e].step] \in SuccessStates
             PROVE  gate[e] \in {"approved", "rejected"}
        BY <2>0, <3>1 DEF GateHonoured
      <4>1. CASE e = g
        BY <3>1, <4>1
      <4>2. CASE e # g
        <5>1. worker[e].step \in Steps \ {worker[g].step}
          BY <1>0, <3>1, <4>2 DEF OneCycle
        <5> QED BY <1>0, <3>2, <5>1 DEF GateHonoured
      <4> QED BY <4>1, <4>2
    <3>4. Verdicts'
      BY <1>0, <2>0, <2>2 DEF Verdicts, restores
    <3> QED BY <3>3, <3>4 DEF HonourInv
  <2>3. CASE asks(c) \/ derives(c) \/ records(c) \/ resumes(c) \/ goes(c)
    <3>1. /\ UNCHANGED <<stepState, gate>> /\ client'[c].pc # "resolved"
      BY <2>3 DEF asks, derives, records, resumes, goes
    <3>2. GateHonoured'
      BY <1>0, <2>0, <3>1 DEF GateHonoured
    <3>3. Verdicts'
      BY <1>0, <2>0, <3>1 DEF Verdicts
    <3> QED BY <3>2, <3>3 DEF HonourInv
  <2> QED BY <2>0, <2>1, <2>2, <2>3 DEF reply
<1>6. CASE UNCHANGED vars
  BY <1>1, <1>6 DEF vars, rows
<1> QED BY <1>2, <1>3, <1>4, <1>5, <1>6, CalmStep

\* While nobody aborts, retries or recovers and the daemon does not crash, a
\* result that hit the policy's gate succeeds only after a verdict, whatever
\* the adapters report, however many callers resolve the same gate or go away
\* in between, and whether or not they wait for the goroutine (finalizeStep,
\* GateService.resolve).
THEOREM GatesAreHonoured ==
  ASSUME Undisturbed
  PROVE  Spec => []GateHonoured
<1>1. Init => HonourInv
  <2> SUFFICES ASSUME Init PROVE HonourInv
    OBVIOUS
  <2>1. idleWorker.eval = {} /\ idleClient.pc = "idle"
    BY DEF idleWorker, idleClient
  <2> QED BY <2>1 DEF Init, HonourInv, GateHonoured, Verdicts
<1>2. IInv /\ CycleInv /\ [Next]_vars => CycleInv'
  BY NextCycle
<1>3. IInv /\ CycleInv /\ HonourInv /\ [Next]_vars => HonourInv'
  BY NextHonours
<1>4. HonourInv => GateHonoured
  BY DEF HonourInv
<1> QED BY <1>1, <1>2, <1>3, <1>4, InitCycle, Invariance, PTL DEF Spec

-----------------------------------------------------------------------------
(* Callers that let the goroutine and the requests of a run return before  *)
(* they use the run again.                                                 *)

\* The pace of such callers.
Paced == Undisturbed /\ Pacing = "goroutine"

\* Then a run has one goroutine or one request at work.
Apart ==
  /\ \A c \in Clients : handling(c) => client[c].run \in Runs
  /\ \A c \in Clients, d \in Dispatches :
       handling(c) /\ inFlight(d) => client[c].run # RunOfDispatch(d)
  /\ \A c, e \in Clients :
       handling(c) /\ handling(e) /\ client[c].run = client[e].run => c = e
  /\ \A d, e \in Dispatches :
       inFlight(d) /\ inFlight(e) /\ RunOfDispatch(d) = RunOfDispatch(e) => d = e
  /\ \A c \in Clients : client[c].pc \in {"resolving", "resolved"} =>
       client[c].run = RunOfDispatch(client[c].gate)

\* Every step keeps goroutines and requests of a run apart.
LEMMA NextApart ==
  ASSUME Paced
  PROVE  IInv /\ CycleInv /\ Apart /\ [Next]_vars => Apart'
<1> SUFFICES ASSUME IInv, CycleInv, Apart, [Next]_vars PROVE Apart'
  OBVIOUS
<1>0. /\ Undisturbed /\ Pacing = "goroutine" /\ Quiet /\ OneCycle
      /\ RunOf \in [Steps -> Runs]
      /\ \A d \in Dispatches : gate[d] # "absent" => worker[d].step \in Steps
  BY RunServiceConstants DEF Paced, CycleInv, IInv, GateOK
<1>1. ASSUME UNCHANGED <<client, worker>>
      PROVE  Apart'
  BY <1>1 DEF Apart, handling, inFlight, RunOfDispatch
<1>2. ASSUME NEW r \in Runs, startRunCreate(r) \/ startRunActivate(r)
      PROVE  Apart'
  BY <1>1, <1>2 DEF startRunCreate, startRunActivate
<1>3. ASSUME NEW d \in Dispatches, NEW s \in Steps, DispatchStepAsync(d, s)
      PROVE  Apart'
  <2>1. /\ worker[d].pc = "unused" /\ gate[d] = "absent"
        /\ worker'[d].step = s
        /\ \A e \in Dispatches : e # d => worker'[e] = worker[e]
        /\ returned(RunOf[s]) /\ client' = client
    BY <1>3, DispatchEffect
  <2>2. /\ \A e \in Dispatches : inFlight(e) => RunOfDispatch(e) # RunOf[s]
        /\ \A c \in Clients : handling(c) => client[c].run # RunOf[s]
    BY <1>0, <2>1 DEF returned
  <2>3. /\ RunOfDispatch(d)' = RunOf[s]
        /\ \A e \in Dispatches : e # d => /\ RunOfDispatch(e)' = RunOfDispatch(e)
                                          /\ inFlight(e)' <=> inFlight(e)
        /\ \A c \in Clients : handling(c)' <=> handling(c)
    BY <2>1 DEF RunOfDispatch, inFlight, handling
  <2>4. \A c \in Clients, e \in Dispatches :
          handling(c)' /\ inFlight(e)' => client'[c].run # RunOfDispatch(e)'
    BY <2>1, <2>2, <2>3 DEF Apart
  <2>5. \A e, f \in Dispatches :
          inFlight(e)' /\ inFlight(f)' /\ RunOfDispatch(e)' = RunOfDispatch(f)' => e = f
    BY <2>2, <2>3 DEF Apart
  <2>6. \A c \in Clients : client'[c].pc \in {"resolving", "resolved"} =>
          client'[c].run = RunOf[worker'[client'[c].gate].step]
    <3> SUFFICES ASSUME NEW c \in Clients, client[c].pc \in {"resolving", "resolved"}
                 PROVE  client[c].run = RunOf[worker'[client[c].gate].step]
      BY <2>1
    <3>1. client[c].gate \in Dispatches /\ client[c].gate # d
      BY <1>0, <2>1 DEF Quiet
    <3> QED BY <2>1, <3>1 DEF Apart, RunOfDispatch
  <2>7. /\ \A c \in Clients : handling(c)' => client'[c].run \in Runs
        /\ \A c, e \in Clients :
             handling(c)' /\ handling(e)' /\ client'[c].run = client'[e].run => c = e
    BY <2>1, <2>3 DEF Apart
  <2> QED BY <2>4, <2>5, <2>6, <2>7 DEF Apart, RunOfDispatch
<1>4. ASSUME NEW d \in Dispatches, workerStep(d)
      PROVE  Apart'
  <2>1. /\ client' = client
        /\ \A e \in Dispatches : /\ worker'[e].step = worker[e].step
                                 /\ e # d => worker'[e] = worker[e]
    BY <1>4, EffectFrame
  <2>2. inFlight(d)
    BY <1>4, GoroutineStep DEF IInv
  <2>3. /\ \A e \in Dispatches : /\ RunOfDispatch(e)' = RunOfDispatch(e)
                                 /\ inFlight(e)' => inFlight(e)
        /\ \A c \in Clients : handling(c)' <=> handling(c)
    BY <2>1, <2>2 DEF RunOfDispatch, inFlight, handling
  <2>4. \A c \in Clients : client'[c].pc \in {"resolving", "resolved"} =>
          client'[c].run = RunOf[worker'[client'[c].gate].step]
    BY <1>0, <2>1 DEF Apart, Quiet, RunOfDispatch
  <2>5. /\ \A c \in Clients, e \in Dispatches :
             handling(c)' /\ inFlight(e)' => client'[c].run # RunOfDispatch(e)'
        /\ \A e, f \in Dispatches :
             inFlight(e)' /\ inFlight(f)' /\ RunOfDispatch(e)' = RunOfDispatch(f)' => e = f
        /\ \A c \in Clients : handling(c)' => client'[c].run \in Runs
        /\ \A c, e \in Clients :
             handling(c)' /\ handling(e)' /\ client'[c].run = client'[e].run => c = e
    BY <2>1, <2>3 DEF Apart
  <2> QED BY <2>4, <2>5 DEF Apart, RunOfDispatch
<1>5. ASSUME NEW c \in Clients, handlerStep(c) \/ request(c)
      PROVE  Apart'
  <2>0. /\ reply(c) /\ worker' = worker
        /\ \A e \in Clients : e # c => client'[e] = client[e]
    BY <1>0, <1>5, ReplyEffect
  <2>1. /\ \A e \in Dispatches : /\ RunOfDispatch(e)' = RunOfDispatch(e)
                                 /\ inFlight(e)' <=> inFlight(e)
        /\ \A e \in Clients : e # c => (handling(e)' <=> handling(e))
    BY <2>0 DEF RunOfDispatch, inFlight, handling
  <2>2. ASSUME handling(c)' =>
                 /\ client'[c].run \in Runs
                 /\ \A d \in Dispatches : inFlight(d) => client'[c].run # RunOfDispatch(d)
                 /\ \A e \in Clients : e # c /\ handling(e) => client'[c].run # client[e].run,
               client'[c].pc \in {"resolving", "resolved"} =>
                 client'[c].run = RunOfDispatch(client'[c].gate)
        PROVE  Apart'
    <3>1. \A e \in Clients : handling(e)' => client'[e].run \in Runs
      BY <2>0, <2>1, <2>2 DEF Apart
    <3>2. \A e \in Clients, d \in Dispatches :
             handling(e)' /\ inFlight(d)' => client'[e].run # RunOfDispatch(d)'
      BY <2>0, <2>1, <2>2 DEF Apart
    <3>3. \A e, f \in Clients :
             handling(e)' /\ handling(f)' /\ client'[e].run = client'[f].run => e = f
      BY <2>0, <2>1, <2>2 DEF Apart
    <3>4. \A e \in Clients : client'[e].pc \in {"resolving", "resolved"} =>
             client'[e].run = RunOf[worker'[client'[e].gate].step]
      BY <2>0, <2>2 DEF Apart, RunOfDispatch
    <3>5. \A d, e \in Dispatches :
       inFlight(d)' /\ inFlight(e)' /\ RunOfDispatch(d)' = RunOfDispatch(e)' => d = e
      BY <2>1 DEF Apart
    <3> QED BY <3>1, <3>2, <3>3, <3>4, <3>5 DEF Apart, RunOfDispatch
  <2>3. CASE asks(c)
    <3>1. PICK g \in Dispatches :
            /\ gate[g] = "pending" /\ returned(RunOfDispatch(g))
            /\ client'[c].gate = g /\ client'[c].run = RunOfDispatch(g)
      BY <2>3 DEF asks
    <3>2. RunOfDispatch(g) \in Runs
      BY <1>0, <3>1 DEF RunOfDispatch
    <3>3. /\ \A e \in Dispatches : inFlight(e) => RunOfDispatch(e) # RunOfDispatch(g)
          /\ \A e \in Clients : handling(e) => client[e].run # RunOfDispatch(g)
      BY <1>0, <3>1 DEF returned
    <3> QED BY <2>2, <3>1, <3>2, <3>3
  <2>4. CASE decides(c) \/ restores(c) \/ derives(c)
    <3>1. handling(c) /\ client'[c].run = client[c].run
      BY <2>4 DEF decides, restores, derives, handling
    <3>2. client'[c].pc \in {"resolving", "resolved"} =>
             client'[c].run = RunOfDispatch(client'[c].gate)
      BY <2>4 DEF decides, restores, derives, Apart
    <3> QED BY <2>2, <3>1, <3>2 DEF Apart
  <2>5. CASE records(c) \/ resumes(c) \/ goes(c)
    <3>1. client'[c].pc = "done"
      BY <2>5 DEF records, resumes, goes
    <3>2. ~ handling(c)'
      BY <3>1 DEF handling
    <3> QED BY <2>2, <3>1, <3>2
  <2> QED BY <2>0, <2>3, <2>4, <2>5 DEF reply
<1>6. CASE UNCHANGED vars
  BY <1>1, <1>6 DEF vars
<1> QED BY <1>0, <1>2, <1>3, <1>4, <1>5, <1>6, CalmStep

\* Initially no request and no goroutine is at work.
LEMMA InitApart == Init => Apart
<1> SUFFICES ASSUME Init PROVE Apart
  OBVIOUS
<1>1. idleWorker.pc = "unused" /\ idleClient.pc = "idle"
  BY DEF idleWorker, idleClient
<1>2. /\ \A d \in Dispatches : ~ inFlight(d)
      /\ \A c \in Clients : ~ handling(c) /\ client[c].pc = "idle"
  BY <1>1 DEF Init, inFlight, handling
<1> QED BY <1>2 DEF Apart

\* Approval restores what an attempt reported, or hands the step to the operator.
LEMMA RestoreReports ==
  ASSUME TypeOK, Reported, NEW s, NEW v \in restoreStates(s)
  PROVE  v \in Reports \cup {"needs_manual_attention"}
<1>1. CASE latestAttempts(s) = {}
  BY <1>1 DEF restoreStates
<1>2. CASE latestAttempts(s) # {}
  <2>1. PICK a \in latestAttempts(s) :
          v = IF attempt[a[1]][a[2]] \in {"pending", "started"}
                THEN "needs_manual_attention" ELSE attempt[a[1]][a[2]]
    BY <1>2 DEF restoreStates
  <2>2. /\ attempt[a[1]][a[2]] # "absent"
        /\ attempt[a[1]][a[2]] \in Reports \cup {"absent", "pending", "started"}
    BY DEF latestAttempts, Reported
  <2> QED BY <2>1, <2>2
<1> QED BY <1>1, <1>2

\* A parked step has its gate pending, or a request that has stored a verdict
\* and is about to move the step; a gate is pending only for a parked step or
\* one that is being parked.
Paired ==
  /\ \A d \in Dispatches : worker[d].pc = "gated" =>
       gate[d] = "pending" /\ stepState[worker[d].step] \in ActiveStates
  /\ \A d \in Dispatches : past(d) =>
       /\ gate[d] = "pending" => stepState[worker[d].step] = "needs_approval"
       /\ stepState[worker[d].step] = "needs_approval" =>
            \/ gate[d] = "pending"
            \/ \E c \in Clients : client[c].pc = "resolved" /\ client[c].gate = d

\* Every step keeps steps and gates paired.
LEMMA NextPaired ==
  ASSUME Paced, "disconnect" \notin Ops, "needs_approval" \notin AdapterResults
  PROVE  IInv /\ CycleInv /\ HonourInv /\ Apart /\ Paired /\ [Next]_vars => Paired'
<1> SUFFICES ASSUME IInv, CycleInv, HonourInv, Apart, Paired, [Next]_vars
             PROVE  Paired'
  OBVIOUS
<1>0. /\ Undisturbed /\ Pacing = "goroutine" /\ Quiet /\ OneCycle /\ Verdicts
      /\ Reported /\ TypeOK
      /\ gate \in [GateIDs -> {"absent", "pending", "approved", "rejected"}]
      /\ stepState \in [Steps -> StepStates \cup {"absent"}]
      /\ Dispatches \subseteq GateIDs
      /\ \A d \in Dispatches : gate[d] # "absent" => worker[d].step \in Steps
      /\ \A d \in Dispatches : worker[d].pc # "unused" => worker[d].step \in Steps
      /\ "needs_approval" \notin ActiveStates
  BY DEF Paced, CycleInv, IInv, GateOK, WorkerOK, wellFormedWorker, TypeOK, GateIDs,
       HonourInv, ActiveStates
<1>1. ASSUME UNCHANGED <<client, worker, gate, stepState>>
      PROVE  Paired'
  BY <1>1 DEF Paired, past
<1>2. ASSUME NEW r \in Runs, startRunCreate(r) \/ startRunActivate(r)
      PROVE  Paired'
  BY <1>1, <1>2 DEF startRunCreate, startRunActivate
<1>3. ASSUME NEW d \in Dispatches, NEW s \in Steps, DispatchStepAsync(d, s)
      PROVE  Paired'
  <2>1. /\ worker'[d].pc = "register"
        /\ \A e \in Dispatches : e # d => worker'[e] = worker[e]
        /\ \A e \in Dispatches : worker[e].step # s
        /\ stepState' = [stepState EXCEPT ![s] = "dispatching"]
        /\ UNCHANGED <<gate, client>>
    BY <1>3, DispatchEffect
  <2>2. \A e \in Dispatches : e # d /\ worker[e].pc # "unused" =>
          stepState'[worker[e].step] = stepState[worker[e].step]
    BY <1>0, <2>1
  <2> QED BY <2>1, <2>2 DEF Paired, past
<1>4. ASSUME NEW d \in Dispatches, workerStep(d)
      PROVE  Paired'
  <2>1. effect(d)
    BY <1>4, GoroutineEffect
  <2>2. /\ client' = client
        /\ worker[d].step \in Steps /\ worker'[d].step = worker[d].step
        /\ \A e \in Dispatches : /\ e # d => worker'[e] = worker[e]
                                 /\ e # d => gate'[e] = gate[e]
        /\ \A s \in Steps \ {worker[d].step} : stepState'[s] = stepState[s]
    BY <1>4, EffectFrame
  <2>3. \A e \in Dispatches : e # d /\ worker[e].pc # "unused" =>
          stepState'[worker[e].step] = stepState[worker[e].step]
    BY <1>0, <2>2 DEF OneCycle
  <2>4. ASSUME worker'[d].pc = "gated"
        PROVE  gate'[d] = "pending" /\ stepState'[worker[d].step] \in ActiveStates
    <3>1. gates(d)
      BY <2>1, <2>4 DEF effect, works, ends, parks, reads, stores, leaves, executing
    <3> QED BY <1>0, <3>1 DEF gates, OneCycle
  <2>5. ASSUME past(d)'
        PROVE  /\ gate'[d] = "pending" => stepState'[worker[d].step] = "needs_approval"
               /\ stepState'[worker[d].step] = "needs_approval" =>
                    \/ gate'[d] = "pending"
                    \/ \E c \in Clients : client[c].pc = "resolved" /\ client[c].gate = d
    <3>1. ~ works(d) /\ ~ gates(d)
      BY <2>5 DEF works, gates, past, executing
    <3>2. CASE ends(d)
      BY <1>0, <2>2, <3>2 DEF ends, stepBecomes, OneCycle
    <3>3. CASE parks(d)
      BY <1>0, <2>2, <3>3 DEF parks, stepBecomes, Paired
    <3>4. CASE reads(d) \/ stores(d) \/ leaves(d)
      BY <3>4 DEF reads, stores, leaves, Paired, past
    <3> QED BY <2>1, <3>1, <3>2, <3>3, <3>4 DEF effect
  <2>6. \A e \in Dispatches : worker'[e].pc = "gated" =>
          gate'[e] = "pending" /\ stepState'[worker'[e].step] \in ActiveStates
    BY <2>2, <2>3, <2>4 DEF Paired
  <2>7. \A e \in Dispatches : past(e)' =>
          /\ gate'[e] = "pending" => stepState'[worker'[e].step] = "needs_approval"
          /\ stepState'[worker'[e].step] = "needs_approval" =>
               \/ gate'[e] = "pending"
               \/ \E c \in Clients : client[c].pc = "resolved" /\ client[c].gate = e
    BY <2>2, <2>3, <2>5 DEF Paired, past
  <2> QED BY <2>2, <2>6, <2>7 DEF Paired, past
<1>5. ASSUME NEW c \in Clients, handlerStep(c) \/ request(c)
      PROVE  Paired'
  <2>0. /\ reply(c) /\ worker' = worker
        /\ \A e \in Clients : e # c => client'[e] = client[e]
    BY <1>0, <1>5, ReplyEffect
  <2>1. \A d \in Dispatches : client[c].pc \in {"resolving", "resolved"} /\ client[c].gate = d
          => worker[d].pc # "gated"
    BY DEF Apart, handling, inFlight
  <2>2. CASE decides(c)
    <3> DEFINE g == client[c].gate
    <3>1. /\ g \in Dispatches /\ stepState' = stepState
          /\ client'[c].pc = "resolved" /\ client'[c].gate = g
          /\ client[c].pc = "resolving"
      BY <1>0, <2>2 DEF decides, Quiet
    <3>2. /\ gate'[g] # "pending"
          /\ \A e \in Dispatches : e # g => gate'[e] = gate[e]
      BY <1>0, <2>2, <3>1 DEF decides
    <3>3. worker[g].pc # "gated"
      BY <2>1, <3>1
    <3> HIDE DEF g
    <3>4. \A e \in Dispatches : worker'[e].pc = "gated" =>
            gate'[e] = "pending" /\ stepState'[worker'[e].step] \in ActiveStates
      BY <2>0, <3>1, <3>2, <3>3 DEF Paired
    <3>5. \A e \in Dispatches : past(e)' =>
            /\ gate'[e] = "pending" => stepState'[worker'[e].step] = "needs_approval"
            /\ stepState'[worker'[e].step] = "needs_approval" =>
                 \/ gate'[e] = "pending"
                 \/ \E f \in Clients : client'[f].pc = "resolved" /\ client'[f].gate = e
      BY <2>0, <3>1, <3>2 DEF Paired, past
    <3> QED BY <3>4, <3>5 DEF Paired, past
  <2>3. CASE restores(c)
    <3> DEFINE g == client[c].gate
    <3>1. /\ g \in Dispatches /\ gate' = gate /\ gate[g] \in {"approved", "rejected"}
          /\ worker[g].step \in Steps /\ client[c].pc = "resolved"
      BY <1>0, <2>3 DEF restores, Quiet, Verdicts
    <3>2. worker[g].pc # "gated"
      BY <2>1, <3>1
    <3>3. PICK v \in restoreStates(worker[g].step) \cup {"cancelled"} :
            stepState' = [stepState EXCEPT ![worker[g].step] = v]
      BY <2>3 DEF restores, stepBecomes
    <3>4. v # "needs_approval"
      BY <1>0, <3>3, RestoreReports DEF Reports, FailureStates
    <3>5. \A e \in Dispatches : e # g /\ worker[e].pc # "unused" =>
            stepState'[worker[e].step] = stepState[worker[e].step]
      BY <1>0, <3>1, <3>3 DEF OneCycle
    <3>6. stepState'[worker[g].step] # "needs_approval"
      BY <1>0, <3>1, <3>3, <3>4
    <3>7. client[c].gate = g
      OBVIOUS
    <3> HIDE DEF g
    <3>8. \A e \in Dispatches : worker'[e].pc = "gated" =>
            gate'[e] = "pending" /\ stepState'[worker'[e].step] \in ActiveStates
      BY <2>0, <3>1, <3>2, <3>5 DEF Paired
    <3>9. \A e \in Dispatches : past(e)' =>
            /\ gate'[e] = "pending" => stepState'[worker'[e].step] = "needs_approval"
            /\ stepState'[worker'[e].step] = "needs_approval" =>
                 \/ gate'[e] = "pending"
                 \/ \E f \in Clients : client'[f].pc = "resolved" /\ client'[f].gate = e
      <4> SUFFICES ASSUME NEW e \in Dispatches, past(e)
                   PROVE
            /\ gate[e] = "pending" => stepState'[worker[e].step] = "needs_approval"
            /\ stepState'[worker[e].step] = "needs_approval" =>
                 \/ gate[e] = "pending"
                 \/ \E f \in Clients : client'[f].pc = "resolved" /\ client'[f].gate = e
        BY <2>0, <3>1 DEF past
      <4>1. CASE e = g
        BY <3>1, <3>6, <4>1
      <4>2. CASE e # g
        <5>1. stepState'[worker[e].step] = stepState[worker[e].step]
          BY <3>5, <4>2 DEF past
        <5>2. \A f \in Clients : client[f].pc = "resolved" /\ client[f].gate = e
                => client'[f].pc = "resolved" /\ client'[f].gate = e
          BY <2>0, <3>7, <4>2
        <5> QED BY <5>1, <5>2 DEF Paired
      <4> QED BY <4>1, <4>2
    <3> QED BY <3>8, <3>9 DEF Paired, past
  <2>4. CASE asks(c) \/ derives(c) \/ records(c) \/ resumes(c)
    <3>1. UNCHANGED <<stepState, gate>> /\ client[c].pc # "resolved"
      BY <2>4 DEF asks, derives, records, resumes
    <3>2. \A e \in Dispatches, f \in Clients :
            client[f].pc = "resolved" /\ client[f].gate = e
              => client'[f].pc = "resolved" /\ client'[f].gate = e
      BY <2>0, <3>1
    <3> QED BY <2>0, <3>1, <3>2 DEF Paired, past
  <2> QED BY <2>0, <2>2, <2>3, <2>4 DEF reply, goes
<1>6. CASE UNCHANGED vars
  BY <1>1, <1>6 DEF vars, rows
<1> QED BY <1>0, <1>2, <1>3, <1>4, <1>5, <1>6, CalmStep

\* Paired is what GatePairing says, step by step.
LEMMA PairedGates ==
  ASSUME IInv, CycleInv, Paired
  PROVE  GatePairing
<1>0. /\ Quiet /\ OneCycle
      /\ worker \in [Dispatches -> Goroutines]
      /\ \A d \in Dispatches : gate[d] # "absent" => worker[d].step \in Steps
      /\ \A d \in Dispatches : GateStep(d) = worker[d].step
      /\ "needs_approval" \notin ActiveStates \cup {"absent"}
  BY RunServiceConstants DEF CycleInv, IInv, GateOK, TypeOK, GateStep, ActiveStates
<1>1. \A d \in Dispatches : worker[d].step \in Steps =>
        executing(d) \/ worker[d].pc = "gated" \/ past(d)
  <2>1. idleWorker.step \notin Steps
    BY RunServiceConstants DEF idleWorker
  <2> QED BY <1>0, <2>1 DEF OneCycle, Quiet, Goroutines, WorkerPC, executing, past
<1>2. ASSUME NEW s \in Steps, stepState[s] = "needs_approval"
      PROVE  \/ findPendingGate(s) # {}
             \/ \E c \in Clients : client[c].pc = "resolved"
                                   /\ GateStep(client[c].gate) = s
  <2>1. PICK d \in Dispatches : worker[d].step = s
    BY <1>0, <1>2 DEF OneCycle
  <2>2. past(d)
    BY <1>0, <1>1, <1>2, <2>1 DEF OneCycle, Paired
  <2>3. CASE gate[d] = "pending"
    <3>1. d \in findPendingGate(s)
      BY <1>0, <2>1, <2>3 DEF findPendingGate, GateIDs
    <3> QED BY <3>1
  <2>4. CASE \E c \in Clients : client[c].pc = "resolved" /\ client[c].gate = d
    BY <1>0, <2>1, <2>4
  <2> QED BY <1>2, <2>1, <2>2, <2>3, <2>4 DEF Paired
<1>3. ASSUME NEW s \in Steps, findPendingGate(s) # {}
      PROVE  \/ stepState[s] = "needs_approval"
             \/ \E d \in Dispatches : worker[d].step = s /\ worker[d].pc = "gated"
  <2>1. PICK g \in GateIDs : gate[g] = "pending" /\ GateStep(g) = s
    BY <1>3 DEF findPendingGate
  <2>2. g \in Dispatches
    BY <1>0, <2>1 DEF Quiet, GateIDs
  <2>3. worker[g].step = s
    BY <1>0, <2>1, <2>2
  <2>4. worker[g].pc = "gated" \/ past(g)
    BY <1>0, <1>1, <1>3, <2>1, <2>2, <2>3 DEF OneCycle
  <2> QED BY <2>1, <2>2, <2>3, <2>4 DEF Paired
<1> QED BY <1>2, <1>3 DEF GatePairing

\* With callers that let a run's goroutine and requests return before they use
\* the run again and stay until they are answered, adapters that ask for no
\* approval themselves, and nobody who aborts, retries or recovers, a step
\* waits for approval exactly while a gate of it is pending, whoever resolves
\* it (finalizeStep, GateService.resolve).
THEOREM GatesArePaired ==
  ASSUME Paced, "disconnect" \notin Ops, "needs_approval" \notin AdapterResults
  PROVE  Spec => []GatePairing
<1>0. Undisturbed
  BY DEF Paced
<1>1. Init => HonourInv
  <2> SUFFICES ASSUME Init PROVE HonourInv
    OBVIOUS
  <2>1. idleWorker.eval = {} /\ idleClient.pc = "idle"
    BY DEF idleWorker, idleClient
  <2> QED BY <2>1 DEF Init, HonourInv, GateHonoured, Verdicts
<1>2. Init => Paired
  <2> SUFFICES ASSUME Init PROVE Paired
    OBVIOUS
  <2>1. idleWorker.pc = "unused"
    BY DEF idleWorker
  <2> QED BY <2>1 DEF Init, Paired, past
<1>3. IInv /\ CycleInv /\ [Next]_vars => CycleInv'
  BY <1>0, NextCycle
<1>4. IInv /\ CycleInv /\ HonourInv /\ [Next]_vars => HonourInv'
  BY <1>0, NextHonours
<1>5. IInv /\ CycleInv /\ Apart /\ [Next]_vars => Apart'
  BY NextApart
<1>6. IInv /\ CycleInv /\ HonourInv /\ Apart /\ Paired /\ [Next]_vars => Paired'
  BY NextPaired
<1>7. IInv /\ CycleInv /\ Paired => GatePairing
  BY PairedGates
<1> QED BY <1>1, <1>2, <1>3, <1>4, <1>5, <1>6, <1>7, InitCycle, InitApart,
          Invariance, PTL DEF Spec

-----------------------------------------------------------------------------
(* The row of a run and the rows of its steps, when the adapter profiles   *)
(* of all steps are registered and verdicts are the only requests.         *)

\* Callers give verdicts, stay until they are answered and do nothing else.
Orderly == Paced /\ Ops \subseteq {"gate"} /\ Routable = Steps

\* Nobody works on the run.
calm(r) ==
  /\ \A d \in Dispatches : ~ (inFlight(d) /\ RunOfDispatch(d) = r)
  /\ \A c \in Clients : ~ (handling(c) /\ client[c].run = r)

\* A goroutine or a request that is about to write the run's row has read the
\* step rows as they still are, and once nobody works on the run any more its
\* row is the one that was derived from them.
upToDate(r) ==
  /\ r \in starting => StepsOf(r) = {}
  /\ \A d \in Dispatches : inFlight(d) /\ RunOfDispatch(d) = r =>
       /\ worker[d].pc = "reconciling" => worker[d].seen = derivedState(r)
       /\ worker[d].pc \in {"closing", "clearing"} => runState[r] = derivedState(r)
  /\ \A c \in Clients : handling(c) /\ client[c].run = r =>
       (client[c].pc = "reconciling" => client[c].seen = derivedState(r))
  /\ StepsOf(r) # {} /\ calm(r) => runState[r] = derivedState(r)

\* No step stays active once its goroutine has ended it, and the rows of all
\* runs are up to date.
Agreed ==
  /\ \A d \in Dispatches : past(d) => stepState[worker[d].step] \notin ActiveStates
  /\ \A r \in Runs : upToDate(r)

\* What is derived for a run depends on its own steps.
LEMMA SameSteps ==
  ASSUME NEW r, \A s \in Steps : RunOf[s] = r => stepState'[s] = stepState[s]
  PROVE  StepsOf(r)' = StepsOf(r) /\ derivedState(r)' = derivedState(r)
<1>1. StepsOf(r)' = StepsOf(r)
  BY DEF StepsOf
<1>2. \A s \in StepsOf(r) : stepState'[s] = stepState[s]
  BY DEF StepsOf
<1>3. {stepState'[s] : s \in StepsOf(r)'} = {stepState[s] : s \in StepsOf(r)}
  BY <1>1, <1>2
<1> QED BY <1>1, <1>3 DEF derivedState

\* A run stays up to date when neither it nor its steps nor those who work on
\* it change.
LEMMA UpToDateFrame ==
  ASSUME NEW r \in Runs, upToDate(r),
         \A s \in Steps : RunOf[s] = r => stepState'[s] = stepState[s],
         StepsOf(r) # {} => runState'[r] = runState[r],
         r \in starting' => r \in starting \/ StepsOf(r) = {},
         \A d \in Dispatches :
           \/ worker'[d] = worker[d]
           \/ ~ (inFlight(d) /\ RunOfDispatch(d) = r)
              /\ ~ (inFlight(d)' /\ RunOfDispatch(d)' = r),
         \A c \in Clients :
           \/ client'[c] = client[c]
           \/ ~ (handling(c) /\ client[c].run = r)
              /\ ~ (handling(c)' /\ client'[c].run = r),
         \A d \in Dispatches : inFlight(d) /\ RunOfDispatch(d) = r =>
           StepsOf(r) # {}
  PROVE  upToDate(r)'
<1>1. StepsOf(r)' = StepsOf(r) /\ derivedState(r)' = derivedState(r)
  BY SameSteps
<1>2. \A d \in Dispatches : inFlight(d)' /\ RunOfDispatch(d)' = r =>
        worker'[d] = worker[d] /\ inFlight(d) /\ RunOfDispatch(d) = r
  BY DEF inFlight, RunOfDispatch
<1>3. \A c \in Clients : handling(c)' /\ client'[c].run = r =>
        client'[c] = client[c] /\ handling(c) /\ client[c].run = r
  BY DEF handling
<1>4. \A d \in Dispatches : inFlight(d) /\ RunOfDispatch(d) = r =>
        inFlight(d)' /\ RunOfDispatch(d)' = r
  BY DEF inFlight, RunOfDispatch
<1>5. \A c \in Clients : handling(c) /\ client[c].run = r =>
        handling(c)' /\ client'[c].run = r
  BY DEF handling
<1>6. calm(r)' <=> calm(r)
  BY <1>2, <1>3, <1>4, <1>5 DEF calm
<1>7. /\ r \in starting' => StepsOf(r)' = {}
      /\ StepsOf(r)' # {} /\ calm(r)' => runState'[r] = derivedState(r)'
  BY <1>1, <1>6 DEF upToDate
<1>8. \A d \in Dispatches : inFlight(d)' /\ RunOfDispatch(d)' = r =>
       /\ worker'[d].pc = "reconciling" => worker'[d].seen = derivedState(r)'
       /\ worker'[d].pc \in {"closing", "clearing"} => runState'[r] = derivedState(r)'
  BY <1>1, <1>2 DEF upToDate
<1>9. \A c \in Clients : handling(c)' /\ client'[c].run = r =>
       (client'[c].pc = "reconciling" => client'[c].seen = derivedState(r)')
  BY <1>1, <1>3 DEF upToDate
<1> QED BY <1>7, <1>8, <1>9 DEF upToDate

\* The run of a dispatched step has a step.
LEMMA RunHasStep ==
  ASSUME IInv, CycleInv, NEW d \in Dispatches, worker[d].step \in Steps
  PROVE  RunOfDispatch(d) \in Runs /\ StepsOf(RunOfDispatch(d)) # {}
<1>1. stepState[worker[d].step] # "absent"
  BY DEF CycleInv, OneCycle
<1>2. worker[d].step \in StepsOf(RunOfDispatch(d))
  BY <1>1 DEF StepsOf, RunOfDispatch
<1> QED BY <1>2, RunServiceConstants DEF RunOfDispatch

\* The goroutine of a run keeps it up to date: it reads the steps after it has
\* ended its own, and nobody else moves them before it writes the row.
LEMMA WorkerUpToDate ==
  ASSUME Orderly, IInv, CycleInv, Apart, Agreed, NEW d \in Dispatches,
         workerStep(d)
  PROVE  upToDate(RunOfDispatch(d))'
<1>a. PICK r \in Runs : r = RunOfDispatch(d)
  BY EffectFrame, RunHasStep
<1>0. /\ inFlight(d) /\ effect(d) /\ worker[d].step \in Steps
      /\ UNCHANGED <<client, starting>>
      /\ worker'[d].step = worker[d].step
      /\ \A e \in Dispatches : e # d => worker'[e] = worker[e]
      /\ r \in Runs /\ StepsOf(r) # {} /\ upToDate(r)
      /\ Routable = Steps
      /\ runState \in [Runs -> RunStates \cup {"absent"}]
  <2>1. inFlight(d) /\ effect(d)
    BY GoroutineStep, GoroutineEffect DEF IInv
  <2>2. worker[d].step \in Steps
    BY EffectFrame
  <2> QED BY <1>a, <2>1, <2>2, EffectFrame, RunHasStep DEF Agreed, Orderly, IInv,
            TypeOK
<1>1. /\ r \notin starting'
      /\ RunOfDispatch(d)' = r
      /\ \A e \in Dispatches : e # d => ~ (inFlight(e)' /\ RunOfDispatch(e)' = r)
      /\ \A c \in Clients : ~ (handling(c)' /\ client'[c].run = r)
  <2>1. r \notin starting'
    BY <1>0 DEF upToDate
  <2>2. \A e \in Dispatches : e # d => ~ (inFlight(e) /\ RunOfDispatch(e) = r)
    BY <1>a, <1>0 DEF Apart
  <2>3. \A e \in Dispatches : e # d =>
          (inFlight(e)' <=> inFlight(e)) /\ RunOfDispatch(e)' = RunOfDispatch(e)
    BY <1>0 DEF inFlight, RunOfDispatch
  <2>4. \A c \in Clients : ~ (handling(c) /\ client[c].run = r)
    BY <1>a, <1>0 DEF Apart
  <2>5. \A c \in Clients : handling(c)' <=> handling(c)
    BY <1>0 DEF handling
  <2>6. RunOfDispatch(d)' = r
    BY <1>a, <1>0 DEF RunOfDispatch
  <2> QED BY <1>0, <2>1, <2>2, <2>3, <2>4, <2>5, <2>6
<1> SUFFICES upToDate(r)'
  BY <1>1 DEF upToDate
<1>2. inFlight(d) /\ RunOfDispatch(d) = r
  BY <1>a, <1>0
<1>3. ASSUME worker'[d].pc = "reconciling" => worker'[d].seen = derivedState(r)',
             worker'[d].pc \in {"closing", "clearing", "done"} =>
               runState'[r] = derivedState(r)',
             worker'[d].pc # "dead"
      PROVE  upToDate(r)'
  <2>1. \A e \in Dispatches : inFlight(e)' /\ RunOfDispatch(e)' = r => e = d
    BY <1>1
  <2>2. calm(r)' => worker'[d].pc \in {"unused", "done"}
    BY <1>1, <1>3 DEF calm, inFlight
  <2>3. worker'[d].pc # "unused"
    BY EffectFrame
  <2>4. StepsOf(r)' # {} /\ calm(r)' => runState'[r] = derivedState(r)'
    BY <1>3, <2>2, <2>3
  <2>5. \A e \in Dispatches : inFlight(e)' /\ RunOfDispatch(e)' = r =>
       /\ worker'[e].pc = "reconciling" => worker'[e].seen = derivedState(r)'
       /\ worker'[e].pc \in {"closing", "clearing"} => runState'[r] = derivedState(r)'
    BY <1>3, <2>1
  <2> QED BY <1>1, <2>4, <2>5 DEF upToDate
<1>4. CASE works(d) \/ ends(d) \/ gates(d) \/ parks(d)
  BY <1>0, <1>3, <1>4 DEF works, ends, gates, parks, executing
<1>5. CASE reads(d)
  <2>1. derivedState(r)' = derivedState(r)
    BY <1>5, SameSteps DEF reads
  <2> QED BY <1>2, <1>3, <1>5, <2>1 DEF reads
<1>6. CASE stores(d)
  <2>1. derivedState(r)' = derivedState(r)
    BY <1>6, SameSteps DEF stores
  <2>2. worker[d].seen = derivedState(r)
    BY <1>0, <1>2, <1>6 DEF stores, upToDate
  <2>3. runState'[r] = worker[d].seen
    BY <1>0, <1>2, <1>6 DEF stores
  <2> QED BY <1>3, <1>6, <2>1, <2>2, <2>3 DEF stores
<1>7. CASE leaves(d)
  <2>1. derivedState(r)' = derivedState(r)
    BY <1>7, SameSteps DEF leaves
  <2>2. runState[r] = derivedState(r)
    BY <1>0, <1>2, <1>7 DEF leaves, upToDate
  <2> QED BY <1>3, <1>7, <2>1, <2>2 DEF leaves
<1> QED BY <1>0, <1>4, <1>5, <1>6, <1>7 DEF effect

\* The goroutines keep every run up to date.
LEMMA WorkerAgrees ==
  ASSUME Orderly, IInv, CycleInv, Apart, Agreed, NEW d \in Dispatches,
         workerStep(d)
  PROVE  Agreed'
<1>0. /\ inFlight(d) /\ effect(d) /\ worker[d].step \in Steps
      /\ UNCHANGED <<client, starting>>
      /\ worker'[d].step = worker[d].step
      /\ \A e \in Dispatches : e # d => worker'[e] = worker[e]
      /\ \A s \in Steps \ {worker[d].step} : stepState'[s] = stepState[s]
      /\ runState \in [Runs -> RunStates \cup {"absent"}]
      /\ stepState \in [Steps -> StepStates \cup {"absent"}]
      /\ OneCycle
      /\ \A e \in Dispatches : inFlight(e) \/ past(e) => worker[e].step \in Steps
  <2>1. inFlight(d) /\ effect(d)
    BY GoroutineStep, GoroutineEffect DEF IInv
  <2>2. worker[d].step \in Steps
    BY EffectFrame
  <2>3. \A e \in Dispatches : inFlight(e) \/ past(e) => worker[e].step \in Steps
    BY DEF IInv, WorkerOK, wellFormedWorker, inFlight, past
  <2> QED BY <2>1, <2>2, <2>3, EffectFrame DEF IInv, TypeOK, CycleInv
<1>1. ASSUME NEW q \in Runs, q # RunOfDispatch(d)
      PROVE  upToDate(q)'
  <2>1. \A s \in Steps : RunOf[s] = q => stepState'[s] = stepState[s]
    BY <1>0, <1>1 DEF RunOfDispatch
  <2>2. runState'[q] = runState[q]
    BY <1>0, <1>1 DEF effect, works, ends, gates, parks, reads, stores, leaves
  <2>3. ~ (inFlight(d) /\ RunOfDispatch(d) = q) /\ ~ (inFlight(d)' /\ RunOfDispatch(d)' = q)
    BY <1>0, <1>1 DEF RunOfDispatch
  <2>4. \A e \in Dispatches : inFlight(e) /\ RunOfDispatch(e) = q => StepsOf(q) # {}
    BY <1>0, RunHasStep
  <2>5. upToDate(q)
    BY DEF Agreed
  <2> QED BY <1>0, <1>1, <2>1, <2>2, <2>3, <2>4, <2>5, UpToDateFrame
<1>2. upToDate(RunOfDispatch(d))'
  BY WorkerUpToDate
<1>3. RunOfDispatch(d)' = RunOfDispatch(d)
  BY <1>0 DEF RunOfDispatch
<1>4. \A q \in Runs : upToDate(q)'
  BY <1>1, <1>2, <1>3 DEF upToDate
<1>5. ASSUME NEW e \in Dispatches, past(e)'
      PROVE  stepState'[worker'[e].step] \notin ActiveStates
  <2>1. CASE e # d
    <3>1. past(e) /\ worker'[e] = worker[e] /\ worker[e].step # worker[d].step
      BY <1>0, <1>5, <2>1 DEF past, OneCycle
    <3>2. worker[e].step \in Steps
      BY <1>0, <3>1
    <3> QED BY <1>0, <3>1, <3>2 DEF Agreed
  <2>2. CASE e = d
    <3>1. ~ works(d) /\ ~ gates(d)
      BY <1>5, <2>2 DEF works, gates, past, executing
    <3>2. CASE ends(d) \/ parks(d)
      BY <1>0, <2>2, <3>2 DEF ends, parks, stepBecomes, ActiveStates
    <3>3. CASE reads(d) \/ stores(d) \/ leaves(d)
      BY <1>0, <2>2, <3>3 DEF reads, stores, leaves, past, Agreed
    <3> QED BY <1>0, <3>1, <3>2, <3>3 DEF effect
  <2> QED BY <2>1, <2>2
<1> QED BY <1>4, <1>5 DEF Agreed, past

\* The requests keep every run up to date: only one works on a run, and not
\* while its goroutine does.
LEMMA ReplyAgrees ==
  ASSUME Orderly, IInv, CycleInv, Apart, Agreed, Apart', NEW c \in Clients,
         handlerStep(c) \/ request(c)
  PROVE  Agreed'
<1>0. /\ reply(c)
      /\ \A e \in Clients : e # c => client'[e] = client[e]
      /\ UNCHANGED <<worker, starting>>
      /\ Quiet /\ OneCycle /\ Reported /\ TypeOK
      /\ runState \in [Runs -> RunStates \cup {"absent"}]
      /\ stepState \in [Steps -> StepStates \cup {"absent"}]
      /\ ~ resumes(c) /\ ~ goes(c)
      /\ \A d \in Dispatches : gate[d] # "absent" => worker[d].step \in Steps
      /\ \A d \in Dispatches : inFlight(d) \/ past(d) => worker[d].step \in Steps
  <2>1. Undisturbed
    BY DEF Orderly, Paced
  <2>2. ~ resumes(c) /\ ~ goes(c)
    BY DEF Orderly, resumes, goes
  <2>3. \A d \in Dispatches : inFlight(d) \/ past(d) => worker[d].step \in Steps
    BY DEF IInv, WorkerOK, wellFormedWorker, inFlight, past
  <2> QED BY <2>1, <2>2, <2>3, ReplyEffect DEF CycleInv, IInv, TypeOK, GateOK
<1>1. /\ \A d \in Dispatches : /\ inFlight(d)' <=> inFlight(d)
                               /\ RunOfDispatch(d)' = RunOfDispatch(d)
                               /\ past(d)' <=> past(d)
      /\ \A e \in Clients : e # c => (handling(e)' <=> handling(e))
      /\ \A q \in Runs : upToDate(q)
      /\ \A q \in Runs, d \in Dispatches :
           inFlight(d) /\ RunOfDispatch(d) = q => StepsOf(q) # {}
  <2>1. \A q \in Runs, d \in Dispatches :
           inFlight(d) /\ RunOfDispatch(d) = q => StepsOf(q) # {}
    BY <1>0, RunHasStep
  <2> QED BY <1>0, <2>1 DEF inFlight, RunOfDispatch, past, handling, Agreed
\* The runs that the request is not about.
<1>2. ASSUME NEW q \in Runs,
             \A s \in Steps : RunOf[s] = q => stepState'[s] = stepState[s],
             runState'[q] = runState[q],
             ~ (handling(c) /\ client[c].run = q),
             ~ (handling(c)' /\ client'[c].run = q)
      PROVE  upToDate(q)'
  <2>1. \A e \in Clients :
           \/ client'[e] = client[e]
           \/ ~ (handling(e) /\ client[e].run = q)
              /\ ~ (handling(e)' /\ client'[e].run = q)
    BY <1>0, <1>2
  <2> QED BY <1>0, <1>1, <1>2, <2>1, UpToDateFrame
\* The run that it is about.
<1>3. ASSUME NEW q \in Runs,
             q \in starting => StepsOf(q)' = {},
             \A d \in Dispatches : ~ (inFlight(d) /\ RunOfDispatch(d) = q),
             \A e \in Clients : e # c => ~ (handling(e) /\ client[e].run = q),
             client'[c].pc = "reconciling" => client'[c].seen = derivedState(q)',
             ~ handling(c)' => runState'[q] = derivedState(q)',
             handling(c)' => client'[c].run = q
      PROVE  upToDate(q)'
  <2>1. \A d \in Dispatches : ~ (inFlight(d)' /\ RunOfDispatch(d)' = q)
    BY <1>1, <1>3
  <2>2. \A e \in Clients : handling(e)' /\ client'[e].run = q => e = c
    BY <1>0, <1>1, <1>3
  <2>3. calm(q)' => ~ handling(c)'
    BY <1>3 DEF calm
  <2>4. \A e \in Clients : handling(e)' /\ client'[e].run = q =>
          (client'[e].pc = "reconciling" => client'[e].seen = derivedState(q)')
    BY <1>3, <2>2
  <2>5. q \in starting' => StepsOf(q)' = {}
    BY <1>0, <1>3
  <2> QED BY <1>3, <2>1, <2>3, <2>4, <2>5 DEF upToDate
<1>4. CASE asks(c)
  <2>1. PICK r \in Runs : r = client'[c].run
    BY <1>4 DEF asks, Apart, handling
  <2>2. /\ UNCHANGED <<runState, stepState>>
        /\ client[c].pc = "idle" /\ client'[c].pc = "resolving"
    BY <1>4 DEF asks
  <2>3. ~ handling(c) /\ handling(c)'
    BY <2>2 DEF handling
  <2>4. \A q \in Runs : q # r => upToDate(q)'
    BY <1>2, <2>1, <2>2, <2>3
  <2>5. upToDate(r)'
    <3>1. StepsOf(r)' = StepsOf(r)
      BY <2>2, SameSteps
    <3>2. r \in starting => StepsOf(r)' = {}
      BY <1>1, <3>1 DEF upToDate
    <3>3. \A d \in Dispatches : ~ (inFlight(d) /\ RunOfDispatch(d) = r)
      BY <1>1, <2>1, <2>3 DEF Apart
    <3>4. \A e \in Clients : e # c => ~ (handling(e) /\ client[e].run = r)
      BY <1>0, <1>1, <2>1, <2>3 DEF Apart
    <3> QED BY <1>3, <2>1, <2>2, <2>3, <3>2, <3>3, <3>4
  <2> QED BY <1>0, <1>1, <2>2, <2>4, <2>5 DEF Agreed
<1>5. CASE decides(c) \/ restores(c) \/ derives(c) \/ records(c)
  <2>1. /\ handling(c)
        /\ handling(c)' => client'[c].run = client[c].run
        /\ handling(c)' <=> ~ records(c)
    BY <1>5 DEF decides, restores, derives, records, handling
  <2>2. PICK r \in Runs : r = client[c].run
    BY <2>1 DEF Apart
  <2>3. /\ \A d \in Dispatches : ~ (inFlight(d) /\ RunOfDispatch(d) = r)
        /\ \A e \in Clients : e # c => ~ (handling(e) /\ client[e].run = r)
    BY <2>1, <2>2 DEF Apart
  <2>4. CASE restores(c)
    <3>1. PICK g \in Dispatches :
            /\ g = client[c].gate /\ gate[g] # "absent" /\ RunOfDispatch(g) = r
      BY <1>0, <2>2, <2>4 DEF restores, Quiet, Apart
    <3>2. worker[g].step \in Steps
      BY <1>0, <3>1
    <3>3. PICK v \in restoreStates(worker[g].step) \cup {"cancelled"} :
            stepState' = [stepState EXCEPT ![worker[g].step] = v]
      BY <2>4, <3>1 DEF restores, stepBecomes
    <3>4. v \notin ActiveStates
      <4>1. Reports \cap ActiveStates = {}
        BY RunServiceConstants DEF Reports, FailureStates, ActiveStates
      <4> QED BY <1>0, <3>3, <4>1, RestoreReports DEF ActiveStates
    <3>5. /\ \A s \in Steps : s # worker[g].step => stepState'[s] = stepState[s]
          /\ stepState'[worker[g].step] = v
      BY <1>0, <3>2, <3>3
    <3>6. \A d \in Dispatches : past(d)' =>
            stepState'[worker'[d].step] \notin ActiveStates
      <4> SUFFICES ASSUME NEW d \in Dispatches, past(d)
                   PROVE  stepState'[worker[d].step] \notin ActiveStates
        BY <1>0, <1>1
      <4> QED BY <1>0, <3>4, <3>5 DEF Agreed
    <3>7. r \notin starting
      BY <1>1, <3>1, <3>2, RunHasStep DEF upToDate
    <3>8. runState' = runState /\ client'[c].pc # "reconciling"
      BY <2>4 DEF restores
    <3>9. handling(c)'
      BY <2>4 DEF restores, handling
    <3>10. upToDate(r)'
      BY <1>3, <2>1, <2>2, <2>3, <3>7, <3>8, <3>9
    <3>11. ASSUME NEW q \in Runs, q # r
           PROVE  upToDate(q)'
      <4>1. \A s \in Steps : RunOf[s] = q => stepState'[s] = stepState[s]
        BY <3>1, <3>5, <3>11 DEF RunOfDispatch
      <4> QED BY <1>2, <2>1, <2>2, <3>8, <3>11, <4>1
    <3> QED BY <3>6, <3>10, <3>11 DEF Agreed
  <2>5. CASE decides(c) \/ derives(c) \/ records(c)
    <3>1. stepState' = stepState
      BY <2>5 DEF decides, derives, records
    <3>2. \A q \in Runs : StepsOf(q)' = StepsOf(q) /\ derivedState(q)' = derivedState(q)
      BY <3>1, SameSteps
    <3>3. ASSUME NEW q \in Runs, q # r
          PROVE  upToDate(q)'
      <4>1. runState'[q] = runState[q]
        BY <1>0, <2>2, <2>5, <3>3 DEF decides, derives, records
      <4> QED BY <1>2, <2>1, <2>2, <3>1, <3>3, <4>1
    <3>4. r \in starting => StepsOf(r)' = {}
      BY <1>1, <3>2 DEF upToDate
    <3>5. client'[c].pc = "reconciling" => client'[c].seen = derivedState(r)'
      BY <2>2, <2>5, <3>2 DEF decides, derives, records
    <3>6. ~ handling(c)' => runState'[r] = derivedState(r)'
      <4> SUFFICES ASSUME records(c) PROVE runState'[r] = derivedState(r)'
        BY <2>1
      <4>1. client[c].seen = derivedState(r)
        BY <1>1, <2>1, <2>2 DEF records, upToDate
      <4> QED BY <1>0, <2>2, <3>2, <4>1 DEF records
    <3>7. upToDate(r)'
      BY <1>3, <2>1, <2>2, <2>3, <3>4, <3>5, <3>6
    <3> QED BY <1>0, <1>1, <3>1, <3>3, <3>7 DEF Agreed
  <2> QED BY <1>5, <2>4, <2>5
<1> QED BY <1>0, <1>4, <1>5 DEF reply

\* Starting a run and dispatching a step keep every run up to date.
LEMMA NextAgrees ==
  ASSUME Orderly
  PROVE  IInv /\ CycleInv /\ Recorded /\ Apart /\ Agreed /\ [Next]_vars => Agreed'
<1> SUFFICES ASSUME IInv, CycleInv, Recorded, Apart, Agreed, [Next]_vars
             PROVE  Agreed'
  OBVIOUS
<1>0. /\ Paced /\ Undisturbed /\ Apart'
      /\ runState \in [Runs -> RunStates \cup {"absent"}]
      /\ stepState \in [Steps -> StepStates \cup {"absent"}]
      /\ \A d \in Dispatches : inFlight(d) \/ past(d) => worker[d].step \in Steps
      /\ \A q \in Runs : upToDate(q)
      /\ \A q \in Runs, d \in Dispatches :
           inFlight(d) /\ RunOfDispatch(d) = q => StepsOf(q) # {}
  <2>1. Paced /\ Undisturbed
    BY DEF Orderly, Paced
  <2>2. Apart'
    BY <2>1, NextApart
  <2>3. \A d \in Dispatches : inFlight(d) \/ past(d) => worker[d].step \in Steps
    BY DEF IInv, WorkerOK, wellFormedWorker, inFlight, past
  <2>4. \A q \in Runs, d \in Dispatches :
           inFlight(d) /\ RunOfDispatch(d) = q => StepsOf(q) # {}
    BY <2>3, RunHasStep
  <2> QED BY <2>1, <2>2, <2>3, <2>4 DEF IInv, TypeOK, Agreed
<1>1. ASSUME NEW r \in Runs, startRunCreate(r) \/ startRunActivate(r)
      PROVE  Agreed'
  <2>1. /\ UNCHANGED <<stepState, worker, client>>
        /\ starting' \subseteq starting \cup {r}
        /\ \A q \in Runs : q # r => runState'[q] = runState[q]
    BY <1>0, <1>1 DEF startRunCreate, startRunActivate
  <2>2. StepsOf(r) = {}
    <3>1. CASE startRunCreate(r)
      BY <3>1 DEF startRunCreate, Recorded, StepsOf
    <3>2. CASE startRunActivate(r)
      BY <1>0, <3>2 DEF startRunActivate, upToDate
    <3> QED BY <1>1, <3>1, <3>2
  <2>3. \A q \in Runs : upToDate(q)'
    BY <1>0, <2>1, <2>2, UpToDateFrame
  <2> QED BY <2>1, <2>3 DEF Agreed, past
<1>2. ASSUME NEW d \in Dispatches, NEW s \in Steps, DispatchStepAsync(d, s)
      PROVE  Agreed'
  <2>1. /\ worker[d].pc = "unused"
        /\ worker'[d].pc = "register" /\ worker'[d].step = s
        /\ \A e \in Dispatches : e # d => worker'[e] = worker[e]
        /\ \A e \in Dispatches : worker[e].step # s
        /\ stepState' = [stepState EXCEPT ![s] = "dispatching"]
        /\ returned(RunOf[s]) /\ RunOf[s] \notin starting
        /\ UNCHANGED <<runState, client, starting>>
    BY <1>2, DispatchEffect
  <2>2. /\ \A t \in Steps : t # s => stepState'[t] = stepState[t]
        /\ RunOf[s] \in Runs
    BY <1>0, <2>1, RunServiceConstants
  <2>3. /\ ~ inFlight(d) /\ inFlight(d)' /\ RunOfDispatch(d)' = RunOf[s]
        /\ \A e \in Dispatches : e # d =>
             (inFlight(e)' <=> inFlight(e)) /\ RunOfDispatch(e)' = RunOfDispatch(e)
    BY <2>1 DEF inFlight, RunOfDispatch
  <2>4. /\ \A e \in Dispatches : inFlight(e) => RunOfDispatch(e) # RunOf[s]
        /\ \A c \in Clients : handling(c) => client[c].run # RunOf[s]
    BY <1>0, <2>1 DEF returned, Paced
  <2>5. ASSUME NEW q \in Runs, q # RunOf[s]
        PROVE  upToDate(q)'
    <3>1. \A t \in Steps : RunOf[t] = q => stepState'[t] = stepState[t]
      BY <2>2, <2>5
    <3>2. \A e \in Dispatches :
           \/ worker'[e] = worker[e]
           \/ ~ (inFlight(e) /\ RunOfDispatch(e) = q)
              /\ ~ (inFlight(e)' /\ RunOfDispatch(e)' = q)
      BY <2>1, <2>3, <2>5
    <3> QED BY <1>0, <2>1, <3>1, <3>2, UpToDateFrame
  <2>6. upToDate(RunOf[s])'
    <3>1. \A c \in Clients : ~ (handling(c)' /\ client'[c].run = RunOf[s])
      BY <2>1, <2>4 DEF handling
    <3>2. \A e \in Dispatches : inFlight(e)' /\ RunOfDispatch(e)' = RunOf[s] => e = d
      BY <2>3, <2>4
    <3>3. ~ calm(RunOf[s])'
      BY <2>3 DEF calm
    <3> QED BY <2>1, <3>1, <3>2, <3>3 DEF upToDate
  <2>7. \A q \in Runs : upToDate(q)'
    BY <2>5, <2>6
  <2>8. ASSUME NEW e \in Dispatches, past(e)'
        PROVE  stepState'[worker'[e].step] \notin ActiveStates
    <3>1. e # d /\ past(e) /\ worker'[e] = worker[e]
      BY <2>1, <2>8 DEF past
    <3>2. worker[e].step \in Steps /\ worker[e].step # s
      BY <1>0, <2>1, <3>1
    <3> QED BY <2>2, <3>1, <3>2 DEF Agreed
  <2> QED BY <2>7, <2>8 DEF Agreed, past
<1>3. ASSUME NEW d \in Dispatches, workerStep(d)
      PROVE  Agreed'
  BY <1>3, WorkerAgrees
<1>4. ASSUME NEW c \in Clients, handlerStep(c) \/ request(c)
      PROVE  Agreed'
  BY <1>0, <1>4, ReplyAgrees
<1>5. CASE UNCHANGED vars
  <2>1. UNCHANGED <<runState, stepState, worker, client, starting>>
    BY <1>5 DEF vars, rows, memory
  <2>2. \A q \in Runs : upToDate(q)'
    BY <1>0, <2>1, UpToDateFrame
  <2> QED BY <2>1, <2>2 DEF Agreed, past
<1> QED BY <1>0, <1>1, <1>2, <1>3, <1>4, <1>5, CalmStep

\* When steps are dispatched one after the other, every adapter profile is
\* registered and callers wait for their verdicts to be stored, the row of a run
\* whose goroutines and requests have returned is what deriveRunState says of
\* its steps, none of which is left active: the reads and writes of
\* reconcileRunState that come apart in time do not lose an outcome.
THEOREM RunsAgree ==
  ASSUME Orderly
  PROVE  Spec => []RunAgrees
<1>0. Paced /\ Undisturbed
  BY DEF Orderly, Paced
<1>1. Init => Recorded
  BY InitRecorded
<1>2. Init => Agreed
  <2> SUFFICES ASSUME Init PROVE Agreed
    OBVIOUS
  <2>1. idleWorker.pc = "unused" /\ idleClient.pc = "idle"
    BY DEF idleWorker, idleClient
  <2>2. /\ \A d \in Dispatches : ~ inFlight(d) /\ ~ past(d)
        /\ \A c \in Clients : ~ handling(c)
        /\ \A r \in Runs : StepsOf(r) = {}
    BY <2>1 DEF Init, inFlight, past, handling, StepsOf
  <2> QED BY <2>2 DEF Agreed, upToDate
<1>3. IInv /\ CycleInv /\ [Next]_vars => CycleInv'
  BY <1>0, NextCycle
<1>4. IInv /\ CycleInv /\ Apart /\ [Next]_vars => Apart'
  BY <1>0, NextApart
<1>5. IInv /\ CycleInv /\ Recorded /\ Apart /\ Agreed /\ [Next]_vars => Agreed'
  BY NextAgrees
<1>6. IInv /\ CycleInv /\ Agreed => RunAgrees
  <2> SUFFICES ASSUME IInv, CycleInv, Agreed,
                      \A d \in Dispatches : ~ inFlight(d),
                      \A c \in Clients : ~ handling(c),
                      NEW r \in Runs, StepsOf(r) # {}
               PROVE  /\ runState[r] = derivedState(r)
                      /\ \A s \in StepsOf(r) : stepState[s] \notin ActiveStates
    BY DEF RunAgrees
  <2>1. runState[r] = derivedState(r)
    BY DEF Agreed, upToDate, calm
  <2>2. ASSUME NEW s \in StepsOf(r) PROVE stepState[s] \notin ActiveStates
    <3>1. PICK d \in Dispatches : worker[d].step = s
      BY DEF CycleInv, OneCycle, StepsOf
    <3>2. worker[d].step \in Steps /\ idleWorker.step \notin Steps
      BY <3>1, RunServiceConstants DEF StepsOf, idleWorker
    <3>3. worker[d].pc \notin {"unused", "dead"}
      BY <3>2 DEF CycleInv, OneCycle, Quiet
    <3>4. past(d)
      BY <3>3 DEF inFlight, past
    <3> QED BY <3>1, <3>4 DEF Agreed
  <2> QED BY <2>1, <2>2
<1> QED BY <1>1, <1>2, <1>3, <1>4, <1>5, <1>6, InitCycle, InitApart, NextRecorded,
          Invariance, PTL DEF Spec

-----------------------------------------------------------------------------
(* Aborts, when nobody does anything else and the daemon does not crash.   *)

\* Any number of aborts, at any pace.
OnlyAborts == Ops \subseteq {"abort"} /\ MaxCrashes = 0

\* A step has one dispatch, and is not cancelled before that has ended it.  Once
\* an abort is confirmed the goroutine it was about has nothing left to do, and
\* only another abort that found no goroutine may have rewritten the step.
AbortInv ==
  /\ up /\ crashes = 0
  /\ \A d \in Dispatches : worker[d].pc # "dead"
  /\ \A c \in Clients : client[c].pc \in
       {"idle", "orphans", "signal", "waiting", "reconcile", "reconciling",
        "done", "aborted"}
  /\ \A c \in Clients : client[c].pc \in {"signal", "waiting", "aborted"} =>
       client[c].disp \in Dispatches
  /\ \A d \in Dispatches : worker[d].pc = "unused" => worker[d] = idleWorker
  /\ \A d, e \in Dispatches :
       worker[d].step \in Steps /\ worker[d].step = worker[e].step => d = e
  /\ \A s \in Steps : stepState[s] # "absent" <=>
       \E d \in Dispatches : worker[d].step = s
  /\ \A d \in Dispatches : executing(d) => stepState[worker[d].step] # "cancelled"
  /\ \A c \in Clients : client[c].pc = "aborted" =>
       LET d == client[c].disp IN
       /\ worker[d].pc \in {"clearing", "done"}
       /\ \/ stepState[worker[d].step] = "cancelled"
          \/ /\ stepState[worker[d].step] = "needs_manual_attention"
             /\ \E e \in Clients \ {c} :
                  client[e].pc \in {"reconcile", "reconciling", "done"}

\* What a goroutine may do to its step: leave it active while it executes, and
\* nothing once its channel is closed.
LEMMA WorkerOnStep ==
  ASSUME IInv, NEW d \in Dispatches, workerStep(d)
  PROVE  /\ worker'[d].pc \notin {"unused", "dead"}
         /\ UNCHANGED <<client, up, crashes>>
         /\ worker[d].pc = "clearing" =>
              worker'[d].pc = "done" /\ stepState' = stepState
         /\ executing(d)' =>
              /\ executing(d)
              /\ \/ stepState' = stepState
                 \/ \E v \in ActiveStates : stepBecomes(d, v)
<1>0. /\ worker \in [Dispatches -> Goroutines]
      /\ worker[d] \in Goroutines
      /\ {"running", "collecting_artifacts", "validating"} \subseteq ActiveStates
  BY DEF IInv, TypeOK, ActiveStates
<1> USE <1>0 DEF Goroutines, rows, memory, executing, stepBecomes
<1>1. CASE registerExecution(d)
  BY <1>1 DEF registerExecution
<1>2. CASE finalizeEarlyAbort(d)
  BY <1>2 DEF finalizeEarlyAbort
<1>3. CASE noViableAdapter(d)
  BY <1>3 DEF noViableAdapter
<1>4. CASE beginAttempts(d)
  BY <1>4 DEF beginAttempts
<1>5. CASE createAttempt(d)
  BY <1>5 DEF createAttempt
<1>6. CASE artifactRootFails(d)
  BY <1>6 DEF artifactRootFails, setResult
<1>7. CASE lockConflict(d)
  BY <1>7 DEF lockConflict, setResult
<1>8. CASE openLock(d)
  BY <1>8 DEF openLock
<1>9. CASE writeOwner(d)
  BY <1>9 DEF writeOwner
<1>10. CASE environmentFails(d)
  BY <1>10 DEF environmentFails, setResult
<1>11. CASE adapterStart(d)
  BY <1>11 DEF adapterStart
<1>12. CASE pollStops(d)
  BY <1>12 DEF pollStops, setResult
<1>13. CASE pollFinishes(d)
  BY <1>13 DEF pollFinishes, updateStep
<1>14. CASE collectFails(d)
  BY <1>14 DEF collectFails, setResult
<1>15. CASE normalizeResult(d)
  BY <1>15 DEF normalizeResult, setResult
<1>16. CASE startValidations(d)
  BY <1>16 DEF startValidations, updateStep
<1>17. CASE evaluatePolicy(d)
  BY <1>17 DEF evaluatePolicy
<1>18. CASE releaseLock(d)
  BY <1>18 DEF releaseLock
<1>19. CASE afterAttempt(d)
  BY <1>19 DEF afterAttempt
<1>20. CASE finalizeStep(d)
  BY <1>20 DEF finalizeStep
<1>21. CASE createGate(d)
  BY <1>21 DEF createGate
<1>22. CASE parkStep(d)
  BY <1>22 DEF parkStep
<1>23. CASE reconcileRead(d)
  BY <1>23 DEF reconcileRead
<1>24. CASE reconcileWrite(d)
  BY <1>24 DEF reconcileWrite
<1>25. CASE closeDone(d)
  BY <1>25 DEF closeDone
<1>26. CASE clearExecution(d)
  BY <1>26 DEF clearExecution
<1> QED
  BY <1>1, <1>2, <1>3, <1>4, <1>5, <1>6, <1>7, <1>8, <1>9, <1>10, <1>11, <1>12,
     <1>13, <1>14, <1>15, <1>16, <1>17, <1>18, <1>19, <1>20, <1>21, <1>22, <1>23,
     <1>24, <1>25, <1>26 DEF workerStep

\* The goroutines preserve the invariant.
LEMMA WorkerAborts ==
  ASSUME IInv, AbortInv, NEW d \in Dispatches, workerStep(d)
  PROVE  AbortInv'
<1>0. /\ stepState \in [Steps -> StepStates \cup {"absent"}]
      /\ \A e \in Dispatches : worker[e].pc # "unused" => worker[e].step \in Steps
      /\ worker \in [Dispatches -> Goroutines]
      /\ "cancelled" \notin ActiveStates
  BY DEF IInv, TypeOK, WorkerOK, wellFormedWorker, ActiveStates
<1>1. /\ worker[d].pc # "unused" /\ worker[d].step \in Steps
      /\ worker'[d].step = worker[d].step
      /\ \A e \in Dispatches : e # d => worker'[e] = worker[e]
  <2>1. /\ inFlight(d) /\ worker' = [worker EXCEPT ![d] = worker'[d]]
        /\ worker'[d].step = worker[d].step
    BY GoroutineStep DEF IInv
  <2> QED BY <1>0, <2>1 DEF inFlight
<1>2. /\ worker'[d].pc \notin {"unused", "dead"}
      /\ UNCHANGED <<client, up, crashes>>
      /\ worker[d].pc = "clearing" =>
           worker'[d].pc = "done" /\ stepState' = stepState
      /\ executing(d)' =>
           /\ executing(d)
           /\ \/ stepState' = stepState
              \/ \E v \in ActiveStates : stepBecomes(d, v)
  BY WorkerOnStep
<1>3. /\ \A s \in Steps : s # worker[d].step => stepState'[s] = stepState[s]
      /\ stepState'[worker[d].step] # "absent"
  <2>1. stepState[worker[d].step] # "absent"
    BY <1>1 DEF AbortInv
  <2> QED BY <1>1, <2>1, WorkerRows
<1>4. \A e \in Dispatches : worker'[e].step = worker[e].step
  BY <1>1
<1>5. \A e \in Dispatches : e # d /\ worker[e].pc # "unused" =>
        stepState'[worker[e].step] = stepState[worker[e].step]
  BY <1>0, <1>1, <1>3 DEF AbortInv
<1>6. /\ \A e \in Dispatches : worker'[e].pc # "dead"
      /\ \A e \in Dispatches : worker'[e].pc = "unused" => worker'[e] = idleWorker
      /\ \A e, f \in Dispatches :
           worker'[e].step \in Steps /\ worker'[e].step = worker'[f].step => e = f
  BY <1>1, <1>2, <1>4 DEF AbortInv
<1>7. \A s \in Steps : stepState'[s] # "absent" <=>
        \E e \in Dispatches : worker'[e].step = s
  BY <1>1, <1>3, <1>4 DEF AbortInv
<1>8. ASSUME NEW e \in Dispatches, executing(e)'
      PROVE  stepState'[worker'[e].step] # "cancelled"
  <2>1. CASE e = d
    <3>1. executing(d) /\ stepState[worker[d].step] # "cancelled"
      BY <1>2, <1>8, <2>1 DEF AbortInv
    <3> QED BY <1>0, <1>1, <1>2, <1>8, <2>1, <3>1 DEF stepBecomes
  <2>2. CASE e # d
    <3>1. executing(e) /\ worker'[e] = worker[e]
      BY <1>1, <1>8, <2>2 DEF executing
    <3> QED BY <1>5, <2>2, <3>1 DEF executing, AbortInv
  <2> QED BY <2>1, <2>2
<1>9. ASSUME NEW c \in Clients, client[c].pc = "aborted"
      PROVE  LET e == client[c].disp IN
             /\ worker'[e].pc \in {"clearing", "done"}
             /\ stepState'[worker'[e].step] = stepState[worker[e].step]
  <2>1. PICK e \in Dispatches : /\ e = client[c].disp
                                /\ worker[e].pc \in {"clearing", "done"}
    BY <1>9 DEF AbortInv
  <2>2. worker[d].pc # "done"
    BY GoroutineStep DEF IInv, inFlight
  <2>3. CASE e = d
    BY <1>2, <1>4, <2>1, <2>2, <2>3
  <2>4. CASE e # d
    BY <1>1, <1>5, <2>1, <2>4
  <2> QED BY <2>1, <2>3, <2>4
<1>10. \A c \in Clients : client'[c].pc = "aborted" =>
       LET e == client'[c].disp IN
       /\ worker'[e].pc \in {"clearing", "done"}
       /\ \/ stepState'[worker'[e].step] = "cancelled"
          \/ /\ stepState'[worker'[e].step] = "needs_manual_attention"
             /\ \E f \in Clients \ {c} :
                  client'[f].pc \in {"reconcile", "reconciling", "done"}
  BY <1>2, <1>9 DEF AbortInv
<1> QED BY <1>2, <1>6, <1>7, <1>8, <1>10 DEF AbortInv, executing

\* The requests preserve the invariant: an abort that found a goroutine waits
\* for it, one that found none moves the steps it has listed.
LEMMA RequestAborts ==
  ASSUME OnlyAborts, IInv, Recorded, AbortInv, NEW c \in Clients,
         handlerStep(c) \/ request(c)
  PROVE  AbortInv'
<1>0. /\ client \in [Clients -> Handlers] /\ client[c] \in Handlers
      /\ stepState \in [Steps -> StepStates \cup {"absent"}]
      /\ \A e \in Dispatches : worker[e].pc # "unused" => worker[e].step \in Steps
      /\ \A r \in Runs : execution[r] \in Dispatches \cup {None}
      /\ client[c].pc \in {"idle", "orphans", "signal", "waiting", "reconcile",
                           "reconciling", "done", "aborted"}
      /\ \A s \in client[c].marks : s \in Steps /\ stepState[s] # "absent"
      /\ \A o \in Ops : o = "abort"
  BY DEF IInv, TypeOK, WorkerOK, wellFormedWorker, AbortInv, Recorded, Handlers,
       OnlyAborts
<1> USE DEF rows, memory
\* The step rows are as they were or handed to the operator.
<1>1. ASSUME NEW h, client' = [client EXCEPT ![c] = h],
             UNCHANGED <<worker, up, crashes>>,
             stepState' \in [Steps -> StepStates \cup {"absent"}],
             \A s \in Steps : \/ stepState'[s] = stepState[s]
                              \/ /\ stepState'[s] = "needs_manual_attention"
                                 /\ stepState[s] # "absent"
                                 /\ h.pc = "reconcile",
             client[c].pc # "aborted",
             client[c].pc \in {"reconcile", "reconciling", "done"} =>
               h.pc \in {"reconcile", "reconciling", "done"},
             h.pc \in {"idle", "orphans", "signal", "waiting", "reconcile",
                       "reconciling", "done", "aborted"},
             h.pc \in {"signal", "waiting", "aborted"} => h.disp \in Dispatches,
             h.pc = "aborted" => /\ worker[h.disp].pc \in {"clearing", "done"}
                                 /\ stepState[worker[h.disp].step] = "cancelled"
      PROVE  AbortInv'
  <2>1. client'[c] = h /\ \A e \in Clients : e # c => client'[e] = client[e]
    BY <1>0, <1>1
  <2>2. /\ \A e \in Clients : client'[e].pc \in
             {"idle", "orphans", "signal", "waiting", "reconcile", "reconciling",
              "done", "aborted"}
        /\ \A e \in Clients : client'[e].pc \in {"signal", "waiting", "aborted"} =>
             client'[e].disp \in Dispatches
    BY <1>1, <2>1 DEF AbortInv
  <2>3. \A s \in Steps : stepState'[s] # "absent" <=> stepState[s] # "absent"
    BY <1>1
  <2>4. \A s \in Steps : stepState'[s] # "absent" <=>
          \E d \in Dispatches : worker'[d].step = s
    BY <1>1, <2>3 DEF AbortInv
  <2>5. \A d \in Dispatches : executing(d)' =>
          stepState'[worker'[d].step] # "cancelled"
    <3> SUFFICES ASSUME NEW d \in Dispatches, executing(d)
                 PROVE  stepState'[worker[d].step] # "cancelled"
      BY <1>1 DEF executing
    <3>1. worker[d].step \in Steps /\ stepState[worker[d].step] # "cancelled"
      BY <1>0 DEF executing, AbortInv
    <3> QED BY <1>1, <3>1
  <2>6. ASSUME NEW e \in Clients, client'[e].pc = "aborted"
        PROVE  LET d == client'[e].disp IN
               /\ worker'[d].pc \in {"clearing", "done"}
               /\ \/ stepState'[worker'[d].step] = "cancelled"
                  \/ /\ stepState'[worker'[d].step] = "needs_manual_attention"
                     /\ \E f \in Clients \ {e} :
                          client'[f].pc \in {"reconcile", "reconciling", "done"}
    <3>1. PICK d \in Dispatches : d = client'[e].disp
      BY <2>2, <2>6
    <3>2. CASE e = c
      <4>1. h.pc = "aborted" /\ h.disp = d
        BY <2>1, <2>6, <3>1, <3>2
      <4>2. worker[d].pc \in {"clearing", "done"} /\ worker[d].step \in Steps
        BY <1>0, <1>1, <4>1
      <4>3. stepState'[worker[d].step] = "cancelled"
        BY <1>1, <4>1, <4>2
      <4> QED BY <1>1, <3>1, <4>2, <4>3
    <3>3. CASE e # c
      <4>1. client[e].pc = "aborted" /\ client[e].disp = d
        BY <2>1, <2>6, <3>1, <3>3
      <4>2. /\ worker[d].pc \in {"clearing", "done"} /\ worker[d].step \in Steps
            /\ \/ stepState[worker[d].step] = "cancelled"
               \/ /\ stepState[worker[d].step] = "needs_manual_attention"
                  /\ \E f \in Clients \ {e} :
                       client[f].pc \in {"reconcile", "reconciling", "done"}
        BY <1>0, <4>1 DEF AbortInv
      <4>3. CASE stepState'[worker[d].step] # stepState[worker[d].step]
        <5>1. stepState'[worker[d].step] = "needs_manual_attention" /\ h.pc = "reconcile"
          BY <1>1, <4>2, <4>3
        <5> QED BY <1>1, <2>1, <3>1, <3>3, <4>2, <5>1
      <4>4. CASE stepState'[worker[d].step] = stepState[worker[d].step]
        <5>1. \A f \in Clients \ {e} :
                client[f].pc \in {"reconcile", "reconciling", "done"} =>
                  client'[f].pc \in {"reconcile", "reconciling", "done"}
          BY <1>1, <2>1
        <5> QED BY <1>1, <3>1, <4>2, <4>4, <5>1
      <4> QED BY <4>3, <4>4
    <3> QED BY <3>2, <3>3
  <2> QED BY <1>1, <2>2, <2>4, <2>5, <2>6 DEF AbortInv, executing
<1>2. CASE abortOrphans(c)
  <2> DEFINE h == [client[c] EXCEPT !.pc = "reconcile", !.marks = {}]
  <2>1. h.pc = "reconcile"
    BY <1>0 DEF Handlers
  <2>2. /\ client' = [client EXCEPT ![c] = h] /\ client[c].pc = "orphans"
        /\ stepState' = [s \in Steps |-> IF s \in client[c].marks
                            THEN "needs_manual_attention" ELSE stepState[s]]
        /\ UNCHANGED <<worker, up, crashes>>
    BY <1>2 DEF abortOrphans
  <2>3. stepState' \in [Steps -> StepStates \cup {"absent"}]
    BY <1>0, <2>2, StateNames DEF StepStates
  <2> HIDE DEF h
  <2> QED BY <1>0, <1>1, <2>1, <2>2, <2>3
<1>3. ASSUME NEW h, client' = [client EXCEPT ![c] = h],
             UNCHANGED <<stepState, worker, up, crashes>>,
             client[c].pc # "aborted",
             client[c].pc \in {"reconcile", "reconciling", "done"} =>
               h.pc \in {"reconcile", "reconciling", "done"},
             h.pc \in {"idle", "orphans", "signal", "waiting", "reconcile",
                       "reconciling", "done", "aborted"},
             h.pc \in {"signal", "waiting", "aborted"} => h.disp \in Dispatches,
             h.pc = "aborted" => /\ worker[h.disp].pc \in {"clearing", "done"}
                                 /\ stepState[worker[h.disp].step] = "cancelled"
      PROVE  AbortInv'
  BY <1>0, <1>1, <1>3
<1>4. CASE abortSignal(c)
  <2> DEFINE h == [client[c] EXCEPT !.pc = "waiting"]
  <2>1. h.pc = "waiting" /\ h.disp = client[c].disp
    BY <1>0 DEF Handlers
  <2>2. /\ client' = [client EXCEPT ![c] = h] /\ client[c].pc = "signal"
        /\ UNCHANGED <<stepState, worker, up, crashes>>
    BY <1>4 DEF abortSignal
  <2>3. client[c].disp \in Dispatches
    BY <2>2 DEF AbortInv
  <2> HIDE DEF h
  <2> QED BY <1>3, <2>1, <2>2, <2>3
<1>5. CASE abortOutcome(c)
  <2>1. PICK p \in {"aborted", "done"} :
          /\ client' = [client EXCEPT ![c].pc = p]
          /\ p = "aborted" =>
               /\ worker[client[c].disp].pc \in {"clearing", "done"}
               /\ stepState[worker[client[c].disp].step] = "cancelled"
    BY <1>5 DEF abortOutcome
  <2> DEFINE h == [client[c] EXCEPT !.pc = p]
  <2>2. h.pc = p /\ h.disp = client[c].disp
    BY <1>0 DEF Handlers
  <2>3. /\ client' = [client EXCEPT ![c] = h] /\ client[c].pc = "waiting"
        /\ UNCHANGED <<stepState, worker, up, crashes>>
    BY <1>5, <2>1 DEF abortOutcome
  <2>4. client[c].disp \in Dispatches
    BY <2>3 DEF AbortInv
  <2> HIDE DEF h
  <2> QED BY <1>3, <2>1, <2>2, <2>3, <2>4
<1>6. CASE clientReconcileRead(c)
  <2> DEFINE v == derivedState(client[c].run)
             h == [client[c] EXCEPT !.pc = "reconciling", !.seen = v]
  <2>1. /\ client' = [client EXCEPT ![c] = h] /\ client[c].pc = "reconcile"
        /\ UNCHANGED <<stepState, worker, up, crashes>>
    BY <1>6 DEF clientReconcileRead
  <2> HIDE DEF v
  <2>2. h.pc = "reconciling"
    BY <1>0 DEF Handlers
  <2> HIDE DEF h
  <2> QED BY <1>3, <2>1, <2>2
<1>7. CASE clientReconcileWrite(c)
  <2> DEFINE h == [client[c] EXCEPT !.pc = "done", !.seen = None]
  <2>1. /\ client' = [client EXCEPT ![c] = h] /\ client[c].pc = "reconciling"
        /\ UNCHANGED <<stepState, worker, up, crashes>>
    BY <1>7 DEF clientReconcileWrite
  <2>2. h.pc = "done"
    BY <1>0 DEF Handlers
  <2> HIDE DEF h
  <2> QED BY <1>3, <2>1, <2>2
<1>8. ASSUME NEW r \in Runs, AbortRun(c, r)
      PROVE  AbortInv'
  <2> DEFINE m == {s \in StepsOf(r) : /\ ~ StepTerminal(stepState[s])
                                      /\ stepState[s] # "needs_approval"}
             h == IF execution[r] # None
                    THEN [idleClient EXCEPT !.pc = "signal", !.run = r,
                                            !.disp = execution[r]]
                    ELSE [idleClient EXCEPT !.pc = "orphans", !.run = r,
                                            !.marks = m]
  <2>1. /\ client' = [client EXCEPT ![c] = h] /\ client[c].pc = "idle"
        /\ UNCHANGED <<stepState, worker, up, crashes>>
    BY <1>8 DEF AbortRun
  <2> HIDE DEF m
  <2>2. h.pc \in {"signal", "orphans"} /\ (h.pc = "signal" => h.disp \in Dispatches)
    BY <1>0 DEF idleClient
  <2> HIDE DEF h
  <2> QED BY <1>3, <2>1, <2>2
<1>9. CASE handlerStep(c)
  BY <1>0, <1>2, <1>4, <1>5, <1>6, <1>7, <1>9
     DEF handlerStep, retryDispatched, writeVerdict, restoreStep, recoverSteps
<1>10. CASE request(c)
  BY <1>0, <1>8, <1>10
     DEF request, RecoverRun, ResumeRun, RetryStep, resolveGate, disconnect
<1> QED BY <1>9, <1>10

\* Every step preserves the invariant.
LEMMA NextAborts ==
  ASSUME OnlyAborts
  PROVE  IInv /\ Recorded /\ AbortInv /\ [Next]_vars => AbortInv'
<1> SUFFICES ASSUME IInv, Recorded, AbortInv, [Next]_vars PROVE AbortInv'
  OBVIOUS
<1>0. /\ stepState \in [Steps -> StepStates \cup {"absent"}]
      /\ worker \in [Dispatches -> Goroutines]
      /\ \A e \in Dispatches : worker[e].pc # "unused" => worker[e].step \in Steps
      /\ idleWorker.step = None /\ None \notin Steps
  BY RunServiceConstants DEF IInv, TypeOK, WorkerOK, wellFormedWorker, idleWorker
<1>1. ASSUME UNCHANGED <<stepState, worker, client, up, crashes>> PROVE AbortInv'
  BY <1>1 DEF AbortInv, executing
<1>2. ASSUME NEW r \in Runs, startRunCreate(r) \/ startRunActivate(r)
      PROVE  AbortInv'
  BY <1>1, <1>2 DEF startRunCreate, startRunActivate
<1>3. ASSUME NEW d \in Dispatches, NEW s \in Steps, DispatchStepAsync(d, s)
      PROVE  AbortInv'
  <2> DEFINE w == [idleWorker EXCEPT !.pc = "register", !.step = s]
  <2>1. /\ worker[d].pc = "unused" /\ worker' = [worker EXCEPT ![d] = w]
        /\ stepState[s] = "absent"
        /\ stepState' = [stepState EXCEPT ![s] = "dispatching"]
        /\ UNCHANGED <<client, up, crashes>>
    BY <1>3 DEF DispatchStepAsync, initializeStep, memory
  <2>2. w.pc = "register" /\ w.step = s
    BY DEF idleWorker
  <2> HIDE DEF w
  <2>3. /\ worker'[d] = w /\ \A e \in Dispatches : e # d => worker'[e] = worker[e]
        /\ worker[d].step = None
        /\ \A e \in Dispatches : worker[e].step # s
        /\ \A t \in Steps : t # s => stepState'[t] = stepState[t]
        /\ stepState'[s] = "dispatching"
    BY <1>0, <2>1 DEF AbortInv
  <2>4. \A e \in Dispatches : e # d /\ worker[e].pc # "unused" =>
          stepState'[worker'[e].step] = stepState[worker[e].step]
    BY <1>0, <2>3
  <2>5. /\ \A e \in Dispatches : worker'[e].pc # "dead"
        /\ \A e \in Dispatches : worker'[e].pc = "unused" => worker'[e] = idleWorker
        /\ \A e, f \in Dispatches :
             worker'[e].step \in Steps /\ worker'[e].step = worker'[f].step => e = f
    BY <2>2, <2>3 DEF AbortInv
  <2>6. ASSUME NEW t \in Steps
        PROVE  stepState'[t] # "absent" <=> \E e \in Dispatches : worker'[e].step = t
    <3>1. CASE t = s
      BY <2>2, <2>3, <3>1
    <3>2. CASE t # s
      <4>1. \A e \in Dispatches : worker'[e].step = t <=> worker[e].step = t
        BY <1>0, <2>2, <2>3, <3>2
      <4> QED BY <2>3, <3>2, <4>1 DEF AbortInv
    <3> QED BY <3>1, <3>2
  <2>7. \A e \in Dispatches : executing(e)' =>
          stepState'[worker'[e].step] # "cancelled"
    BY <2>2, <2>3, <2>4 DEF executing, AbortInv
  <2>8. ASSUME NEW c \in Clients, client[c].pc = "aborted"
        PROVE  LET e == client[c].disp IN
               /\ worker'[e].pc = worker[e].pc
               /\ stepState'[worker'[e].step] = stepState[worker[e].step]
    <3>1. PICK e \in Dispatches : /\ e = client[c].disp
                                  /\ worker[e].pc \in {"clearing", "done"}
      BY <2>8 DEF AbortInv
    <3> QED BY <2>1, <2>3, <2>4, <3>1
  <2>9. \A c \in Clients : client'[c].pc = "aborted" =>
         LET e == client'[c].disp IN
         /\ worker'[e].pc \in {"clearing", "done"}
         /\ \/ stepState'[worker'[e].step] = "cancelled"
            \/ /\ stepState'[worker'[e].step] = "needs_manual_attention"
               /\ \E f \in Clients \ {c} :
                    client'[f].pc \in {"reconcile", "reconciling", "done"}
    BY <2>1, <2>8 DEF AbortInv
  <2> QED BY <2>1, <2>5, <2>6, <2>7, <2>9 DEF AbortInv, executing
<1>4. ASSUME NEW d \in Dispatches, workerStep(d)
      PROVE  AbortInv'
  BY <1>4, WorkerAborts
<1>5. ASSUME NEW c \in Clients, handlerStep(c) \/ request(c)
      PROVE  AbortInv'
  BY <1>5, RequestAborts
<1>6. ~ Crash /\ ~ SweepStaleRuns
  BY DEF AbortInv, OnlyAborts, Crash, SweepStaleRuns
<1>7. CASE UNCHANGED vars
  BY <1>1, <1>7 DEF vars, rows, memory
<1> QED BY <1>2, <1>3, <1>4, <1>5, <1>6, <1>7 DEF Next

\* Initially there is no goroutine and no request.
LEMMA InitAborts == Init => AbortInv
<1> SUFFICES ASSUME Init PROVE AbortInv
  OBVIOUS
<1>1. /\ idleWorker.pc = "unused" /\ idleWorker.step = None
      /\ idleClient.pc = "idle"
  BY DEF idleWorker, idleClient
<1> QED BY <1>1, RunServiceConstants DEF Init, AbortInv, executing

\* When an abort is the only request and the daemon does not crash, AbortRun's
\* confirmation is final, however fast steps are dispatched: the step stays
\* cancelled, its goroutine is past its work, and no attempt of a cancelled step
\* holds the workspace.  With a second abort the confirmation can be overtaken by
\* the one that found no execution and lists the step as an orphan.
THEOREM AbortsAreFinal ==
  ASSUME OnlyAborts, \A c, e \in Clients : c = e
  PROVE  Spec => []AbortIsFinal
<1>1. Init => Recorded
  BY InitRecorded
<1>2. IInv /\ Recorded /\ AbortInv /\ [Next]_vars => AbortInv'
  BY NextAborts
<1>3. AbortInv => AbortIsFinal
  <2> SUFFICES ASSUME AbortInv PROVE AbortIsFinal
    OBVIOUS
  <2>1. \A d \in Dispatches : holding(d) => executing(d)
    BY DEF holding, executing
  <2>2. \A c \in Clients : client[c].pc = "aborted" =>
         /\ stepState[worker[client[c].disp].step] = "cancelled"
         /\ worker[client[c].disp].pc \in {"clearing", "done"}
    BY DEF AbortInv
  <2> QED BY <2>1, <2>2 DEF AbortIsFinal, AbortInv
<1> QED BY <1>1, <1>2, <1>3, InitAborts, NextRecorded, Invariance, PTL DEF Spec
=============================================================================
