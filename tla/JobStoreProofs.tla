---- MODULE JobStoreProofs ----
(***************************************************************************)
(* Theorems about JobStore, for every set of jobs and every bound on        *)
(* crashes and I/O errors.                                                  *)
(***************************************************************************)
EXTENDS JobStore, EventStream, SequenceTheorems, FiniteSetTheorems, TLAPS

\* RemoveFirst on a queue: still a queue of jobs, and when the job stood in it
\* exactly its own entry is gone.
LEMMA RemoveFirstType ==
    ASSUME NEW s \in Seq(Jobs), NEW j
    PROVE  RemoveFirst(s, j) \in Seq(Jobs)
<1>1. CASE \E n \in 1 .. Len(s) : s[n] = j
  <2> DEFINE n == CHOOSE m \in 1 .. Len(s) : s[m] = j
  <2>1. n \in 1 .. Len(s)
    BY <1>1
  <2>2. RemoveFirst(s, j) = [m \in 1 .. Len(s) - 1 |-> IF m < n THEN s[m] ELSE s[m + 1]]
    BY <1>1 DEF RemoveFirst
  <2>3. \A m \in 1 .. Len(s) - 1 : (IF m < n THEN s[m] ELSE s[m + 1]) \in Jobs
    <3> HIDE DEF n
    <3> QED BY <2>1
  <2>4. Len(s) - 1 \in Nat
    BY <2>1
  <2> QED
    <3> HIDE DEF n
    <3> QED BY <2>2, <2>3, <2>4
<1>2. CASE ~ \E n \in 1 .. Len(s) : s[n] = j
  BY <1>2 DEF RemoveFirst
<1> QED BY <1>1, <1>2

LEMMA RemoveFirstQueue ==
    ASSUME NEW s \in Seq(Jobs), NEW j,
           \A m, n \in 1 .. Len(s) : s[m] = s[n] => m = n
    PROVE  LET r == RemoveFirst(s, j) IN
           /\ \A m \in 1 .. Len(r) : r[m] # j /\ \E n \in 1 .. Len(s) : r[m] = s[n]
           /\ \A m, n \in 1 .. Len(r) : r[m] = r[n] => m = n
<1>1. CASE \E n \in 1 .. Len(s) : s[n] = j
  <2> DEFINE n == CHOOSE m \in 1 .. Len(s) : s[m] = j
  <2>1. n \in 1 .. Len(s) /\ s[n] = j
    BY <1>1
  <2>2. RemoveFirst(s, j) = [m \in 1 .. Len(s) - 1 |-> IF m < n THEN s[m] ELSE s[m + 1]]
    BY <1>1 DEF RemoveFirst
  <2> HIDE DEF n
  <2>3. Len(RemoveFirst(s, j)) = Len(s) - 1
    BY <2>1, <2>2
  <2>4. \A m \in 1 .. Len(s) - 1 :
           RemoveFirst(s, j)[m] = IF m < n THEN s[m] ELSE s[m + 1]
    BY <2>2
  <2> QED BY <2>1, <2>3, <2>4
<1>2. CASE ~ \E n \in 1 .. Len(s) : s[n] = j
  BY <1>2 DEF RemoveFirst
<1> QED BY <1>1, <1>2

\* The bundles of variables of the UNCHANGED clauses, and the small helpers.
USE DEF persistent, processes, execution, bounds, Kill, HasEnded, Publish, Complete,
        Retryable

----------------------------------------------------------------------------

LEMMA HandlerType ==
    ASSUME NEW k \in Kinds, NEW j \in Jobs, NEW a \in Stages
    PROVE  Handler(k, j, a) \in [kind : Kinds, job : Jobs, at : Stages, target : Statuses]
BY DEF Handler, Statuses

\* The transitions of the graph stay inside the statuses and leave no terminal one.
LEMMA TransitionFacts ==
    ASSUME NEW s \in Statuses, NEW t, s # "none", ValidTransition(s, t)
    PROVE  /\ t \in JobStatus
           /\ s \in {"queued", "running", "cancelling"}
           /\ t = "running" => s = "queued"
           /\ t = "cancelling" => s = "running"
           /\ t # "queued"
BY DEF ValidTransition, ALLOWED_JOB_TRANSITIONS, JobStatus, Statuses

\* Type correctness: every variable of the executor keeps its type.
THEOREM TypeCorrect == Spec => []TypeOK
<1>1. Init => TypeOK
  BY JobsAssumption DEF Init, TypeOK, Statuses, Executing, Idle
<1>2. TypeOK /\ [Next]_vars => TypeOK'
  <2> SUFFICES ASSUME TypeOK, Next PROVE TypeOK'
    BY DEF TypeOK, vars
  <2>1. ASSUME NEW j \in Jobs, CollectEvidence(j) PROVE TypeOK'
    <3>1. PICK prices \in {"absent", "copied", "hashed"} :
             LET complete == Complete(j, prices)
             IN  /\ frozen' = [frozen EXCEPT ![j] = prices]
                 /\ inventory' = [inventory EXCEPT ![j] = complete]
                 /\ loop' = [loop EXCEPT !.at = "commit",
                                !.target = IF complete THEN "succeeded" ELSE "failed"]
                 /\ IF prices = "copied" THEN Fault(j) ELSE UNCHANGED bounds
      BY <2>1 DEF CollectEvidence
    <3>2. /\ loop'.kind = "finish" /\ loop'.job = j
          /\ loop' = [kind |-> "finish", job |-> j, at |-> "commit", target |-> loop'.target]
          /\ loop'.target \in {"succeeded", "failed"}
      BY <2>1, <3>1 DEF CollectEvidence, Handler
    <3>3. loop' \in {Idle} \cup [kind : Kinds, job : Jobs, at : Stages, target : Statuses]
      BY <3>2 DEF Kinds, Stages, Statuses, JobStatus
    <3>4. QED
      BY <2>1, <3>1, <3>3 DEF CollectEvidence, Fault, TypeOK
  <2>2. ASSUME NEW j \in Jobs, CommitVerdict(j) PROVE TypeOK'
    <3>1. loop' \in {Idle} \cup [kind : Kinds, job : Jobs, at : Stages, target : Statuses]
      BY <2>2, HandlerType DEF CommitVerdict, Kinds, Stages
    <3>2. loop.target \in Statuses
      BY <2>2 DEF CommitVerdict, TypeOK, Idle
    <3>3. QED
      BY <2>2, <3>1, <3>2 DEF CommitVerdict, Transition, TypeOK
  <2>3. ASSUME NEW j \in Jobs, WriteMirror(j) PROVE TypeOK'
    <3>1. loop' \in {Idle} \cup [kind : Kinds, job : Jobs, at : Stages, target : Statuses]
      BY <2>3 DEF WriteMirror, Idle, Kinds, Stages, TypeOK
    <3>2. QED
      BY <2>3, <3>1 DEF WriteMirror, TypeOK, Statuses, JobStatus
  <2>4. ASSUME NEW j \in Jobs, WriteManifest(j) PROVE TypeOK'
    <3>1. /\ loop' \in {Idle} \cup [kind : Kinds, job : Jobs, at : Stages, target : Statuses]
          /\ manifest' \in [Jobs -> Statuses] /\ published' \in [Jobs -> Statuses]
      BY <2>4 DEF WriteManifest, TypeOK
    <3>2. /\ proc' \in [Jobs -> {"none", "running", "exited", "killed", "orphan"}]
          /\ out' \in [Jobs -> Outcomes \cup {"none"}]
          /\ task' \in [Jobs -> {"none", "waiting", "done"} \cup Executing]
          /\ tasks' \in SUBSET Jobs
          /\ lock' \in Jobs \cup {NoJob}
          /\ waiters' \in Seq(Jobs)
          /\ active' \in SUBSET Jobs
      <4>1. CASE \E registered \in BOOLEAN : Launch(j, registered)
        BY <4>1 DEF Launch, TypeOK
      <4>2. CASE Spawn(j)
        BY <4>2 DEF Spawn, TypeOK, Executing
      <4>3. CASE KillActive(j)
        BY <4>3 DEF KillActive, TypeOK, Outcomes
      <4>4. CASE EndTask(j) /\ UNCHANGED <<waiters, active, processes>>
        BY <4>4 DEF EndTask, TypeOK
      <4>5. CASE UNCHANGED <<execution, processes>>
        BY <4>5 DEF TypeOK
      <4> QED BY <2>4, <4>1, <4>2, <4>3, <4>4, <4>5 DEF WriteManifest, Continue
    <3>3. QED
      BY <2>4, <3>1, <3>2 DEF WriteManifest, TypeOK
  <2>5. ASSUME NEW j \in Jobs, RemoveTree(j) PROVE TypeOK'
    BY <2>5 DEF RemoveTree, TypeOK, Statuses, JobStatus
  <2>6. ASSUME NEW j \in Jobs, AcquireLock(j) PROVE TypeOK'
    <3>1. loop' \in {Idle} \cup [kind : Kinds, job : Jobs, at : Stages, target : Statuses]
      BY <2>6, HandlerType DEF AcquireLock, Kinds, Stages, TypeOK
    <3>2. waiters' \in Seq(Jobs)
      BY <2>6, HeadTailProperties DEF AcquireLock, TypeOK
    <3>3. /\ task' \in [Jobs -> {"none", "waiting", "done"} \cup Executing]
          /\ tasks' \in SUBSET Jobs
          /\ lock' \in Jobs \cup {NoJob}
          /\ row' \in [Jobs -> Statuses]
      <4>1. CASE Transition(j, "running")
                   /\ lock' = j
                   /\ task' = [task EXCEPT ![j] = "starting"]
                   /\ UNCHANGED tasks
        BY <4>1 DEF Transition, Executing, Statuses, JobStatus, TypeOK
      <4>2. CASE EndTask(j) /\ UNCHANGED row
        BY <4>2 DEF EndTask, TypeOK
      <4> QED BY <2>6, <4>1, <4>2 DEF AcquireLock
    <3>4. QED
      BY <2>6, <3>1, <3>2, <3>3 DEF AcquireLock, TypeOK
  <2>7. ASSUME NEW j \in Jobs, SpawnReturns(j) PROVE TypeOK'
    BY <2>7 DEF SpawnReturns, Executing, TypeOK, Statuses, JobStatus
  <2>8. ASSUME NEW j \in Jobs, SpawnFails(j) PROVE TypeOK'
    <3>1. loop' \in {Idle} \cup [kind : Kinds, job : Jobs, at : Stages, target : Statuses]
      BY <2>8, HandlerType DEF SpawnFails, Kinds, Stages, TypeOK
    <3>2. QED
      BY <2>8, <3>1 DEF SpawnFails, Transition, Executing, TypeOK, Statuses, JobStatus
  <2>9. ASSUME NEW j \in Jobs, Terminate(j) PROVE TypeOK'
    <3>1. task' \in [Jobs -> {"none", "waiting", "done"} \cup Executing]
      BY <2>9 DEF Terminate, Executing, TypeOK
    <3>2. /\ proc' \in [Jobs -> {"none", "running", "exited", "killed", "orphan"}]
          /\ out' \in [Jobs -> Outcomes \cup {"none"}]
      <4>1. CASE proc[j] = "running"
        BY <2>9, <4>1 DEF Terminate, Outcomes, TypeOK
      <4>2. CASE proc[j] # "running"
        BY <2>9, <4>2 DEF Terminate, TypeOK
      <4> QED BY <4>1, <4>2
    <3>3. QED
      BY <2>9, <3>1, <3>2 DEF Terminate, TypeOK
  <2>10. ASSUME NEW j \in Jobs, Reaped(j) PROVE TypeOK'
    <3>1. loop' \in {Idle} \cup [kind : Kinds, job : Jobs, at : Stages, target : Statuses]
      BY <2>10, HandlerType DEF Reaped, Kinds, Stages, TypeOK
    <3>2. QED
      BY <2>10, <3>1 DEF Reaped, Transition, Executing, TypeOK, Statuses, JobStatus
  <2>11. ASSUME NEW j \in Jobs, RunReturns(j) PROVE TypeOK'
    <3>1. loop' \in {Idle} \cup [kind : Kinds, job : Jobs, at : Stages, target : Statuses]
      BY <2>11, HandlerType DEF RunReturns, Kinds, Stages, TypeOK
    <3>2. QED
      BY <2>11, <3>1 DEF RunReturns, Transition, Executing, TypeOK, Statuses, JobStatus
  <2>12. ASSUME NEW j \in Jobs, CreateJob(j) PROVE TypeOK'
    BY <2>12, HandlerType DEF CreateJob, Kinds, Stages, TypeOK, Statuses, JobStatus
  <2>13. ASSUME NEW j \in Jobs, CancelQueued(j) PROVE TypeOK'
    <3>1. loop' \in {Idle} \cup [kind : Kinds, job : Jobs, at : Stages, target : Statuses]
      BY <2>13, HandlerType DEF CancelQueued, Kinds, Stages
    <3>2. /\ task' \in [Jobs -> {"none", "waiting", "done"} \cup Executing]
          /\ tasks' \in SUBSET Jobs
          /\ waiters' \in Seq(Jobs)
      BY <2>13, RemoveFirstType DEF CancelQueued, TypeOK
    <3>3. row' \in [Jobs -> Statuses]
      BY <2>13 DEF CancelQueued, Transition, Statuses, JobStatus, TypeOK
    <3>4. QED
      BY <2>13, <3>1, <3>2, <3>3 DEF CancelQueued, TypeOK
  <2>14. ASSUME NEW j \in Jobs, CancelRunning(j) PROVE TypeOK'
    BY <2>14, HandlerType DEF CancelRunning, Transition, Kinds, Stages, TypeOK, Statuses, JobStatus
  <2>15. ASSUME NEW j \in Jobs, (\E i \in Jobs : Retry(i, j)) PROVE TypeOK'
    BY <2>15, HandlerType DEF Retry, Kinds, Stages, TypeOK, Statuses, JobStatus
  <2>16. ASSUME NEW j \in Jobs, CreateFails(j) PROVE TypeOK'
    BY <2>16, HandlerType DEF CreateFails, Fault, Kinds, Stages, TypeOK, Statuses, JobStatus
  <2>17. ASSUME NEW j \in Jobs, RunRaises(j) PROVE TypeOK'
    BY <2>17 DEF RunRaises, EndTask, Fault, TypeOK, Statuses, JobStatus
  <2>18. ASSUME NEW j \in Jobs, CancelRaises(j) PROVE TypeOK'
    BY <2>18 DEF CancelRaises, Fault, TypeOK, Statuses, JobStatus
  <2>19. ASSUME NEW j \in Jobs, BootRaises(j) PROVE TypeOK'
    BY <2>19 DEF BootRaises, Fault, TypeOK, Statuses, JobStatus
  <2>20. ASSUME NEW j \in Jobs, Reconcile(j) PROVE TypeOK'
    BY <2>20, HandlerType DEF Reconcile, Transition, Kinds, Stages, TypeOK, Statuses, JobStatus
  <2>21. ASSUME NEW j \in Jobs, ProcessExits(j) PROVE TypeOK'
    BY <2>21 DEF ProcessExits, Outcomes, TypeOK, Statuses, JobStatus
  <2>22. ASSUME Crash PROVE TypeOK'
    BY <2>22 DEF Crash, Executing, TypeOK, Statuses, JobStatus
  <2>23. ASSUME Restart PROVE TypeOK'
    BY <2>23 DEF Restart, TypeOK, Statuses, JobStatus
  <2>24. ASSUME Serve PROVE TypeOK'
    BY <2>24 DEF Serve, TypeOK, Statuses, JobStatus
  <2> QED
    BY <2>1, <2>2, <2>3, <2>4, <2>5, <2>6, <2>7, <2>8, <2>9, <2>10, <2>11, <2>12, <2>13, <2>14, <2>15, <2>16, <2>17, <2>18, <2>19, <2>20, <2>21, <2>22, <2>23, <2>24
       DEF Next, HandlerStep, Resume, Request, Failure
<1>3. QED BY <1>1, <1>2, PTL DEF Spec

----------------------------------------------------------------------------

\* The inductive invariant: lock, queue, processes, rows, the running handler and
\* the phase of the server always agree.
THEOREM ExecutorInvariant == Spec => []ExecutorInv
<1> USE JobsAssumption
<1>1. Init => ExecutorInv
  BY DEF Init, ExecutorInv, LockHeld, QueueOK, ProcessOK, RowOK, LoopOK, PhaseOK,
         Executing, Idle, Kinds
<1>2. TypeOK /\ ExecutorInv /\ [Next]_vars => ExecutorInv'
  <2> SUFFICES ASSUME TypeOK, ExecutorInv, Next PROVE ExecutorInv'
    BY DEF ExecutorInv, LockHeld, QueueOK, ProcessOK, RowOK, LoopOK, PhaseOK, vars
  <2> USE DEF TypeOK, ExecutorInv, LockHeld, QueueOK, ProcessOK, RowOK, LoopOK, PhaseOK
  <2>1. ASSUME NEW j \in Jobs, CollectEvidence(j) PROVE ExecutorInv'
    <3>1. LoopOK'
      BY <2>1 DEF CollectEvidence, Handler, Idle, Kinds
    <3>2. PhaseOK'
      BY <2>1 DEF CollectEvidence, Handler, Idle, Ready
    <3> QED
      BY <2>1, <3>1, <3>2 DEF CollectEvidence, LockHeld, QueueOK, ProcessOK, RowOK
  <2>2. ASSUME NEW j \in Jobs, CommitVerdict(j) PROVE ExecutorInv'
    <3>1. RowOK'
      BY <2>2, TransitionFacts DEF CommitVerdict, Transition, Executing
    <3>2. LoopOK'
      BY <2>2, TransitionFacts DEF CommitVerdict, Transition, Handler, Idle, Kinds
    <3>3. PhaseOK'
      BY <2>2 DEF CommitVerdict, Transition, Handler, Idle, Ready
    <3> QED
      BY <2>2, <3>1, <3>2, <3>3 DEF CommitVerdict, LockHeld, QueueOK, ProcessOK
  <2>3. ASSUME NEW j \in Jobs, WriteMirror(j) PROVE ExecutorInv'
    <3>1. RowOK'
      BY <2>3 DEF WriteMirror, Executing
    <3>2. LoopOK'
      BY <2>3 DEF WriteMirror, Handler, Idle, Kinds
    <3>3. PhaseOK'
      BY <2>3 DEF WriteMirror, Handler, Idle, Ready
    <3> QED
      BY <2>3, <3>1, <3>2, <3>3 DEF WriteMirror, LockHeld, QueueOK, ProcessOK
  <2>4. ASSUME NEW j \in Jobs, WriteManifest(j) PROVE ExecutorInv'
    <3>1. CASE loop.kind \in {"create", "retry"}
      <4>1. \E registered \in BOOLEAN : Launch(j, registered)
        BY <2>4, <3>1 DEF WriteManifest, Continue
      <4>2. LockHeld' /\ ProcessOK' /\ RowOK'
        BY <2>4, <3>1, <4>1 DEF WriteManifest, Launch, Executing, Kinds
      <4>3. QueueOK'
        BY <2>4, <3>1, <4>1 DEF WriteManifest, Launch
      <4>4. LoopOK' /\ PhaseOK'
        BY <2>4, <3>1, <4>1 DEF WriteManifest, Launch, Idle, Kinds
      <4> QED BY <4>2, <4>3, <4>4
    <3>2. CASE loop.kind = "start"
      <4>1. Spawn(j)
        BY <2>4, <3>2 DEF WriteManifest, Continue
      <4>2. LockHeld' /\ ProcessOK' /\ RowOK'
        BY <2>4, <3>2, <4>1 DEF WriteManifest, Spawn, Executing, Kinds
      <4>3. QueueOK'
        BY <2>4, <3>2, <4>1 DEF WriteManifest, Spawn
      <4>4. LoopOK' /\ PhaseOK'
        BY <2>4, <3>2, <4>1 DEF WriteManifest, Spawn, Idle, Kinds
      <4> QED BY <4>2, <4>3, <4>4
    <3>3. CASE loop.kind = "cancelling"
      <4>1. KillActive(j)
        BY <2>4, <3>3 DEF WriteManifest, Continue
      <4>2. LockHeld' /\ ProcessOK' /\ RowOK' /\ QueueOK'
        BY <2>4, <4>1 DEF WriteManifest, KillActive
      <4>3. LoopOK' /\ PhaseOK'
        BY <2>4, <3>3, <4>1 DEF WriteManifest, KillActive, Idle, Kinds
      <4> QED BY <4>2, <4>3
    <3>4. CASE loop.kind = "finish"
      <4>1. EndTask(j) /\ UNCHANGED <<waiters, active, processes>>
        BY <2>4, <3>4 DEF WriteManifest, Continue
      <4>2. LockHeld' /\ ProcessOK' /\ RowOK'
        BY <2>4, <3>4, <4>1 DEF WriteManifest, EndTask, Executing
      <4>3. QueueOK'
        BY <2>4, <3>4, <4>1 DEF WriteManifest, EndTask
      <4>4. LoopOK' /\ PhaseOK'
        BY <2>4, <3>4, <4>1 DEF WriteManifest, EndTask, Idle, Kinds
      <4> QED BY <4>2, <4>3, <4>4
    <3>5. CASE loop.kind \in {"cancel", "reconcile"}
      <4>1. UNCHANGED <<execution, processes>>
        BY <2>4, <3>5 DEF WriteManifest, Continue
      <4>2. LockHeld' /\ ProcessOK' /\ RowOK' /\ QueueOK'
        BY <2>4, <4>1 DEF WriteManifest
      <4>3. LoopOK' /\ PhaseOK'
        BY <2>4, <3>5, <4>1 DEF WriteManifest, Idle, Kinds
      <4> QED BY <4>2, <4>3
    <3> QED
      BY <2>4, <3>1, <3>2, <3>3, <3>4, <3>5 DEF WriteManifest, Continue
  <2>5. ASSUME NEW j \in Jobs, RemoveTree(j) PROVE ExecutorInv'
    <3>1. RowOK'
      BY <2>5 DEF RemoveTree, Executing
    <3>2. LoopOK'
      BY <2>5 DEF RemoveTree, Handler, Idle, Kinds
    <3>3. PhaseOK'
      BY <2>5 DEF RemoveTree, Handler, Idle, Ready
    <3> QED
      BY <2>5, <3>1, <3>2, <3>3 DEF RemoveTree, LockHeld, QueueOK, ProcessOK
  <2>6. ASSUME NEW j \in Jobs, AcquireLock(j) PROVE ExecutorInv'
    <3>1. LockHeld'
      BY <2>6 DEF AcquireLock, Transition, EndTask, Executing
    <3>2. QueueOK'
      BY <2>6 DEF AcquireLock, Transition, EndTask, Executing
    <3>3. ProcessOK'
      <4>1. task[j] = "waiting" /\ lock = NoJob
        BY <2>6, HeadTailProperties DEF AcquireLock
      <4>2. \A i \in Jobs : i # j => task'[i] = task[i]
        BY <2>6 DEF AcquireLock, EndTask
      <4> QED BY <2>6, <4>1, <4>2 DEF AcquireLock, EndTask
    <3>4. RowOK'
      BY <2>6, TransitionFacts DEF AcquireLock, Transition, EndTask, Executing
    <3>5. LoopOK'
      BY <2>6, TransitionFacts DEF AcquireLock, Transition, EndTask, Executing, Handler, Idle, Kinds
    <3>6. PhaseOK'
      BY <2>6 DEF AcquireLock, Transition, EndTask, Executing, Handler, Idle, Ready
    <3> QED
      BY <2>6, <3>1, <3>2, <3>3, <3>4, <3>5, <3>6 DEF AcquireLock
  <2>7. ASSUME NEW j \in Jobs, SpawnReturns(j) PROVE ExecutorInv'
    <3>1. LockHeld'
      BY <2>7 DEF SpawnReturns, Executing
    <3>2. QueueOK'
      BY <2>7 DEF SpawnReturns, Executing
    <3>3. ProcessOK'
      BY <2>7 DEF SpawnReturns, Executing
    <3>4. RowOK'
      BY <2>7 DEF SpawnReturns, Executing
    <3>5. LoopOK'
      BY <2>7 DEF SpawnReturns, Executing, Handler, Idle, Kinds
    <3>6. PhaseOK'
      BY <2>7 DEF SpawnReturns, Executing, Handler, Idle, Ready
    <3> QED
      BY <2>7, <3>1, <3>2, <3>3, <3>4, <3>5, <3>6 DEF SpawnReturns
  <2>8. ASSUME NEW j \in Jobs, SpawnFails(j) PROVE ExecutorInv'
    <3>1. LockHeld'
      BY <2>8 DEF SpawnFails, Transition, Executing
    <3>2. QueueOK'
      BY <2>8 DEF SpawnFails, Transition, Executing
    <3>3. ProcessOK'
      BY <2>8 DEF SpawnFails, Transition, Executing
    <3>4. RowOK'
      BY <2>8, TransitionFacts DEF SpawnFails, Transition, Executing
    <3>5. LoopOK'
      BY <2>8, TransitionFacts DEF SpawnFails, Transition, Executing, Handler, Idle, Kinds
    <3>6. PhaseOK'
      BY <2>8 DEF SpawnFails, Transition, Executing, Handler, Idle, Ready
    <3> QED
      BY <2>8, <3>1, <3>2, <3>3, <3>4, <3>5, <3>6 DEF SpawnFails
  <2>9. ASSUME NEW j \in Jobs, Terminate(j) PROVE ExecutorInv'
    <3>1. LockHeld'
      BY <2>9 DEF Terminate, Executing
    <3>2. QueueOK'
      BY <2>9 DEF Terminate, Executing
    <3>3. ProcessOK'
      BY <2>9 DEF Terminate, Executing
    <3>4. RowOK'
      BY <2>9 DEF Terminate, Executing
    <3>5. LoopOK'
      BY <2>9 DEF Terminate, Executing, Handler, Idle, Kinds
    <3>6. PhaseOK'
      BY <2>9 DEF Terminate, Executing, Handler, Idle, Ready
    <3> QED
      BY <2>9, <3>1, <3>2, <3>3, <3>4, <3>5, <3>6 DEF Terminate
  <2>10. ASSUME NEW j \in Jobs, Reaped(j) PROVE ExecutorInv'
    <3>1. LockHeld'
      BY <2>10 DEF Reaped, Transition, Executing
    <3>2. QueueOK'
      BY <2>10 DEF Reaped, Transition, Executing
    <3>3. ProcessOK'
      BY <2>10 DEF Reaped, Transition, Executing
    <3>4. RowOK'
      BY <2>10, TransitionFacts DEF Reaped, Transition, Executing
    <3>5. LoopOK'
      BY <2>10, TransitionFacts DEF Reaped, Transition, Executing, Handler, Idle, Kinds
    <3>6. PhaseOK'
      BY <2>10 DEF Reaped, Transition, Executing, Handler, Idle, Ready
    <3> QED
      BY <2>10, <3>1, <3>2, <3>3, <3>4, <3>5, <3>6 DEF Reaped
  <2>11. ASSUME NEW j \in Jobs, RunReturns(j) PROVE ExecutorInv'
    <3>1. LockHeld'
      BY <2>11 DEF RunReturns, Transition, Executing
    <3>2. QueueOK'
      BY <2>11 DEF RunReturns, Transition, Executing
    <3>3. ProcessOK'
      BY <2>11 DEF RunReturns, Transition, Executing
    <3>4. RowOK'
      BY <2>11, TransitionFacts DEF RunReturns, Transition, Executing
    <3>5. LoopOK'
      BY <2>11, TransitionFacts DEF RunReturns, Transition, Executing, Handler, Idle, Kinds
    <3>6. PhaseOK'
      BY <2>11 DEF RunReturns, Transition, Executing, Handler, Idle, Ready
    <3> QED
      BY <2>11, <3>1, <3>2, <3>3, <3>4, <3>5, <3>6 DEF RunReturns
  <2>12. ASSUME NEW j \in Jobs, CreateJob(j) PROVE ExecutorInv'
    <3>1. RowOK'
      BY <2>12 DEF CreateJob, Executing
    <3>2. LoopOK'
      <4>1. \A i \in Jobs : task'[i] \notin {"starting", "finishing"}
        BY <2>12 DEF CreateJob, Ready, Idle
      <4>2. /\ loop'.kind = "create" /\ loop'.at = "mirror" /\ loop'.job = j
            /\ row'[j] = "queued" /\ task[j] = "none" /\ mirror[j] = "none"
        BY <2>12 DEF CreateJob, Handler
      <4>3. UNCHANGED mirror /\ (task'[j] = task[j] \/ task'[j] = "done")
        BY <2>12 DEF CreateJob
      <4> QED BY <2>12, <4>1, <4>2, <4>3 DEF CreateJob, Kinds
    <3>3. PhaseOK'
      BY <2>12 DEF CreateJob, Handler, Idle, Ready
    <3> QED
      BY <2>12, <3>1, <3>2, <3>3 DEF CreateJob, LockHeld, QueueOK, ProcessOK
  <2>13. ASSUME NEW j \in Jobs, CancelQueued(j) PROVE ExecutorInv'
    <3>1. LockHeld'
      BY <2>13 DEF CancelQueued, Transition, Executing
    <3>2. QueueOK'
      <4>1. CASE j \in tasks
        <5>1. /\ task' = [task EXCEPT ![j] = "done"]
              /\ waiters' = RemoveFirst(waiters, j)
          BY <2>13, <4>1 DEF CancelQueued
        <5> QED BY <5>1, RemoveFirstQueue
      <4>2. CASE j \notin tasks
        BY <2>13, <4>2 DEF CancelQueued
      <4> QED BY <4>1, <4>2
    <3>3. ProcessOK'
      BY <2>13 DEF CancelQueued, Transition, Executing
    <3>4. RowOK'
      BY <2>13, TransitionFacts DEF CancelQueued, Transition, Executing
    <3>5. LoopOK'
      <4>1. \A i \in Jobs : task'[i] \notin {"starting", "finishing"}
        BY <2>13 DEF CancelQueued, Ready, Idle
      <4>2. /\ loop'.kind = "cancel" /\ loop'.at = "mirror" /\ loop'.job = j
            /\ row'[j] = "cancelled"
        BY <2>13 DEF CancelQueued, Transition, Handler
      <4>3. UNCHANGED mirror /\ (task'[j] = task[j] \/ task'[j] = "done")
        BY <2>13 DEF CancelQueued
      <4> QED BY <2>13, <4>1, <4>2, <4>3 DEF CancelQueued, Kinds
    <3>6. PhaseOK'
      BY <2>13 DEF CancelQueued, Transition, Executing, Handler, Idle, Ready
    <3> QED
      BY <2>13, <3>1, <3>2, <3>3, <3>4, <3>5, <3>6 DEF CancelQueued
  <2>14. ASSUME NEW j \in Jobs, CancelRunning(j) PROVE ExecutorInv'
    <3>1. RowOK'
      BY <2>14, TransitionFacts DEF CancelRunning, Transition, Executing
    <3>2. LoopOK'
      <4>1. \A i \in Jobs : task'[i] \notin {"starting", "finishing"}
        BY <2>14 DEF CancelRunning, Ready, Idle
      <4>2. /\ loop'.kind = "cancelling" /\ loop'.at = "mirror" /\ loop'.job = j
            /\ row'[j] = "cancelling"
        BY <2>14 DEF CancelRunning, Transition, Handler
      <4>3. UNCHANGED mirror /\ (task'[j] = task[j] \/ task'[j] = "done")
        BY <2>14 DEF CancelRunning
      <4> QED BY <2>14, <4>1, <4>2, <4>3 DEF CancelRunning, Kinds
    <3>3. PhaseOK'
      BY <2>14 DEF CancelRunning, Transition, Handler, Idle, Ready
    <3> QED
      BY <2>14, <3>1, <3>2, <3>3 DEF CancelRunning, LockHeld, QueueOK, ProcessOK
  <2>15. ASSUME NEW j \in Jobs, (\E i \in Jobs : Retry(i, j)) PROVE ExecutorInv'
    <3>1. RowOK'
      BY <2>15 DEF Retry, Executing
    <3>2. LoopOK'
      <4>1. \A i \in Jobs : task'[i] \notin {"starting", "finishing"}
        BY <2>15 DEF Retry, Ready, Idle
      <4>2. /\ loop'.kind = "retry" /\ loop'.at = "mirror" /\ loop'.job = j
            /\ row'[j] = "queued" /\ task[j] = "none" /\ mirror[j] = "none"
        BY <2>15 DEF Retry, Handler
      <4>3. UNCHANGED mirror /\ (task'[j] = task[j] \/ task'[j] = "done")
        BY <2>15 DEF Retry
      <4> QED BY <2>15, <4>1, <4>2, <4>3 DEF Retry, Kinds
    <3>3. PhaseOK'
      BY <2>15 DEF Retry, Handler, Idle, Ready
    <3> QED
      BY <2>15, <3>1, <3>2, <3>3 DEF Retry, LockHeld, QueueOK, ProcessOK
  <2>16. ASSUME NEW j \in Jobs, CreateFails(j) PROVE ExecutorInv'
    <3>1. RowOK'
      BY <2>16 DEF CreateFails, Fault, Executing
    <3>2. LoopOK'
      BY <2>16 DEF CreateFails, Fault, Handler, Idle, Kinds
    <3>3. PhaseOK'
      BY <2>16 DEF CreateFails, Fault, Handler, Idle, Ready
    <3> QED
      BY <2>16, <3>1, <3>2, <3>3 DEF CreateFails, LockHeld, QueueOK, ProcessOK
  <2>17. ASSUME NEW j \in Jobs, RunRaises(j) PROVE ExecutorInv'
    <3>1. LockHeld'
      BY <2>17 DEF RunRaises, Fault, EndTask, Executing
    <3>2. QueueOK'
      BY <2>17 DEF RunRaises, Fault, EndTask, Executing
    <3>3. ProcessOK'
      BY <2>17 DEF RunRaises, Fault, EndTask, Executing
    <3>4. RowOK'
      BY <2>17 DEF RunRaises, Fault, EndTask, Executing
    <3>5. LoopOK'
      BY <2>17 DEF RunRaises, Fault, EndTask, Executing, Handler, Idle, Kinds
    <3>6. PhaseOK'
      BY <2>17 DEF RunRaises, Fault, EndTask, Executing, Handler, Idle, Ready
    <3> QED
      BY <2>17, <3>1, <3>2, <3>3, <3>4, <3>5, <3>6 DEF RunRaises
  <2>18. ASSUME NEW j \in Jobs, CancelRaises(j) PROVE ExecutorInv'
    <3>1. LoopOK'
      BY <2>18 DEF CancelRaises, Fault, Handler, Idle, Kinds
    <3>2. PhaseOK'
      BY <2>18 DEF CancelRaises, Fault, Handler, Idle, Ready
    <3> QED
      BY <2>18, <3>1, <3>2 DEF CancelRaises, LockHeld, QueueOK, ProcessOK, RowOK
  <2>19. ASSUME NEW j \in Jobs, BootRaises(j) PROVE ExecutorInv'
    <3>1. LoopOK'
      BY <2>19 DEF BootRaises, Fault, Handler, Idle, Kinds
    <3>2. PhaseOK'
      BY <2>19 DEF BootRaises, Fault, Handler, Idle, Ready
    <3> QED
      BY <2>19, <3>1, <3>2 DEF BootRaises, LockHeld, QueueOK, ProcessOK, RowOK
  <2>20. ASSUME NEW j \in Jobs, Reconcile(j) PROVE ExecutorInv'
    <3>1. RowOK'
      BY <2>20, TransitionFacts DEF Reconcile, Transition, Interrupted, Executing
    <3>2. LoopOK'
      BY <2>20, TransitionFacts DEF Reconcile, Transition, Interrupted, Handler, Idle, Kinds
    <3>3. PhaseOK'
      BY <2>20 DEF Reconcile, Transition, Interrupted, Handler, Idle, Ready
    <3> QED
      BY <2>20, <3>1, <3>2, <3>3 DEF Reconcile, LockHeld, QueueOK, ProcessOK
  <2>21. ASSUME NEW j \in Jobs, ProcessExits(j) PROVE ExecutorInv'
    <3>1. ProcessOK'
      BY <2>21 DEF ProcessExits
    <3> QED
      BY <2>21, <3>1 DEF ProcessExits, LockHeld, QueueOK, RowOK, LoopOK, PhaseOK
  <2>22. ASSUME Crash PROVE ExecutorInv'
    <3>1. LockHeld'
      BY <2>22 DEF Crash, Executing
    <3>2. QueueOK'
      BY <2>22 DEF Crash, Executing
    <3>3. ProcessOK'
      BY <2>22 DEF Crash, Executing
    <3>4. RowOK'
      BY <2>22 DEF Crash, Executing
    <3>5. LoopOK'
      BY <2>22 DEF Crash, Executing, Handler, Idle, Kinds
    <3>6. PhaseOK'
      BY <2>22 DEF Crash, Executing, Handler, Idle, Ready
    <3> QED
      BY <2>22, <3>1, <3>2, <3>3, <3>4, <3>5, <3>6 DEF Crash
  <2>23. ASSUME Restart PROVE ExecutorInv'
    <3>1. RowOK'
      BY <2>23 DEF Restart, Executing
    <3>2. LoopOK'
      BY <2>23 DEF Restart, Handler, Idle, Kinds
    <3>3. PhaseOK'
      BY <2>23 DEF Restart, Handler, Idle, Ready
    <3> QED
      BY <2>23, <3>1, <3>2, <3>3 DEF Restart, LockHeld, QueueOK, ProcessOK
  <2>24. ASSUME Serve PROVE ExecutorInv'
    <3>1. PhaseOK'
      BY <2>24 DEF Serve, Handler, Idle, Ready
    <3> QED
      BY <2>24, <3>1 DEF Serve, LockHeld, QueueOK, ProcessOK, RowOK, LoopOK
  <2> QED
    BY <2>1, <2>2, <2>3, <2>4, <2>5, <2>6, <2>7, <2>8, <2>9, <2>10, <2>11, <2>12, <2>13, <2>14, <2>15, <2>16, <2>17, <2>18, <2>19, <2>20, <2>21, <2>22, <2>23, <2>24
       DEF Next, HandlerStep, Resume, Request, Failure
<1>3. QED BY <1>1, <1>2, TypeCorrect, PTL DEF Spec

----------------------------------------------------------------------------

\* The process that can be alive belongs to the holder of the execution lock, and
\* the process runner knows no other.
THEOREM ExecutionsAreSerial == Spec => []OneProcessPerServer
<1>1. TypeOK /\ ExecutorInv => OneProcessPerServer
  BY DEF TypeOK, ExecutorInv, LockHeld, ProcessOK, OneProcessPerServer, Executing
<1>2. QED BY <1>1, TypeCorrect, ExecutorInvariant, PTL

\* No verdict is written while the process it judges is alive.
THEOREM VerdictsFollowProcesses == Spec => []VerdictAfterProcess
<1>1. TypeOK /\ ExecutorInv => VerdictAfterProcess
  BY DEF TypeOK, ExecutorInv, ProcessOK, RowOK, VerdictAfterProcess, Executing,
         TERMINAL_JOB_STATUSES
<1>2. QED BY <1>1, TypeCorrect, ExecutorInvariant, PTL

----------------------------------------------------------------------------

\* Every step of the executor is a step of the contract or leaves it unchanged:
\* a row moves once per step, along the graph, and only the holder of the lock
\* starts an execution or delivers its verdict.
LEMMA StepImplementsContract ==
    TypeOK /\ ExecutorInv /\ [Next]_vars => [Contract!Next]_<<row, lock>>
<1> USE JobsAssumption
<1> SUFFICES ASSUME TypeOK, ExecutorInv, Next
             PROVE  Contract!Next \/ UNCHANGED <<row, lock>>
  BY DEF vars
<1> USE DEF TypeOK, ExecutorInv
<1>1. ASSUME NEW j \in Jobs, HandlerStep(j)
      PROVE  Contract!Next \/ UNCHANGED <<row, lock>>
  <2>1. CASE CommitVerdict(j)
    <3>1. lock = j /\ row[j] = "running" /\ loop.target \in {"succeeded", "failed"}
      BY <2>1 DEF CommitVerdict, LoopOK, LockHeld, Executing
    <3>2. Contract!Finish(j)
      BY <2>1, <3>1 DEF CommitVerdict, Transition, Contract!Finish,
                        ValidTransition, ALLOWED_JOB_TRANSITIONS,
                        Contract!TERMINAL_JOB_STATUSES, Contract!ValidTransition,
                        Contract!ALLOWED_JOB_TRANSITIONS
    <3> QED BY <3>2 DEF Contract!Next
  <2>2. CASE WriteManifest(j)
    <3>1. UNCHANGED <<row, lock>> \/ (UNCHANGED row /\ lock' = NoJob)
      BY <2>2 DEF WriteManifest, Continue, Launch, Spawn, KillActive, EndTask
    <3> QED BY <3>1 DEF Contract!Next, Contract!Release
  <2>3. CASE CollectEvidence(j) \/ WriteMirror(j) \/ RemoveTree(j)
    BY <2>3 DEF CollectEvidence, WriteMirror, RemoveTree
  <2> QED BY <1>1, <2>1, <2>2, <2>3 DEF HandlerStep
<1>2. ASSUME NEW j \in Jobs, Resume(j)
      PROVE  Contract!Next \/ UNCHANGED <<row, lock>>
  <2>1. CASE AcquireLock(j)
    <3>1. CASE Transition(j, "running") /\ lock' = j
      <4>1. row[j] # "none"
        BY <2>1, HeadTailProperties DEF AcquireLock, RowOK, QueueOK
      <4>2. Contract!Start(j)
        BY <2>1, <3>1, <4>1, TransitionFacts
           DEF AcquireLock, Transition, Contract!Start
      <4> QED BY <4>2 DEF Contract!Next
    <3>2. CASE EndTask(j) /\ UNCHANGED row
      BY <2>1, <3>2 DEF AcquireLock, EndTask
    <3> QED BY <2>1, <3>1, <3>2 DEF AcquireLock
  <2>2. CASE SpawnFails(j) \/ Reaped(j)
    <3>1. lock = j /\ row[j] \in {"running", "cancelling"}
      BY <2>2 DEF SpawnFails, Reaped, LockHeld, RowOK, Executing
    <3>2. Transition(j, "failed") /\ UNCHANGED lock
      BY <2>2 DEF SpawnFails, Reaped
    <3>3. Contract!Finish(j)
      BY <3>1, <3>2 DEF Transition, Contract!Finish,
                        ValidTransition, ALLOWED_JOB_TRANSITIONS,
                        Contract!TERMINAL_JOB_STATUSES, Contract!ValidTransition,
                        Contract!ALLOWED_JOB_TRANSITIONS
    <3> QED BY <3>3 DEF Contract!Next
  <2>3. CASE RunReturns(j)
    <3>1. lock = j /\ row[j] \in {"running", "cancelling"}
      BY <2>3 DEF RunReturns, LockHeld, RowOK, Executing
    <3>2. Contract!Finish(j) \/ UNCHANGED <<row, lock>>
      BY <2>3, <3>1 DEF RunReturns, Transition, Contract!Finish,
                        ValidTransition, ALLOWED_JOB_TRANSITIONS,
                        Contract!TERMINAL_JOB_STATUSES, Contract!ValidTransition,
                        Contract!ALLOWED_JOB_TRANSITIONS
    <3> QED BY <3>2 DEF Contract!Next
  <2>4. CASE SpawnReturns(j) \/ Terminate(j)
    BY <2>4 DEF SpawnReturns, Terminate
  <2> QED BY <1>2, <2>1, <2>2, <2>3, <2>4 DEF Resume
<1>3. ASSUME NEW j \in Jobs, Request(j)
      PROVE  Contract!Next \/ UNCHANGED <<row, lock>>
  <2>1. CASE CreateJob(j) \/ \E i \in Jobs : Retry(i, j)
    <3>1. row[j] = "none" /\ row' = [row EXCEPT ![j] = "queued"] /\ UNCHANGED lock
      BY <2>1 DEF CreateJob, Retry
    <3>2. Contract!Submit({j})
      BY <3>1 DEF Contract!Submit
    <3> QED BY <3>2 DEF Contract!Next
  <2>2. CASE CancelQueued(j)
    <3>1. Contract!CancelQueued(j)
      BY <2>2 DEF CancelQueued, Transition, Contract!CancelQueued
    <3> QED BY <3>1 DEF Contract!Next
  <2>3. CASE CancelRunning(j)
    <3>1. Contract!RequestCancel(j)
      BY <2>3 DEF CancelRunning, Transition, Contract!RequestCancel
    <3> QED BY <3>1 DEF Contract!Next
  <2> QED BY <1>3, <2>1, <2>2, <2>3 DEF Request
<1>4. ASSUME NEW j \in Jobs, Failure(j)
      PROVE  Contract!Next \/ UNCHANGED <<row, lock>>
  <2>1. CASE CreateFails(j)
    <3>1. row[j] = "queued" /\ lock # j
      BY <2>1 DEF CreateFails, Fault, LoopOK, LockHeld, Executing
    <3>2. Contract!Discard(j)
      BY <2>1, <3>1 DEF CreateFails, Contract!Discard
    <3> QED BY <3>2 DEF Contract!Next
  <2>2. CASE RunRaises(j)
    <3>1. (lock' = NoJob /\ UNCHANGED row) \/ UNCHANGED <<row, lock>>
      BY <2>2 DEF RunRaises, EndTask
    <3> QED BY <3>1 DEF Contract!Next, Contract!Release
  <2>3. CASE CancelRaises(j) \/ BootRaises(j)
    BY <2>3 DEF CancelRaises, BootRaises
  <2> QED BY <1>4, <2>1, <2>2, <2>3 DEF Failure
<1>5. ASSUME NEW j \in Jobs, Reconcile(j)
      PROVE  Contract!Next \/ UNCHANGED <<row, lock>>
  <2>1. Contract!Recover(j)
    BY <1>5 DEF Reconcile, Interrupted, Transition, PhaseOK, Contract!Recover
  <2> QED BY <2>1 DEF Contract!Next
<1>6. ASSUME NEW j \in Jobs, ProcessExits(j)
      PROVE  UNCHANGED <<row, lock>>
  BY <1>6 DEF ProcessExits
<1>7. ASSUME Crash PROVE Contract!Next
  BY <1>7 DEF Crash, Contract!Next, Contract!Release
<1>8. ASSUME Restart PROVE Contract!Next
  <2> DEFINE S == {j \in Jobs : row[j] = "none" /\ mirror[j] # "none"}
  <2>1. \A j \in S : mirror[j] = "queued"
    BY DEF RowOK
  <2>2. Contract!Submit(S)
    BY <1>8, <2>1 DEF Restart, Contract!Submit
  <2> QED BY <2>2 DEF Contract!Next
<1>9. ASSUME Serve PROVE UNCHANGED <<row, lock>>
  BY <1>9 DEF Serve
<1> QED BY <1>1, <1>2, <1>3, <1>4, <1>5, <1>6, <1>7, <1>8, <1>9 DEF Next

\* The detailed executor implements the contract its callers rely on.
THEOREM ContractHolds == Spec => ImplementsContract
<1>1. Init => Contract!Init
  BY DEF Init, Contract!Init
<1>2. QED
  BY <1>1, StepImplementsContract, TypeCorrect, ExecutorInvariant, PTL
     DEF Spec, ImplementsContract, Contract!Spec, Contract!vars

----------------------------------------------------------------------------

\* The contract has no step that leaves a terminal status.
LEMMA TerminalKept ==
    ASSUME TypeOK, [Contract!Next]_<<row, lock>>
    PROVE  [\A j \in Jobs : row[j] \in TERMINAL_JOB_STATUSES => row'[j] = row[j]]_row
<1> USE DEF TypeOK, TERMINAL_JOB_STATUSES
<1>1. SUFFICES ASSUME Contract!Next
                 PROVE  \A j \in Jobs : row[j] \in TERMINAL_JOB_STATUSES => row'[j] = row[j]
    OBVIOUS
<1>2. ASSUME NEW S \in SUBSET Jobs, Contract!Submit(S)
        PROVE  \A j \in Jobs : row[j] \in TERMINAL_JOB_STATUSES => row'[j] = row[j]
    BY <1>2 DEF Contract!Submit
<1>3. ASSUME NEW i \in Jobs,
               \/ Contract!Discard(i) \/ Contract!Start(i) \/ Contract!CancelQueued(i)
               \/ Contract!RequestCancel(i) \/ Contract!Finish(i) \/ Contract!Recover(i)
        PROVE  \A j \in Jobs : row[j] \in TERMINAL_JOB_STATUSES => row'[j] = row[j]
    BY <1>3 DEF Contract!Discard, Contract!Start, Contract!CancelQueued,
                Contract!RequestCancel, Contract!Finish, Contract!Recover
<1>4. ASSUME Contract!Release
        PROVE  \A j \in Jobs : row[j] \in TERMINAL_JOB_STATUSES => row'[j] = row[j]
    BY <1>4 DEF Contract!Release
<1> QED BY <1>1, <1>2, <1>3, <1>4 DEF Contract!Next

\* A terminal status is never reverted or overwritten.
THEOREM TerminalStatusIsFinal == Spec => TerminalIsFinal
<1>1. TypeOK /\ ExecutorInv /\ [Next]_vars
      => [\A j \in Jobs : row[j] \in TERMINAL_JOB_STATUSES => row'[j] = row[j]]_row
  BY StepImplementsContract, TerminalKept
<1>2. QED
  BY <1>1, TypeCorrect, ExecutorInvariant, PTL DEF Spec, TerminalIsFinal

----------------------------------------------------------------------------

\* RetriedStaysFinished also for a retry whose row was rolled back and may come
\* back from its job.json.
RetryInv ==
    \A j \in Jobs :
        (row[j] # "none" \/ mirror[j] # "none") /\ retryOf[j] # NoJob =>
            row[retryOf[j]] \in {"failed", "cancelled"}

\* The job a retry was made from stays failed or cancelled for ever.
THEOREM RetriedJobsStayFinished == Spec => []RetriedStaysFinished
<1> USE JobsAssumption
<1>1. Init => RetryInv
  BY DEF Init, RetryInv
<1>2. ASSUME TypeOK, ExecutorInv, RetryInv, [Next]_vars PROVE RetryInv'
  <2>1. \A i \in Jobs : row[i] \in {"failed", "cancelled"} => row'[i] = row[i]
    BY <1>2, StepImplementsContract, TerminalKept DEF TERMINAL_JOB_STATUSES
  <2>2. CASE /\ UNCHANGED retryOf
             /\ \A j \in Jobs : row'[j] # "none" \/ mirror'[j] # "none"
                              => row[j] # "none" \/ mirror[j] # "none"
    BY <1>2, <2>1, <2>2 DEF RetryInv, TypeOK
  <2>3. ASSUME NEW j \in Jobs, CreateJob(j) PROVE RetryInv'
    BY <1>2, <2>1, <2>3 DEF CreateJob, RetryInv, TypeOK
  <2>4. ASSUME NEW j \in Jobs, NEW i \in Jobs, Retry(i, j) PROVE RetryInv'
    BY <1>2, <2>1, <2>4 DEF Retry, RetryInv, TypeOK
  <2>5. ASSUME NEW j \in Jobs, RemoveTree(j) PROVE RetryInv'
    BY <1>2, <2>1, <2>5 DEF RemoveTree, RetryInv, TypeOK
  <2>6. ASSUME NEW j \in Jobs,
               \/ CollectEvidence(j) \/ CommitVerdict(j) \/ WriteMirror(j)
               \/ WriteManifest(j) \/ Resume(j) \/ CancelQueued(j) \/ CancelRunning(j)
               \/ Failure(j) \/ Reconcile(j) \/ ProcessExits(j)
        PROVE  RetryInv'
    <3>1. UNCHANGED retryOf
      BY <2>6 DEF CollectEvidence, CommitVerdict, WriteMirror, WriteManifest, Resume,
         AcquireLock, SpawnReturns, SpawnFails, Terminate, Reaped, RunReturns,
         CancelQueued, CancelRunning, Failure, CreateFails, RunRaises, CancelRaises,
         BootRaises, Reconcile, ProcessExits
    <3>2. \A i \in Jobs : mirror'[i] = mirror[i] \/ mirror'[i] = row[i]
      BY <1>2, <2>6 DEF CollectEvidence, CommitVerdict, WriteMirror, WriteManifest, Resume,
         AcquireLock, SpawnReturns, SpawnFails, Terminate, Reaped, RunReturns,
         CancelQueued, CancelRunning, Failure, CreateFails, RunRaises, CancelRaises,
         BootRaises, Reconcile, ProcessExits, TypeOK
    <3>3. \A i \in Jobs : row'[i] # "none" => row[i] # "none"
      <4>1. CASE Resume(j)
        <5>1. task[j] # "none"
          BY <1>2, <4>1, HeadTailProperties
             DEF Resume, AcquireLock, SpawnReturns, SpawnFails, Terminate, Reaped,
                 RunReturns, ExecutorInv, QueueOK, TypeOK
        <5>2. row[j] # "none"
          BY <1>2, <5>1 DEF ExecutorInv, RowOK
        <5>3. \A i \in Jobs \ {j} : row'[i] = row[i]
          BY <1>2, <4>1 DEF Resume, AcquireLock, SpawnReturns, SpawnFails, Terminate,
             Reaped, RunReturns, Transition, TypeOK
        <5> QED BY <5>2, <5>3
      <4>2. CASE CommitVerdict(j)
        BY <1>2, <4>2 DEF CommitVerdict, Transition, ExecutorInv, LoopOK, TypeOK
      <4>3. CASE CancelQueued(j) \/ CancelRunning(j) \/ CreateFails(j) \/ Reconcile(j)
        BY <1>2, <4>3 DEF CancelQueued, CancelRunning, CreateFails, Reconcile,
           Interrupted, Transition, TypeOK
      <4>4. CASE UNCHANGED row
        BY <4>4
      <4> QED
        BY <2>6, <4>1, <4>2, <4>3, <4>4
           DEF CollectEvidence, WriteMirror, WriteManifest, Failure, RunRaises,
               CancelRaises, BootRaises, ProcessExits
    <3> QED BY <2>2, <3>1, <3>2, <3>3
  <2>7. CASE Crash \/ Restart \/ Serve \/ UNCHANGED vars
    BY <1>2, <2>2, <2>7 DEF Crash, Restart, Serve, vars, TypeOK
  <2> QED
    BY <1>2, <2>3, <2>4, <2>5, <2>6, <2>7 DEF Next, HandlerStep, Request
<1>3. RetryInv => RetriedStaysFinished
  BY DEF RetryInv, RetriedStaysFinished
<1>4. QED BY <1>1, <1>2, <1>3, TypeCorrect, ExecutorInvariant, PTL DEF Spec

----------------------------------------------------------------------------

\* What the audit of job j needs before its row may say succeeded.
Audited(j) ==
    /\ frozen[j] # "absent" /\ inventory[j] /\ out[j] = "complete"
    /\ j \notin faulted => frozen[j] = "hashed"

\* The evidence is complete before the verdict is chosen, and the process that
\* produced it has ended by then, so that nothing replaces it any more.
AuditInv ==
    /\ loop.at \in {"evidence", "commit"} => HasEnded(loop.job)
    /\ loop.at = "commit" /\ loop.target = "succeeded" => Audited(loop.job)
    /\ \A j \in Jobs : row[j] = "succeeded" => HasEnded(j) /\ Audited(j)

\* A step of a handler or a coroutine other than the ones named below neither
\* touches the evidence nor lets a row succeed.
LEMMA AuditKept ==
    ASSUME TypeOK, ExecutorInv, AuditInv,
           UNCHANGED <<frozen, inventory>>,
           \A i \in Jobs : row'[i] = "succeeded" => row[i] = "succeeded",
           \A i \in Jobs : HasEnded(i) /\ (row[i] = "succeeded" \/ loop' = loop)
                         => proc'[i] = proc[i] /\ out'[i] = out[i],
           \A i \in Jobs : i \in faulted /\ i \notin faulted' => row[i] = "none",
           loop'.at \in {"evidence", "commit"} => loop' = loop
    PROVE  AuditInv'
<1> USE DEF AuditInv, Audited, TypeOK
<1>1. ASSUME NEW j \in Jobs, row'[j] = "succeeded"
      PROVE  HasEnded(j)' /\ Audited(j)'
  BY <1>1
<1>2. ASSUME loop'.at \in {"evidence", "commit"}
      PROVE  /\ HasEnded(loop.job)'
             /\ loop'.at = "commit" /\ loop'.target = "succeeded" => Audited(loop.job)'
  <2>1. loop' = loop /\ loop.job \in Jobs /\ row[loop.job] = "running"
    BY <1>2 DEF ExecutorInv, LoopOK, Idle
  <2> QED
    BY <1>2, <2>1
<1> QED
  BY <1>1, <1>2

\* A succeeded job has frozen prices, every artifact and their hashes.
THEOREM SuccessIsAudited == Spec => []SucceededIsAudited
<1> USE JobsAssumption
<1>1. Init => AuditInv
  BY DEF Init, AuditInv, Idle
<1>2. ASSUME TypeOK, ExecutorInv, AuditInv, [Next]_vars PROVE AuditInv'
  <2>1. ASSUME NEW j \in Jobs, CollectEvidence(j) PROVE AuditInv'
    <3>1. PICK prices \in {"absent", "copied", "hashed"} :
             /\ frozen' = [frozen EXCEPT ![j] = prices]
             /\ inventory' = [inventory EXCEPT ![j] = Complete(j, prices)]
             /\ loop' = [loop EXCEPT !.at = "commit",
                            !.target = IF Complete(j, prices) THEN "succeeded" ELSE "failed"]
             /\ IF prices = "copied" THEN Fault(j) ELSE UNCHANGED bounds
      BY <2>1 DEF CollectEvidence
    <3>2. loop.job = j /\ row[j] = "running" /\ HasEnded(j)
          /\ loop'.job = j /\ loop'.at = "commit"
          /\ loop'.target = (IF Complete(j, prices) THEN "succeeded" ELSE "failed")
      BY <1>2, <2>1, <3>1 DEF CollectEvidence, Handler, ExecutorInv, LoopOK, AuditInv
    <3>3. /\ UNCHANGED <<row, proc, out>>
          /\ faulted' = IF prices = "copied" THEN faulted \cup {j} ELSE faulted
      BY <2>1, <3>1 DEF CollectEvidence, Fault
    <3>4. ASSUME Complete(j, prices) PROVE Audited(j)'
      BY <1>2, <3>1, <3>3, <3>4 DEF Audited, TypeOK
    <3>5. ASSUME NEW i \in Jobs, row'[i] = "succeeded" PROVE HasEnded(i)' /\ Audited(i)'
      BY <1>2, <3>1, <3>2, <3>3, <3>5 DEF AuditInv, Audited, TypeOK
    <3> QED
      BY <3>2, <3>3, <3>4, <3>5 DEF AuditInv
  <2>2. ASSUME NEW j \in Jobs, CommitVerdict(j) PROVE AuditInv'
    <3>1. /\ row' = [row EXCEPT ![j] = loop.target] /\ loop'.at = "mirror"
          /\ loop.at = "commit" /\ loop.job = j
          /\ UNCHANGED <<frozen, inventory, proc, out, faulted>>
      BY <2>2 DEF CommitVerdict, Transition, Handler
    <3> QED
      BY <1>2, <3>1 DEF AuditInv, Audited, TypeOK
  <2>3. ASSUME NEW j \in Jobs, RunReturns(j) PROVE AuditInv'
    <3>1. /\ HasEnded(j)
          /\ loop'.job = j /\ loop'.at \in {"mirror", "evidence"}
          /\ UNCHANGED <<frozen, inventory, proc, out, faulted>>
          /\ \A i \in Jobs : row'[i] = "succeeded" => row[i] = "succeeded"
      BY <1>2, <2>3 DEF RunReturns, Transition, Handler, TypeOK
    <3> QED
      BY <1>2, <3>1 DEF AuditInv, Audited
  <2>4. ASSUME NEW j \in Jobs, WriteManifest(j) PROVE AuditInv'
    <3>1. /\ loop'.at = "idle" /\ loop' # loop
          /\ UNCHANGED <<frozen, inventory, row, faulted>>
      BY <2>4 DEF WriteManifest, Idle
    <3>2. ASSUME NEW i \in Jobs, HasEnded(i), row[i] = "succeeded"
          PROVE  proc'[i] = proc[i] /\ out'[i] = out[i]
      <4>1. CASE loop.kind = "start"
        <5>1. Spawn(j) /\ i # j
          BY <1>2, <2>4, <3>2, <4>1
             DEF WriteManifest, Continue, ExecutorInv, LoopOK, RowOK, Executing
        <5> QED BY <1>2, <5>1 DEF Spawn, TypeOK
      <4>2. CASE loop.kind = "cancelling"
        <5>1. KillActive(j)
          BY <2>4, <4>2 DEF WriteManifest, Continue
        <5> QED BY <1>2, <3>2, <5>1 DEF KillActive, TypeOK
      <4>3. CASE loop.kind \notin {"start", "cancelling"}
        BY <2>4, <4>3 DEF WriteManifest, Continue, Launch, EndTask
      <4> QED BY <4>1, <4>2, <4>3
    <3> QED
      BY <1>2, <3>1, <3>2, AuditKept
  <2>5. ASSUME NEW j \in Jobs, WriteMirror(j) \/ SpawnReturns(j) PROVE AuditInv'
    <3>1. /\ UNCHANGED <<row, frozen, inventory, proc, out, faulted>>
          /\ loop'.at \in {"evidence", "commit"} => loop' = loop
      BY <1>2, <2>5 DEF WriteMirror, SpawnReturns, TypeOK, Idle
    <3> QED
      BY <1>2, <3>1, AuditKept
  <2>6. ASSUME NEW j \in Jobs, RemoveTree(j) PROVE AuditInv'
    BY <1>2, <2>6 DEF RemoveTree, AuditInv, Audited, TypeOK, ExecutorInv, LoopOK, Idle
  <2>7. ASSUME NEW j \in Jobs,
               \/ AcquireLock(j) \/ SpawnFails(j) \/ Reaped(j)
               \/ CancelQueued(j) \/ CancelRunning(j) \/ Reconcile(j)
        PROVE  AuditInv'
    <3>1. UNCHANGED <<frozen, inventory, proc, out, faulted>>
      BY <2>7 DEF AcquireLock, SpawnFails, Reaped, CancelQueued, CancelRunning, Reconcile
    <3>2. \A i \in Jobs : row'[i] = "succeeded" => row[i] = "succeeded"
      BY <1>2, <2>7 DEF AcquireLock, SpawnFails, Reaped, CancelQueued, CancelRunning,
         Reconcile, Transition, TypeOK
    <3>3. loop'.at \notin {"evidence", "commit"} \/ loop' = loop
      BY <2>7 DEF AcquireLock, SpawnFails, Reaped, CancelQueued, CancelRunning,
         Reconcile, Handler
    <3> QED
      BY <1>2, <3>1, <3>2, <3>3, AuditKept
  <2>8. ASSUME NEW j \in Jobs, Terminate(j) \/ ProcessExits(j) PROVE AuditInv'
    <3>1. /\ UNCHANGED <<row, frozen, inventory, faulted, loop>>
          /\ \A i \in Jobs : HasEnded(i) => proc'[i] = proc[i] /\ out'[i] = out[i]
      BY <1>2, <2>8 DEF Terminate, ProcessExits, TypeOK
    <3> QED
      BY <1>2, <3>1, AuditKept
  <2>9. ASSUME NEW j \in Jobs, CreateJob(j) \/ (\E i \in Jobs : Retry(i, j)) PROVE AuditInv'
    BY <1>2, <2>9 DEF CreateJob, Retry, Handler, AuditInv, Audited, TypeOK
  <2>10. ASSUME NEW j \in Jobs, Failure(j) PROVE AuditInv'
    <3>1. /\ UNCHANGED <<frozen, inventory, proc, out>>
          /\ faulted' = faulted \cup {j}
          /\ loop'.at \notin {"evidence", "commit"}
          /\ \A i \in Jobs : row'[i] = "succeeded" => row[i] = "succeeded"
      BY <1>2, <2>10 DEF Failure, CreateFails, RunRaises, CancelRaises, BootRaises, Fault,
         Handler, Idle, TypeOK
    <3> QED
      BY <1>2, <3>1, AuditKept
  <2>11. CASE Crash \/ Serve
    <3>1. /\ UNCHANGED <<row, frozen, inventory, faulted>>
          /\ \A i \in Jobs : HasEnded(i) => proc'[i] = proc[i] /\ out'[i] = out[i]
          /\ loop' = Idle
      BY <1>2, <2>11 DEF Crash, Serve, TypeOK
    <3> QED
      BY <1>2, <3>1, AuditKept DEF Idle
  <2>12. CASE Restart
    <3>1. \A i \in Jobs : row'[i] = "succeeded" => row[i] = "succeeded"
      BY <1>2, <2>12 DEF Restart, ExecutorInv, RowOK, TypeOK
    <3> QED
      BY <1>2, <2>12, <3>1, AuditKept DEF Restart
  <2>13. CASE UNCHANGED vars
    BY <1>2, <2>13 DEF vars, AuditInv, Audited
  <2> QED
    BY <1>2, <2>1, <2>2, <2>3, <2>4, <2>5, <2>6, <2>7, <2>8, <2>9, <2>10, <2>11, <2>12, <2>13
       DEF Next, HandlerStep, Resume, Request
<1>3. AuditInv => SucceededIsAudited
  BY DEF AuditInv, Audited, SucceededIsAudited
<1>4. QED BY <1>1, <1>2, <1>3, TypeCorrect, ExecutorInvariant, PTL DEF Spec

----------------------------------------------------------------------------

Queued(s, j) == \E n \in 1 .. Len(s) : s[n] = j

\* Leaving the queue of the lock takes no one else out of it.
LEMMA OthersStayQueued ==
    ASSUME NEW s \in Seq(Jobs), NEW j, NEW i, i # j, Queued(s, i)
    PROVE  /\ Queued(RemoveFirst(s, j), i)
           /\ s # <<>> /\ Head(s) = j => Queued(Tail(s), i)
           /\ Queued(Append(s, j), i)
<1> PICK k \in 1 .. Len(s) : s[k] = i
  BY DEF Queued
<1>1. Queued(RemoveFirst(s, j), i)
  <2>1. CASE \E n \in 1 .. Len(s) : s[n] = j
    <3> DEFINE n == CHOOSE m \in 1 .. Len(s) : s[m] = j
    <3>1. n \in 1 .. Len(s) /\ s[n] = j
      BY <2>1
    <3>2. RemoveFirst(s, j) = [m \in 1 .. Len(s) - 1 |-> IF m < n THEN s[m] ELSE s[m + 1]]
      BY <2>1 DEF RemoveFirst
    <3> HIDE DEF n
    <3>3. Len(RemoveFirst(s, j)) = Len(s) - 1
      BY <3>1, <3>2
    <3>4. CASE k < n
      <4>1. k \in 1 .. Len(s) - 1 /\ RemoveFirst(s, j)[k] = i
        BY <3>1, <3>2, <3>4
      <4> QED BY <3>3, <4>1 DEF Queued
    <3>5. CASE k > n
      <4>1. k - 1 \in 1 .. Len(s) - 1 /\ RemoveFirst(s, j)[k - 1] = i
        BY <3>1, <3>2, <3>5
      <4> QED BY <3>3, <4>1 DEF Queued
    <3> QED BY <3>1, <3>4, <3>5
  <2>2. CASE ~ \E n \in 1 .. Len(s) : s[n] = j
    BY <2>2 DEF RemoveFirst, Queued
  <2> QED BY <2>1, <2>2
<1>2. ASSUME s # <<>>, Head(s) = j PROVE Queued(Tail(s), i)
  <2>1. k - 1 \in 1 .. Len(Tail(s)) /\ Tail(s)[k - 1] = i
    BY <1>2
  <2> QED BY <2>1 DEF Queued
<1>3. Queued(Append(s, j), i)
  <2>1. k \in 1 .. Len(Append(s, j)) /\ Append(s, j)[k] = i
    OBVIOUS
  <2> QED BY <2>1 DEF Queued
<1> QED BY <1>1, <1>2, <1>3

\* A queued job stands in the queue or is about to be launched, a running one
\* holds the lock, and the handler that ends a coroutine has written its verdict.
Creating(j) == loop.job = j /\ loop.kind \in {"create", "retry"}
DrivenInv ==
    /\ loop.kind = "finish" /\ loop.at \in {"mirror", "manifest"} =>
          row[loop.job] \in TERMINAL_JOB_STATUSES
    /\ phase = "serving" => \A j \in Jobs \ faulted :
          /\ row[j] = "queued" => Queued(waiters, j) \/ Creating(j)
          /\ row[j] = "running" => lock = j

\* No wake-up of the lock is lost: queued and running jobs are always carried on.
THEOREM AcceptedJobsAreDriven == Spec => []QueuedAndRunningAreDriven
<1> USE JobsAssumption
<1>1. Init => DrivenInv
  BY DEF Init, DrivenInv, Idle
<1>2. ASSUME TypeOK, ExecutorInv, DrivenInv, [Next]_vars PROVE DrivenInv'
  <2>1. ASSUME NEW j \in Jobs, CollectEvidence(j) PROVE DrivenInv'
    <3>1. /\ loop'.at = "commit" /\ loop.kind = "finish"
          /\ UNCHANGED <<row, phase, waiters, lock>>
          /\ faulted \subseteq faulted'
      BY <2>1 DEF CollectEvidence, Fault, Handler
    <3> QED BY <1>2, <3>1 DEF DrivenInv, Creating
  <2>2. ASSUME NEW j \in Jobs, CommitVerdict(j) PROVE DrivenInv'
    <3>1. /\ row' = [row EXCEPT ![j] = loop.target] /\ loop.target \in {"succeeded", "failed"}
          /\ loop.kind = "finish" /\ loop'.job = j
          /\ UNCHANGED <<phase, waiters, lock, faulted>>
      BY <1>2, <2>2 DEF CommitVerdict, Transition, Handler, ExecutorInv, LoopOK
    <3> QED BY <1>2, <3>1 DEF DrivenInv, Creating, TypeOK, TERMINAL_JOB_STATUSES
  <2>3. ASSUME NEW j \in Jobs, WriteMirror(j) PROVE DrivenInv'
    <3>1. /\ loop.at = "mirror" /\ loop'.kind = loop.kind /\ loop'.job = loop.job
          /\ UNCHANGED <<row, phase, waiters, lock, faulted>>
      BY <1>2, <2>3 DEF WriteMirror, TypeOK, Idle
    <3> QED BY <1>2, <3>1 DEF DrivenInv, Creating
  <2>4. ASSUME NEW j \in Jobs, WriteManifest(j) PROVE DrivenInv'
    <3>1. /\ loop.job = j /\ loop.at = "manifest" /\ loop'.kind = "idle"
          /\ loop.kind \in Kinds
          /\ UNCHANGED <<row, phase, faulted>>
      BY <1>2, <2>4 DEF WriteManifest, Idle, TypeOK
    <3>2. ASSUME NEW i \in Jobs, Queued(waiters, i) \/ Creating(i) PROVE Queued(waiters, i)'
      <4>1. CASE loop.kind \in {"create", "retry"}
        <5>1. waiters' = Append(waiters, j)
          BY <2>4, <4>1 DEF WriteManifest, Continue, Launch
        <5>2. CASE i = j
          <6>1. Len(waiters') \in 1 .. Len(waiters') /\ waiters'[Len(waiters')] = i
            BY <1>2, <5>1, <5>2 DEF TypeOK
          <6> QED BY <6>1 DEF Queued
        <5>3. CASE i # j
          BY <1>2, <3>1, <3>2, <5>1, <5>3, OthersStayQueued DEF Creating, TypeOK
        <5> QED BY <5>2, <5>3
      <4>2. CASE loop.kind \notin {"create", "retry"}
        BY <2>4, <3>2, <4>2 DEF WriteManifest, Continue, Spawn, KillActive, EndTask,
           Creating, Queued
      <4> QED BY <4>1, <4>2
    <3>3. ASSUME NEW i \in Jobs, lock = i, row[i] = "running" PROVE lock' = i
      <4>1. CASE loop.kind = "finish"
        <5>1. i # j
          BY <1>2, <3>1, <3>3, <4>1 DEF DrivenInv, TERMINAL_JOB_STATUSES
        <5> QED BY <2>4, <3>3, <4>1, <5>1 DEF WriteManifest, Continue, EndTask
      <4>2. CASE loop.kind # "finish"
        BY <2>4, <3>3, <4>2 DEF WriteManifest, Continue, Launch, Spawn, KillActive
      <4> QED BY <4>1, <4>2
    <3> QED BY <1>2, <3>1, <3>2, <3>3 DEF DrivenInv
  <2>5. ASSUME NEW j \in Jobs, RemoveTree(j) PROVE DrivenInv'
    <3>1. /\ row[j] = "none" /\ loop.kind = "rollback" /\ loop'.kind = "idle"
          /\ faulted' = faulted \ {j}
          /\ UNCHANGED <<row, phase, waiters, lock>>
      BY <1>2, <2>5 DEF RemoveTree, Idle, ExecutorInv, LoopOK
    <3> QED BY <1>2, <3>1 DEF DrivenInv, Creating
  <2>6. ASSUME NEW j \in Jobs, AcquireLock(j) PROVE DrivenInv'
    <3>1. /\ lock = NoJob /\ loop.kind = "idle" /\ phase = "serving"
          /\ waiters # <<>> /\ j = Head(waiters) /\ waiters' = Tail(waiters)
          /\ UNCHANGED <<phase, faulted>>
      BY <2>6 DEF AcquireLock, Ready, Idle
    <3>2. ASSUME NEW i \in Jobs \ {j}, Queued(waiters, i) PROVE Queued(waiters, i)'
      <4>1. waiters \in Seq(Jobs)
        BY <1>2 DEF TypeOK
      <4>2. Queued(waiters', i)
        BY <3>1, <3>2, <4>1, OthersStayQueued
      <4> QED BY <4>2 DEF Queued
    <3>3. CASE /\ Transition(j, "running") /\ lock' = j
               /\ loop' = Handler("start", j, "mirror")
      BY <1>2, <3>1, <3>2, <3>3 DEF DrivenInv, Creating, Transition, Handler, TypeOK
    <3>4. CASE ~ValidTransition(row[j], "running") /\ UNCHANGED <<row, loop>>
      <4>1. row[j] # "queued"
        BY <3>4 DEF ValidTransition, ALLOWED_JOB_TRANSITIONS
      <4> QED BY <1>2, <3>1, <3>2, <3>4, <4>1 DEF DrivenInv, Creating
    <3> QED BY <2>6, <3>3, <3>4 DEF AcquireLock
  <2>7. ASSUME NEW j \in Jobs, SpawnFails(j) \/ Reaped(j) \/ RunReturns(j) PROVE DrivenInv'
    <3>1. /\ loop.kind = "idle" /\ loop'.kind = "finish" /\ loop'.job = j
          /\ UNCHANGED <<phase, waiters, lock, faulted>>
          /\ \/ row' = [row EXCEPT ![j] = "failed"]
             \/ row' = [row EXCEPT ![j] = "cancelled"]
             \/ row' = row /\ loop'.at = "evidence"
      BY <2>7 DEF SpawnFails, Reaped, RunReturns, Transition, Ready, Idle, Handler
    <3> QED BY <1>2, <3>1 DEF DrivenInv, Creating, TypeOK, TERMINAL_JOB_STATUSES
  <2>8. ASSUME NEW j \in Jobs, SpawnReturns(j) \/ Terminate(j) \/ ProcessExits(j)
        PROVE  DrivenInv'
    BY <1>2, <2>8 DEF SpawnReturns, Terminate, ProcessExits, DrivenInv, Creating, Queued
  <2>9. ASSUME NEW j \in Jobs, CreateJob(j) \/ (\E i \in Jobs : Retry(i, j)) PROVE DrivenInv'
    <3>1. /\ loop.kind = "idle" /\ loop'.kind \in {"create", "retry"} /\ loop'.job = j
          /\ row' = [row EXCEPT ![j] = "queued"]
          /\ UNCHANGED <<phase, waiters, lock, faulted>>
      BY <2>9 DEF CreateJob, Retry, Ready, Idle, Handler
    <3> QED BY <1>2, <3>1 DEF DrivenInv, Creating, TypeOK
  <2>10. ASSUME NEW j \in Jobs, CancelQueued(j) \/ CancelRunning(j) PROVE DrivenInv'
    <3>1. /\ loop.kind = "idle" /\ loop'.kind \in {"cancel", "cancelling"}
          /\ row' \in {[row EXCEPT ![j] = "cancelled"], [row EXCEPT ![j] = "cancelling"]}
          /\ waiters' \in {waiters, RemoveFirst(waiters, j)}
          /\ UNCHANGED <<phase, lock, faulted>>
      BY <2>10 DEF CancelQueued, CancelRunning, Transition, Ready, Idle, Handler
    <3>2. ASSUME NEW i \in Jobs \ {j}, Queued(waiters, i) PROVE Queued(waiters, i)'
      <4>1. waiters \in Seq(Jobs)
        BY <1>2 DEF TypeOK
      <4>2. Queued(waiters', i)
        BY <3>1, <3>2, <4>1, OthersStayQueued
      <4> QED BY <4>2 DEF Queued
    <3> QED BY <1>2, <3>1, <3>2 DEF DrivenInv, Creating, TypeOK
  <2>11. ASSUME NEW j \in Jobs, Failure(j) PROVE DrivenInv'
    <3>1. /\ loop.job = j /\ faulted' = faulted \cup {j} /\ loop'.kind # "finish"
          /\ UNCHANGED waiters /\ phase' \in {phase, "down"}
          /\ \A i \in Jobs \ {j} : row'[i] = row[i] /\ (lock = i => lock' = i)
      BY <1>2, <2>11 DEF Failure, CreateFails, RunRaises, CancelRaises, BootRaises, Fault,
         EndTask, Handler, Idle, TypeOK
    <3> QED BY <1>2, <3>1 DEF DrivenInv, Creating
  <2>12. ASSUME NEW j \in Jobs, Reconcile(j) PROVE DrivenInv'
    BY <1>2, <2>12 DEF Reconcile, DrivenInv, Handler
  <2>13. CASE Crash \/ Restart
    BY <1>2, <2>13 DEF Crash, Restart, DrivenInv, Idle, ExecutorInv, PhaseOK
  <2>14. CASE Serve
    BY <1>2, <2>14 DEF Serve, DrivenInv, Interrupted, Idle
  <2>15. CASE UNCHANGED vars
    BY <1>2, <2>15 DEF vars, DrivenInv, Creating, Queued
  <2> QED
    BY <1>2, <2>1, <2>2, <2>3, <2>4, <2>5, <2>6, <2>7, <2>8, <2>9, <2>10, <2>11, <2>12,
       <2>13, <2>14, <2>15 DEF Next, HandlerStep, Resume, Request
<1>3. DrivenInv => QueuedAndRunningAreDriven
  BY DEF DrivenInv, QueuedAndRunningAreDriven, Driven, Queued, Creating, Ready, Idle
<1>4. QED BY <1>1, <1>2, <1>3, TypeCorrect, ExecutorInvariant, PTL DEF Spec

----------------------------------------------------------------------------

\* A copy that trails the row still trails it when the row takes a transition.
LEMMA TrailsOn ==
    ASSUME NEW s \in JobStatus, NEW t \in JobStatus, NEW u, Trails(s, t), ValidTransition(t, u)
    PROVE  Trails(s, u)
BY DEF Trails, ValidTransition, ALLOWED_JOB_TRANSITIONS, JobStatus

\* Nothing comes before queued.
LEMMA TrailsQueued ==
    ASSUME NEW s \in JobStatus, Trails(s, "queued")
    PROVE  s = "queued"
BY DEF Trails, ValidTransition, ALLOWED_JOB_TRANSITIONS, JobStatus

\* A copy of the row of j is missing or trails it.
CopyOf(copy, j) == copy[j] # "none" => Trails(copy[j], row[j])

Copying == {"mirror", "manifest"}

\* A job without a row was never announced and its files say queued at most; a
\* job with a row has copies that trail it, and the last event is current unless
\* the handler that moved the row has not come to it yet.
CopiesInv ==
    /\ \A j \in Jobs : row[j] = "none" =>
          manifest[j] \in {"none", "queued"} /\ published[j] = "none"
    /\ \A j \in Jobs : row[j] # "none" =>
          /\ CopyOf(mirror, j) /\ CopyOf(manifest, j) /\ CopyOf(published, j)
          /\ published[j] # "none" /\ j \notin faulted /\ published[j] # row[j] =>
                loop.job = j /\ loop.at \in Copying
    /\ loop.kind \in {"create", "retry"} => published[loop.job] = "none"

\* Steps that move the row of one job along the graph and start its handler.
LEMMA CopiesFollow ==
    ASSUME TypeOK, CopiesInv, NEW j \in Jobs, NEW t, row[j] # "none", Transition(j, t),
           UNCHANGED <<mirror, manifest, published, faulted>>,
           loop.at \notin Copying,
           loop'.job = j, loop'.at = "mirror", loop'.kind \notin {"create", "retry"}
    PROVE  CopiesInv'
<1>1. /\ row[j] \in JobStatus /\ ValidTransition(row[j], t)
      /\ row'[j] = t /\ \A i \in Jobs \ {j} : row'[i] = row[i]
  BY DEF Transition, TypeOK, Statuses
<1>2. t \in JobStatus /\ t # "none"
  BY <1>1, TransitionFacts DEF Statuses, JobStatus
<1>3. ASSUME NEW copy \in [Jobs -> Statuses], CopyOf(copy, j), copy[j] # "none"
      PROVE  Trails(copy[j], row'[j])
  BY <1>1, <1>3, TrailsOn DEF CopyOf, Statuses
<1>4. CopyOf(mirror, j)' /\ CopyOf(manifest, j)' /\ CopyOf(published, j)'
  BY <1>1, <1>3 DEF CopyOf, CopiesInv, TypeOK
<1> QED
  BY <1>1, <1>2, <1>4 DEF CopiesInv, CopyOf, Copying

\* Steps that leave the row and its copies alone.
LEMMA CopiesKept ==
    ASSUME TypeOK, CopiesInv, UNCHANGED <<row, mirror, manifest, published>>,
           faulted \subseteq faulted',
           loop.at \in Copying =>
               \/ loop.job \in faulted'
               \/ loop'.job = loop.job /\ loop'.at \in Copying,
           loop'.kind \in {"create", "retry"} => loop'.kind = loop.kind /\ loop'.job = loop.job
    PROVE  CopiesInv'
BY DEF CopiesInv, CopyOf, Copying

\* job.json, manifest.json and the last event never claim what the row has not
\* reached, and no transition goes unannounced.
THEOREM CopiesNeverLead == Spec => []CopiesTrailTheRow
<1> USE JobsAssumption
<1>1. Init => CopiesInv
  BY DEF Init, CopiesInv, Idle
<1>2. ASSUME TypeOK, ExecutorInv, CopiesInv, [Next]_vars PROVE CopiesInv'
  <2>1. ASSUME NEW j \in Jobs, CollectEvidence(j) PROVE CopiesInv'
    <3>1. /\ loop.at = "evidence" /\ loop'.kind = loop.kind /\ loop.kind = "finish"
          /\ faulted \subseteq faulted'
      BY <2>1 DEF CollectEvidence, Fault, Handler
    <3> QED BY <1>2, <2>1, <3>1, CopiesKept DEF CollectEvidence, Copying
  <2>2. ASSUME NEW j \in Jobs, CommitVerdict(j) PROVE CopiesInv'
    <3>1. row[j] # "none"
      BY <1>2, <2>2 DEF CommitVerdict, ExecutorInv, LoopOK
    <3> QED
      BY <1>2, <2>2, <3>1, CopiesFollow DEF CommitVerdict, Handler, Copying
  <2>3. ASSUME NEW j \in Jobs, WriteMirror(j) PROVE CopiesInv'
    <3>1. /\ loop.at = "mirror" /\ loop'.at = "manifest"
          /\ loop'.kind = loop.kind /\ loop'.job = loop.job
      BY <1>2, <2>3 DEF WriteMirror, TypeOK, Idle
    <3>2. /\ mirror'[j] = row[j] /\ \A i \in Jobs \ {j} : mirror'[i] = mirror[i]
          /\ UNCHANGED <<row, manifest, published, faulted>>
      BY <1>2, <2>3 DEF WriteMirror, TypeOK
    <3> QED
      BY <1>2, <3>1, <3>2 DEF CopiesInv, CopyOf, Copying, Trails
  <2>4. ASSUME NEW j \in Jobs, WriteManifest(j) PROVE CopiesInv'
    <3>1. /\ manifest'[j] = row[j] /\ \A i \in Jobs \ {j} : manifest'[i] = manifest[i]
          /\ published'[j] = row[j] /\ \A i \in Jobs \ {j} : published'[i] = published[i]
          /\ loop.job = j /\ loop'.kind = "idle"
          /\ UNCHANGED <<row, mirror, faulted>>
      BY <1>2, <2>4 DEF WriteManifest, TypeOK, Idle
    <3> QED
      BY <1>2, <3>1 DEF CopiesInv, CopyOf, Trails
  <2>5. ASSUME NEW j \in Jobs, RemoveTree(j) PROVE CopiesInv'
    <3>1. /\ row[j] = "none" /\ loop.at = "rmtree" /\ loop'.kind = "idle"
          /\ manifest'[j] = "none"
          /\ \A i \in Jobs \ {j} : manifest'[i] = manifest[i] /\ mirror'[i] = mirror[i]
          /\ faulted' = faulted \ {j}
          /\ UNCHANGED <<row, published>>
      BY <1>2, <2>5 DEF RemoveTree, Idle, ExecutorInv, LoopOK, TypeOK
    <3> QED BY <1>2, <3>1 DEF CopiesInv, CopyOf, Copying
  <2>6. ASSUME NEW j \in Jobs, AcquireLock(j) PROVE CopiesInv'
    <3>1. CASE Transition(j, "running") /\ loop' = Handler("start", j, "mirror")
      <4>1. task[j] = "waiting"
        BY <1>2, <2>6, HeadTailProperties DEF AcquireLock, ExecutorInv, QueueOK, TypeOK
      <4>2. row[j] # "none"
        BY <1>2, <4>1 DEF ExecutorInv, RowOK
      <4> QED
        BY <1>2, <2>6, <3>1, <4>2, CopiesFollow DEF AcquireLock, Ready, Idle, Handler, Copying
    <3>2. CASE UNCHANGED <<row, loop>>
      BY <1>2, <2>6, <3>2, CopiesKept DEF AcquireLock, Ready, Idle, Copying
    <3> QED BY <2>6, <3>1, <3>2 DEF AcquireLock
  <2>7. ASSUME NEW j \in Jobs, SpawnFails(j) \/ Reaped(j) \/ RunReturns(j) PROVE CopiesInv'
    <3>1. row[j] # "none"
      BY <1>2, <2>7 DEF SpawnFails, Reaped, RunReturns, ExecutorInv, RowOK
    <3>2. CASE loop'.at = "mirror"
      <4>1. \E t \in {"failed", "cancelled"} : Transition(j, t)
        BY <2>7, <3>2 DEF SpawnFails, Reaped, RunReturns, Handler
      <4> QED
        BY <1>2, <2>7, <3>1, <3>2, <4>1, CopiesFollow
           DEF SpawnFails, Reaped, RunReturns, Ready, Idle, Handler, Copying
    <3>3. CASE loop'.at # "mirror"
      BY <1>2, <2>7, <3>3, CopiesKept
         DEF SpawnFails, Reaped, RunReturns, Ready, Idle, Handler, Copying
    <3> QED BY <3>2, <3>3
  <2>8. ASSUME NEW j \in Jobs, SpawnReturns(j) \/ Terminate(j) \/ ProcessExits(j)
        PROVE  CopiesInv'
    BY <1>2, <2>8, CopiesKept DEF SpawnReturns, Terminate, ProcessExits
  <2>9. ASSUME NEW j \in Jobs, CreateJob(j) \/ (\E i \in Jobs : Retry(i, j)) PROVE CopiesInv'
    <3>1. /\ row[j] = "none" /\ mirror[j] = "none" /\ loop = Idle
          /\ row'[j] = "queued" /\ manifest'[j] = "queued"
          /\ \A i \in Jobs \ {j} : row'[i] = row[i] /\ manifest'[i] = manifest[i]
          /\ loop'.job = j /\ loop'.at = "mirror"
          /\ UNCHANGED <<mirror, published, faulted>>
      BY <1>2, <2>9 DEF CreateJob, Retry, Ready, Handler, TypeOK
    <3> QED BY <1>2, <3>1 DEF CopiesInv, CopyOf, Copying, Idle, Trails
  <2>10. ASSUME NEW j \in Jobs, CancelQueued(j) \/ CancelRunning(j) \/ Reconcile(j)
         PROVE CopiesInv'
    <3>1. \E t \in {"cancelled", "cancelling", "failed"} : Transition(j, t)
      BY <2>10 DEF CancelQueued, CancelRunning, Reconcile
    <3>2. /\ row[j] # "none" /\ loop = Idle
          /\ loop'.job = j /\ loop'.at = "mirror" /\ loop'.kind \notin {"create", "retry"}
          /\ UNCHANGED <<mirror, manifest, published, faulted>>
      BY <2>10 DEF CancelQueued, CancelRunning, Reconcile, Interrupted, Ready, Handler
    <3> QED
      BY <1>2, <3>1, <3>2, CopiesFollow DEF Idle, Copying
  <2>11. ASSUME NEW j \in Jobs, CreateFails(j) PROVE CopiesInv'
    <3>1. /\ row[j] = "queued" /\ row'[j] = "none" /\ published[j] = "none"
          /\ \A i \in Jobs \ {j} : row'[i] = row[i]
          /\ loop.job = j /\ loop'.kind = "rollback"
          /\ faulted' = faulted \cup {j}
          /\ UNCHANGED <<mirror, manifest, published>>
      BY <1>2, <2>11 DEF CreateFails, Fault, Handler, ExecutorInv, LoopOK, CopiesInv, TypeOK
    <3>2. manifest[j] \in {"none", "queued"}
      BY <1>2, <3>1, TrailsQueued DEF CopiesInv, CopyOf, TypeOK, Statuses
    <3> QED BY <1>2, <3>1, <3>2 DEF CopiesInv, CopyOf, Copying
  <2>12. ASSUME NEW j \in Jobs, RunRaises(j) \/ CancelRaises(j) PROVE CopiesInv'
    <3>1. /\ loop.job = j /\ faulted' = faulted \cup {j} /\ loop'.kind = "idle"
          /\ UNCHANGED <<row, mirror, manifest, published>>
      BY <2>12 DEF RunRaises, CancelRaises, Fault, Idle
    <3> QED BY <1>2, <3>1 DEF CopiesInv, CopyOf
  <2>13. CASE Crash \/ \E j \in Jobs : BootRaises(j)
    <3>1. /\ UNCHANGED <<row, mirror, manifest>> /\ loop' = Idle
          /\ \A i \in Jobs : published'[i] = "none"
      BY <2>13 DEF Crash, BootRaises
    <3> QED BY <1>2, <3>1 DEF CopiesInv, CopyOf, Idle
  <2>14. CASE Restart
    <3>1. \A i \in Jobs : row[i] = "none" => mirror[i] \in {"none", "queued"}
      BY <1>2 DEF ExecutorInv, RowOK
    <3>2. /\ \A i \in Jobs : row'[i] = IF row[i] = "none" THEN mirror[i] ELSE row[i]
          /\ UNCHANGED <<mirror, manifest, published, faulted, loop>>
      BY <2>14 DEF Restart
    <3>3. loop = Idle
      BY <1>2, <2>14 DEF Restart, ExecutorInv, PhaseOK
    <3> QED BY <1>2, <3>1, <3>2, <3>3 DEF CopiesInv, CopyOf, Idle, Trails
  <2>15. CASE Serve \/ UNCHANGED vars
    BY <1>2, <2>15, CopiesKept DEF Serve, vars
  <2> QED
    BY <1>2, <2>1, <2>2, <2>3, <2>4, <2>5, <2>6, <2>7, <2>8, <2>9, <2>10, <2>11, <2>12,
       <2>13, <2>14, <2>15 DEF Next, HandlerStep, Resume, Request, Failure
<1>3. CopiesInv => CopiesTrailTheRow
  BY DEF CopiesInv, CopyOf, CopiesTrailTheRow, Copying, Ready, Idle
<1>4. QED BY <1>1, <1>2, <1>3, TypeCorrect, ExecutorInvariant, PTL DEF Spec

(***************************************************************************)
(* What a browser is shown, for any number of browsers, events and any     *)
(* queue.                                                                   *)
(***************************************************************************)
Increasing(s) == \A i, k \in 1..Len(s) : i < k => s[i] < s[k]
Members(s) == {s[i] : i \in 1..Len(s)}
Later(m, e) == {f \in m : f > e}

\* What holds of the events g sent and q waiting of a listener that was meant to
\* get m, after n events.
Followed(g, q, m, n) ==
    /\ g \in Seq(Nat) /\ q \in Seq(Nat) /\ Len(q) <= QueueSize
    /\ m \in SUBSET (1..n) /\ Members(q) \subseteq m /\ Members(g) \subseteq 1..n
    /\ Increasing(g \o q)
    /\ \A e \in m \ Members(g \o q) : Cardinality(Later(m, e)) >= QueueSize

StreamInv ==
    /\ ids \in Nat /\ subscribers \subseteq Listeners
    /\ queue \in [Listeners -> Seq(Nat)] /\ got \in [Listeners -> Seq(Nat)]
    /\ meant \in [Listeners -> SUBSET Nat]
    /\ \A l \in Listeners : Followed(got[l], queue[l], meant[l], ids)
    /\ \A l \in Listeners \ subscribers : got[l] = <<>> /\ queue[l] = <<>> /\ meant[l] = {}

LEMMA MembersOfConcat ==
    ASSUME NEW s \in Seq(Nat), NEW t \in Seq(Nat)
    PROVE  /\ s \o t \in Seq(Nat) /\ Len(s \o t) = Len(s) + Len(t)
           /\ \A i \in 1..Len(s) : (s \o t)[i] = s[i]
           /\ \A i \in 1..Len(t) : (s \o t)[Len(s) + i] = t[i]
           /\ Members(s \o t) = Members(s) \cup Members(t)
<1>1. /\ s \o t \in Seq(Nat) /\ Len(s \o t) = Len(s) + Len(t)
      /\ \A i \in 1..Len(s) : (s \o t)[i] = s[i]
      /\ \A i \in 1..Len(t) : (s \o t)[Len(s) + i] = t[i]
  OBVIOUS
<1>2. Members(s \o t) \subseteq Members(s) \cup Members(t)
  <2> SUFFICES ASSUME NEW i \in 1..Len(s \o t)
               PROVE  (s \o t)[i] \in Members(s) \cup Members(t)
    BY DEF Members
  <2>1. CASE i <= Len(s)
    BY <1>1, <2>1 DEF Members
  <2>2. CASE i > Len(s)
    <3>1. i - Len(s) \in 1..Len(t) /\ i = Len(s) + (i - Len(s))
      BY <1>1, <2>2
    <3>2. (s \o t)[i] = t[i - Len(s)]
      BY <1>1, <3>1
    <3> QED
      BY <3>1, <3>2 DEF Members
  <2> QED
    BY <2>1, <2>2
<1>3. Members(s) \cup Members(t) \subseteq Members(s \o t)
  <2>1. \A i \in 1..Len(s) : i \in 1..Len(s \o t)
    BY <1>1
  <2>2. \A i \in 1..Len(t) : Len(s) + i \in 1..Len(s \o t)
    BY <1>1
  <2> QED
    BY <1>1, <2>1, <2>2 DEF Members
<1> QED
  BY <1>1, <1>2, <1>3

\* As many numbers follow e as there are positions in an increasing queue of them.
LEMMA QueueIsEnough ==
    ASSUME NEW q \in Seq(Nat), Increasing(q), NEW m, IsFiniteSet(m), Members(q) \subseteq m
    PROVE  Cardinality(m) >= Len(q)
<1> DEFINE N == Len(q)
           f == [i \in 1..N |-> q[i]]
<1>1. N \in Nat
  OBVIOUS
<1>2. \A i \in 1..N : q[i] \in Nat /\ q[i] \in m
  BY DEF Members
<1>3. f \in [1..N -> m]
  BY <1>2
<1>4. \A i, k \in 1..N : f[i] = f[k] => i = k
  BY <1>1, <1>2 DEF Increasing
<1> HIDE DEF f
<1>5. f \in Injection(1..N, m)
  BY <1>3, <1>4 DEF Injection, IsInjective
<1>6. Cardinality(1..N) = N
  <2> HIDE DEF N
  <2>1. 1 \in Int /\ N \in Int
    BY <1>1
  <2>2. Cardinality(1..N) = IF 1 > N THEN 0 ELSE N - 1 + 1
    BY <2>1, FS_Interval
  <2> QED
    BY <1>1, <2>2
<1>7. Cardinality(1..N) <= Cardinality(m)
  BY <1>5, FS_Injection
<1>8. Cardinality(m) \in Nat
  BY FS_CardinalityType
<1> QED
  BY <1>1, <1>6, <1>7, <1>8

LEMMA MoreFollow ==
    ASSUME NEW n \in Nat, NEW m \in SUBSET (1..n), NEW k \in SUBSET (1..n), m \subseteq k, NEW e,
           Cardinality(Later(m, e)) >= QueueSize, QueueSize \in Nat
    PROVE  Cardinality(Later(k, e)) >= QueueSize
<1>1. IsFiniteSet(1..n)
  BY FS_Interval, 1 \in Int, n \in Int
<1>2. IsFiniteSet(k)
  BY <1>1, FS_Subset
<1>3. Later(k, e) \subseteq k /\ Later(m, e) \subseteq Later(k, e)
  BY DEF Later
<1>4. IsFiniteSet(Later(k, e))
  BY <1>2, <1>3, FS_Subset
<1>5. IsFiniteSet(Later(m, e)) /\ Cardinality(Later(m, e)) <= Cardinality(Later(k, e))
  BY <1>3, <1>4, FS_Subset
<1>6. Cardinality(Later(m, e)) \in Nat /\ Cardinality(Later(k, e)) \in Nat
  BY <1>4, <1>5, FS_CardinalityType
<1> QED
  BY <1>5, <1>6

\* A new event pushes out at most the oldest one, which a whole queue follows.
LEMMA EnqueuedStep ==
    ASSUME QueueSize \in Nat \ {0}, NEW n \in Nat, NEW g, NEW q, NEW m, Followed(g, q, m, n)
    PROVE  Followed(g, Enqueued(q, n + 1), m \cup {n + 1}, n + 1)
<1> DEFINE rest == IF Len(q) = QueueSize THEN Tail(q) ELSE q
           new == Append(rest, n + 1)
           all == m \cup {n + 1}
<1>1. /\ g \in Seq(Nat) /\ q \in Seq(Nat) /\ Len(q) <= QueueSize
      /\ m \in SUBSET (1..n) /\ Members(q) \subseteq m /\ Members(g) \subseteq 1..n
      /\ Increasing(g \o q)
      /\ \A e \in m \ Members(g \o q) : Cardinality(Later(m, e)) >= QueueSize
  BY DEF Followed
<1>2. new = Enqueued(q, n + 1)
  BY DEF Enqueued
<1>3. PICK d \in {0, 1} : /\ rest \in Seq(Nat) /\ Len(rest) = Len(q) - d
                          /\ \A i \in 1..Len(rest) : rest[i] = q[i + d]
                          /\ d = 1 <=> Len(q) = QueueSize
                          /\ d <= Len(q)
  <2>1. CASE Len(q) = QueueSize
    <3>1. q # <<>> /\ Len(q) >= 1
      BY <1>1, <2>1
    <3>2. rest = Tail(q) /\ Tail(q) \in Seq(Nat) /\ Len(Tail(q)) = Len(q) - 1
      BY <1>1, <2>1, <3>1
    <3>3. \A i \in 1..Len(Tail(q)) : Tail(q)[i] = q[i + 1]
      BY <1>1, <3>1
    <3> QED
      BY <2>1, <3>1, <3>2, <3>3
  <2>2. CASE Len(q) # QueueSize
    <3>1. \A i \in 1..Len(q) : q[i] = q[i + 0]
      BY <1>1
    <3>2. rest = q /\ Len(q) \in Nat
      BY <1>1, <2>2
    <3> QED
      BY <1>1, <2>2, <3>1, <3>2
  <2> QED
    BY <2>1, <2>2
<1> HIDE DEF rest
<1>3a. Len(g) \in Nat /\ Len(q) \in Nat /\ Len(rest) \in Nat /\ Len(q) = Len(rest) + d
  BY <1>1, <1>3
<1>3b. \A i \in 1..Len(rest) : i + d \in 1..Len(q) /\ rest[i] = q[i + d]
  <2> TAKE i \in 1..Len(rest)
  <2>1. i + d \in 1..Len(q)
    BY <1>3a
  <2>2. rest[i] = q[i + d]
    BY <1>3
  <2> QED
    BY <2>1, <2>2
<1>4. /\ new \in Seq(Nat) /\ Len(new) = Len(rest) + 1
      /\ \A i \in 1..Len(rest) : new[i] = rest[i]
      /\ new[Len(rest) + 1] = n + 1
  BY <1>3
<1> HIDE DEF new
<1>5. Len(new) <= QueueSize
  <2>1. Len(q) <= QueueSize /\ (d = 1 <=> Len(q) = QueueSize)
    BY <1>1, <1>3
  <2>2. Len(new) = Len(rest) + 1
    BY <1>4
  <2> QED
    BY <1>3a, <2>1, <2>2
<1>6. \A i \in 1..Len(q) : q[i] \in m /\ q[i] \in 1..n
  BY <1>1 DEF Members
<1>7. \A i \in 1..Len(rest) : rest[i] \in m /\ rest[i] \in 1..n
  BY <1>6, <1>3b
<1>8. \A i \in 1..Len(new) :
        IF i <= Len(rest) THEN new[i] = rest[i] ELSE new[i] = n + 1 /\ i = Len(rest) + 1
  <2> TAKE i \in 1..Len(new)
  <2>1. i \in 1..Len(rest) \/ (~(i <= Len(rest)) /\ i = Len(rest) + 1)
    <3>1. Len(new) = Len(rest) + 1
      BY <1>4
    <3> QED
      BY <1>3a, <3>1
  <2>2. i \in 1..Len(rest) => i <= Len(rest)
    OBVIOUS
  <2> QED
    BY <1>4, <2>1, <2>2
<1>8a. /\ \A k \in 1..Len(new) : k <= Len(rest) => k \in 1..Len(rest)
      /\ Len(new) \in Nat
  BY <1>4, <1>3a
<1>9. Members(new) \subseteq all
  <2> SUFFICES ASSUME NEW k \in 1..Len(new) PROVE new[k] \in all
    BY DEF Members
  <2> QED
    BY <1>7, <1>8, <1>8a
<1>10. all \in SUBSET (1..(n + 1)) /\ Members(g) \subseteq 1..(n + 1)
  BY <1>1
<1>11. Increasing(g \o new)
  <2>1. \A i \in 1..Len(g) : g[i] \in 1..n
    BY <1>1 DEF Members
  <2>2. /\ \A i, k \in 1..Len(g) : i < k => g[i] < g[k]
        /\ \A i \in 1..Len(g), k \in 1..Len(q) : g[i] < q[k]
        /\ \A i, k \in 1..Len(q) : i < k => q[i] < q[k]
    <3>1. /\ Len(g \o q) = Len(g) + Len(q)
          /\ \A i \in 1..Len(g) : (g \o q)[i] = g[i]
          /\ \A i \in 1..Len(q) : (g \o q)[Len(g) + i] = q[i]
      BY <1>1, MembersOfConcat
    <3>2. Len(g) \in Nat /\ Len(q) \in Nat
      BY <1>1
    <3>3. /\ \A i \in 1..Len(g) : i \in 1..Len(g \o q)
          /\ \A i \in 1..Len(q) : Len(g) + i \in 1..Len(g \o q)
      BY <3>1, <3>2
    <3>4. \A i, k \in 1..Len(g) : i < k => g[i] < g[k]
      BY <1>1, <3>1, <3>3 DEF Increasing
    <3>5. ASSUME NEW i \in 1..Len(g), NEW k \in 1..Len(q) PROVE g[i] < q[k]
      <4>1. i < Len(g) + k
        BY <3>2
      <4> QED
        BY <1>1, <3>1, <3>3, <4>1 DEF Increasing
    <3>6. ASSUME NEW i \in 1..Len(q), NEW k \in 1..Len(q), i < k PROVE q[i] < q[k]
      <4>1. Len(g) + i < Len(g) + k
        BY <3>2, <3>6
      <4> QED
        BY <1>1, <3>1, <3>3, <4>1 DEF Increasing
    <3> QED
      BY <3>4, <3>5, <3>6
  <2>3. /\ \A i \in 1..Len(g), k \in 1..Len(new) : g[i] < new[k]
        /\ \A i, k \in 1..Len(new) : i < k => new[i] < new[k]
    <3>1. \A i \in 1..Len(rest) : i + d \in 1..Len(q)
      BY <1>3b
    <3>2. ASSUME NEW i \in 1..Len(g), NEW k \in 1..Len(new) PROVE g[i] < new[k]
      <4>1. CASE k <= Len(rest)
        <5>1. k \in 1..Len(rest) /\ new[k] = q[k + d]
          BY <1>4, <1>8a, <1>3b, <4>1
        <5> QED
          BY <2>2, <3>1, <5>1
      <4>2. CASE ~(k <= Len(rest))
        BY <1>8, <2>1, <4>2
      <4> QED
        BY <4>1, <4>2
    <3>3. ASSUME NEW i \in 1..Len(new), NEW k \in 1..Len(new), i < k PROVE new[i] < new[k]
      <4>1. i \in 1..Len(rest)
        BY <1>4, <1>3a, <3>3
      <4>2. CASE k <= Len(rest)
        <5>1. k \in 1..Len(rest) /\ new[k] = q[k + d] /\ new[i] = q[i + d]
          BY <1>4, <1>8a, <1>3b, <4>1, <4>2
        <5>2. i + d < k + d
          BY <1>3, <3>3
        <5> QED
          BY <2>2, <3>1, <4>1, <5>1, <5>2
      <4>3. CASE ~(k <= Len(rest))
        BY <1>4, <1>7, <1>8, <4>1, <4>3
      <4> QED
        BY <4>2, <4>3
    <3> QED
      BY <3>2, <3>3
  <2>4. /\ Len(g \o new) = Len(g) + Len(new)
        /\ \A i \in 1..Len(g) : (g \o new)[i] = g[i]
        /\ \A i \in 1..Len(new) : (g \o new)[Len(g) + i] = new[i]
        /\ Len(g) \in Nat /\ Len(new) \in Nat
    BY <1>1, <1>4, <1>8a, <1>3a, MembersOfConcat
  <2>5. ASSUME NEW i \in 1..Len(g \o new), NEW k \in 1..Len(g \o new), i < k
        PROVE  (g \o new)[i] < (g \o new)[k]
    <3>1. CASE k <= Len(g)
      BY <2>2, <2>4, <2>5, <3>1
    <3>2. CASE i <= Len(g) /\ k > Len(g)
      <4>1. k - Len(g) \in 1..Len(new) /\ k = Len(g) + (k - Len(g)) /\ i \in 1..Len(g)
        BY <2>4, <3>2
      <4>2. (g \o new)[k] = new[k - Len(g)] /\ (g \o new)[i] = g[i]
        BY <2>4, <4>1
      <4> QED
        BY <2>3, <4>1, <4>2
    <3>3. CASE i > Len(g)
      <4>1. /\ k - Len(g) \in 1..Len(new) /\ k = Len(g) + (k - Len(g))
            /\ i - Len(g) \in 1..Len(new) /\ i = Len(g) + (i - Len(g))
            /\ i - Len(g) < k - Len(g)
        BY <2>4, <2>5, <3>3
      <4>2. (g \o new)[k] = new[k - Len(g)] /\ (g \o new)[i] = new[i - Len(g)]
        BY <2>4, <4>1
      <4> QED
        BY <2>3, <4>1, <4>2
    <3> QED
      BY <2>4, <2>5, <3>1, <3>2, <3>3
  <2> QED
    BY <2>5 DEF Increasing
<1>12. ASSUME NEW e \in all \ Members(g \o new)
       PROVE  Cardinality(Later(all, e)) >= QueueSize
  <2>1. e \in m /\ e \notin Members(g) /\ e \notin Members(new)
    <3>1. Members(g \o new) = Members(g) \cup Members(new)
      BY <1>1, <1>4, MembersOfConcat
    <3>2. n + 1 \in Members(new)
      <4>1. Len(rest) + 1 \in 1..Len(new)
        BY <1>3, <1>4
      <4> QED
        BY <1>4, <4>1 DEF Members
    <3> QED
      BY <1>12, <3>1, <3>2
  <2>2. CASE e \notin Members(g \o q)
    <3>1. Cardinality(Later(m, e)) >= QueueSize
      BY <1>1, <2>1, <2>2
    <3>2. m \in SUBSET (1..(n + 1)) /\ m \subseteq all
      BY <1>1
    <3> QED
      BY <1>10, <3>1, <3>2, MoreFollow
  <2>3. CASE e \in Members(g \o q)
    <3>1. PICK i \in 1..Len(q) : e = q[i]
      <4>1. e \in Members(q)
        BY <1>1, <2>1, <2>3, MembersOfConcat
      <4> QED
        BY <4>1 DEF Members
    <3>2. d = 1 /\ i = 1
      <4> SUFFICES ASSUME ~(d = 1 /\ i = 1) PROVE FALSE
        OBVIOUS
      <4>1. i - d \in 1..Len(rest) /\ i = (i - d) + d
        BY <1>3, <1>3a
      <4>2. rest[i - d] = e
        BY <1>3b, <3>1, <4>1
      <4>3. \A j \in 1..Len(rest) : j \in 1..Len(new) /\ new[j] = rest[j]
        BY <1>3a, <1>4
      <4>4. i - d \in 1..Len(new) /\ new[i - d] = e
        BY <4>1, <4>2, <4>3
      <4> QED
        BY <2>1, <4>4 DEF Members
    <3>3. Len(new) = QueueSize
      <4>1. Len(q) = QueueSize
        BY <1>3, <3>2
      <4>2. Len(new) = Len(rest) + 1
        BY <1>4
      <4> QED
        BY <1>3a, <3>2, <4>1, <4>2
    <3>4. \A k \in 1..Len(new) : new[k] > e
      <4> TAKE k \in 1..Len(new)
      <4>1. CASE k <= Len(rest)
        <5>1. k \in 1..Len(rest) /\ new[k] = q[k + 1] /\ k + 1 \in 1..Len(q) /\ 1 < k + 1
          BY <1>4, <1>8a, <1>3b, <3>2, <4>1
        <5>2. /\ Len(g) + 1 \in 1..Len(g \o q) /\ Len(g) + (k + 1) \in 1..Len(g \o q)
              /\ Len(g) + 1 < Len(g) + (k + 1)
          BY <1>1, <3>1, <3>2, <5>1, MembersOfConcat
        <5>3. (g \o q)[Len(g) + 1] < (g \o q)[Len(g) + (k + 1)]
          BY <1>1, <5>2 DEF Increasing
        <5>4. (g \o q)[Len(g) + 1] = q[1] /\ (g \o q)[Len(g) + (k + 1)] = q[k + 1]
          BY <1>1, <3>1, <3>2, <5>1, MembersOfConcat
        <5> QED
          BY <1>6, <3>1, <3>2, <5>1, <5>3, <5>4
      <4>2. CASE ~(k <= Len(rest))
        BY <1>6, <1>8, <3>1, <4>2
      <4> QED
        BY <4>1, <4>2
    <3>5. Members(new) \subseteq Later(all, e)
      BY <1>9, <3>4 DEF Members, Later
    <3>6. IsFiniteSet(Later(all, e))
      <4>1. IsFiniteSet(1..(n + 1))
        BY FS_Interval, 1 \in Int, n + 1 \in Int
      <4>2. Later(all, e) \subseteq 1..(n + 1)
        BY <1>10 DEF Later
      <4> QED
        BY <4>1, <4>2, FS_Subset
    <3>7. Increasing(new)
      <4> SUFFICES ASSUME NEW a \in 1..Len(new), NEW b \in 1..Len(new), a < b
                   PROVE  new[a] < new[b]
        BY DEF Increasing
      <4>0. /\ \A j \in 1..Len(new) : (g \o new)[Len(g) + j] = new[j]
            /\ Len(g \o new) = Len(g) + Len(new)
        BY <1>1, <1>4, MembersOfConcat
      <4>1. /\ Len(g) \in Nat /\ Len(new) \in Nat
            /\ (g \o new)[Len(g) + a] = new[a] /\ (g \o new)[Len(g) + b] = new[b]
            /\ Len(g \o new) = Len(g) + Len(new)
        BY <1>8a, <1>3a, <4>0
      <4>2. /\ Len(g) + a \in 1..Len(g \o new) /\ Len(g) + b \in 1..Len(g \o new)
            /\ Len(g) + a < Len(g) + b
        BY <4>1
      <4> QED
        BY <1>11, <4>1, <4>2 DEF Increasing
    <3> QED
      BY <1>4, <3>3, <3>5, <3>6, <3>7, QueueIsEnough
  <2> QED
    BY <2>2, <2>3
<1> HIDE DEF all
<1>13. Followed(g, new, all, n + 1)
  BY <1>1, <1>4, <1>5, <1>9, <1>10, <1>11, <1>12 DEF Followed
<1> QED
  BY <1>2, <1>13 DEF all

LEMMA NothingYet ==
    ASSUME QueueSize \in Nat, NEW n \in Nat, NEW g \in Seq(1..n), Len(g) <= 1
    PROVE  Followed(g, <<>>, {}, n)
<1>1. g \in Seq(Nat) /\ <<>> \in Seq(Nat) /\ Len(<<>>) = 0 /\ Len(g) \in Nat
  OBVIOUS
<1>2. Members(<<>>) = {} /\ Members(g) \subseteq 1..n
  BY DEF Members
<1>3. g \o <<>> = g
  BY <1>1
<1>4. Increasing(g)
  BY <1>1 DEF Increasing
<1> QED
  BY <1>1, <1>2, <1>3, <1>4 DEF Followed

\* A number that was given to somebody else.
LEMMA OthersFollow ==
    ASSUME NEW n \in Nat, NEW g, NEW q, NEW m, Followed(g, q, m, n)
    PROVE  Followed(g, q, m, n + 1)
<1>1. 1..n \subseteq 1..(n + 1)
  OBVIOUS
<1> QED
  BY <1>1 DEF Followed

LEMMA DeliverStep ==
    ASSUME NEW n \in Nat, NEW g, NEW q, NEW m, Followed(g, q, m, n), q # <<>>, QueueSize \in Nat
    PROVE  Followed(Append(g, Head(q)), Tail(q), m, n)
<1>1. g \in Seq(Nat) /\ q \in Seq(Nat)
  BY DEF Followed
<1>2. /\ Append(g, Head(q)) \in Seq(Nat) /\ Tail(q) \in Seq(Nat)
      /\ Len(Tail(q)) = Len(q) - 1 /\ Len(q) \in Nat /\ Len(q) >= 1 /\ Head(q) = q[1]
      /\ \A i \in 1..Len(Tail(q)) : Tail(q)[i] = q[i + 1]
  BY <1>1
<1>3. /\ Len(Append(g, Head(q))) = Len(g) + 1 /\ Len(g) \in Nat
      /\ \A i \in 1..Len(g) : Append(g, Head(q))[i] = g[i]
      /\ Append(g, Head(q))[Len(g) + 1] = Head(q)
  BY <1>1, <1>2
<1>4. Append(g, Head(q)) \o Tail(q) = g \o q
  BY <1>1, <1>2
<1>5. \A i \in 1..Len(q) : q[i] \in m
  BY DEF Followed, Members
<1>6. Members(Tail(q)) \subseteq m
  <2>1. \A i \in 1..Len(Tail(q)) : i + 1 \in 1..Len(q)
    BY <1>2
  <2> QED
    BY <1>2, <1>5, <2>1 DEF Members
<1>7. Members(Append(g, Head(q))) \subseteq 1..n
  <2>1. Head(q) \in 1..n
    BY <1>2, <1>5 DEF Followed
  <2>2. \A i \in 1..(Len(g) + 1) : i \in 1..Len(g) \/ i = Len(g) + 1
    BY <1>3
  <2>3. \A i \in 1..Len(g) : g[i] \in 1..n
    BY DEF Followed, Members
  <2> QED
    BY <1>3, <2>1, <2>2, <2>3 DEF Members
<1>8. Len(Tail(q)) <= QueueSize
  BY <1>2 DEF Followed
<1> QED
  BY <1>2, <1>4, <1>6, <1>7, <1>8 DEF Followed

LEMMA StreamInit == ASSUME QueueSize \in Nat, EventsInit PROVE StreamInv
<1>1. <<>> \in Seq(1..0) /\ <<>> \in Seq(Nat) /\ Len(<<>>) <= 1
  OBVIOUS
<1>2. Followed(<<>>, <<>>, {}, 0)
  BY <1>1, NothingYet
<1> QED
  BY <1>1, <1>2 DEF EventsInit, StreamInv

LEMMA PublishInv == ASSUME QueueSize \in Nat \ {0}, StreamInv, PublishEvent PROVE StreamInv'
<1>1. /\ ids' = ids + 1 /\ ids' \in Nat /\ subscribers' = subscribers /\ got' = got
  BY DEF PublishEvent, StreamInv
<1>2. \A l \in Listeners :
         /\ queue'[l] = IF l \in subscribers THEN Enqueued(queue[l], ids + 1) ELSE queue[l]
         /\ meant'[l] = IF l \in subscribers THEN meant[l] \cup {ids + 1} ELSE meant[l]
  BY DEF PublishEvent
<1>3. ASSUME NEW l \in Listeners PROVE Followed(got'[l], queue'[l], meant'[l], ids')
  <2>1. ids \in Nat /\ Followed(got[l], queue[l], meant[l], ids)
    BY DEF StreamInv
  <2>2. Followed(got[l], Enqueued(queue[l], ids + 1), meant[l] \cup {ids + 1}, ids + 1)
    BY <2>1, EnqueuedStep
  <2>3. Followed(got[l], queue[l], meant[l], ids + 1)
    BY <2>1, OthersFollow
  <2> QED
    BY <1>1, <1>2, <2>2, <2>3
<1>4. \A l \in Listeners : queue'[l] \in Seq(Nat) /\ meant'[l] \in SUBSET Nat
  BY <1>3 DEF Followed
<1>5. queue' \in [Listeners -> Seq(Nat)] /\ meant' \in [Listeners -> SUBSET Nat]
  BY <1>4 DEF PublishEvent
<1> QED
  BY <1>1, <1>2, <1>3, <1>5 DEF StreamInv

LEMMA ListenerInv ==
    ASSUME QueueSize \in Nat \ {0}, StreamInv, NEW l \in Listeners,
           Connect(l) \/ Deliver(l) \/ Disconnect(l)
    PROVE  StreamInv'
<1>1. CASE Connect(l)
  <2>1. /\ ids' = ids + 1 /\ ids' \in Nat /\ queue' = queue /\ meant' = meant
        /\ subscribers' = subscribers \cup {l} /\ got' = [got EXCEPT ![l] = <<ids'>>]
        /\ queue[l] = <<>> /\ meant[l] = {}
    BY <1>1 DEF Connect, StreamInv
  <2>2. ASSUME NEW n \in Nat \ {0} PROVE <<n>> \in Seq(Nat) /\ Followed(<<n>>, <<>>, {}, n)
    <3>1. <<n>> \in Seq(1..n) /\ Len(<<n>>) = 1 /\ <<n>> \in Seq(Nat)
      OBVIOUS
    <3> QED
      BY <3>1, NothingYet, Len(<<n>>) <= 1, QueueSize \in Nat, n \in Nat
  <2>3. <<ids + 1>> \in Seq(Nat) /\ Followed(<<ids + 1>>, <<>>, {}, ids + 1)
    BY <2>2 DEF StreamInv
  <2>4. \A k \in Listeners : Followed(got'[k], queue'[k], meant'[k], ids')
    BY <2>1, <2>3, OthersFollow DEF StreamInv
  <2> QED
    BY <2>1, <2>3, <2>4 DEF StreamInv
<1>2. CASE Deliver(l)
  <2>1. /\ ids' = ids /\ meant' = meant /\ subscribers' = subscribers /\ l \in subscribers
        /\ queue[l] # <<>>
        /\ got' = [got EXCEPT ![l] = Append(got[l], Head(queue[l]))]
        /\ queue' = [queue EXCEPT ![l] = Tail(queue[l])]
    BY <1>2 DEF Deliver
  <2>2. Followed(Append(got[l], Head(queue[l])), Tail(queue[l]), meant[l], ids)
    BY <2>1, DeliverStep DEF StreamInv
  <2>3. \A k \in Listeners : Followed(got'[k], queue'[k], meant'[k], ids')
    BY <2>1, <2>2 DEF StreamInv
  <2>4. got' \in [Listeners -> Seq(Nat)] /\ queue' \in [Listeners -> Seq(Nat)]
    BY <2>1, <2>2 DEF StreamInv, Followed
  <2> QED
    BY <2>1, <2>3, <2>4 DEF StreamInv
<1>3. CASE Disconnect(l)
  <2>1. <<>> \in Seq(1..ids) /\ <<>> \in Seq(Nat) /\ Len(<<>>) <= 1
    OBVIOUS
  <2>2. Followed(<<>>, <<>>, {}, ids)
    BY <2>1, NothingYet DEF StreamInv
  <2> QED
    BY <1>3, <2>1, <2>2 DEF StreamInv, Disconnect
<1> QED
  BY <1>1, <1>2, <1>3

\* In order, and whatever a slow browser never sees was followed by a whole queue
\* of newer events, for every size of the queue above zero (the server's is 128).
THEOREM NewestAlwaysArrive ==
    ASSUME QueueSize \in Nat \ {0}
    PROVE  EventsSpec => []NewestEventsArrive
<1>1. EventsInit => StreamInv
  BY StreamInit
<1>2. StreamInv /\ [EventsNext]_eventVars => StreamInv'
  <2> SUFFICES ASSUME StreamInv, [EventsNext]_eventVars PROVE StreamInv'
    OBVIOUS
  <2>1. CASE UNCHANGED eventVars
    BY <2>1 DEF eventVars, StreamInv
  <2>2. CASE PublishEvent
    BY <2>2, PublishInv
  <2>3. ASSUME NEW l \in Listeners, Connect(l) \/ Deliver(l) \/ Disconnect(l) PROVE StreamInv'
    BY <2>3, ListenerInv
  <2> QED
    BY <2>1, <2>2, <2>3 DEF EventsNext
<1>3. StreamInv => NewestEventsArrive
  <2> SUFFICES ASSUME StreamInv, NEW l \in subscribers
               PROVE  LET stream == got[l] \o queue[l]
                          lost == meant[l] \ {stream[i] : i \in 1..Len(stream)}
                      IN /\ \A i, k \in 1..Len(stream) : i < k => stream[i] < stream[k]
                         /\ \A e \in lost : Cardinality({f \in meant[l] : f > e}) >= QueueSize
    BY DEF NewestEventsArrive
  <2>1. Followed(got[l], queue[l], meant[l], ids)
    BY DEF StreamInv
  <2> QED
    BY <2>1 DEF Followed, Increasing, Members, Later
<1> QED
  BY <1>1, <1>2, <1>3, PTL DEF EventsSpec
====
