---- MODULE JobStore ----
(***************************************************************************)
(* The local job executor: JobStore (job_store.py), the process runner it   *)
(* drives (strategy_process.py) and the jobs table it writes                *)
(* (state_repository.py).                                                   *)
(*                                                                          *)
(* The server is one asyncio loop: a handler runs without interleaving      *)
(* until it awaits.  Inside a handler the persistent writes happen one by   *)
(* one, and an I/O error or a crash of the server may fall between any two  *)
(* of them: `loop' says which handler is between two writes, and no other   *)
(* handler runs until it is back to Idle.  Strategy processes are separate  *)
(* OS processes in their own session and advance at any time, also after    *)
(* the server died.                                                         *)
(***************************************************************************)
EXTENDS JobLifecycle, Integers, Sequences, FiniteSets

CONSTANTS
    Jobs,         \* job ids; each is a fresh uuid in the code
    NoJob,
    MaxCrashes,   \* bound on server crashes
    MaxFaults     \* bound on I/O errors raised inside a handler

ASSUME JobsAssumption == NoJob \notin Jobs

VARIABLES
    \* persistent state
    row,         \* status in the jobs table, "none" when there is no row
    mirror,      \* status in runs/web/<id>/job.json, "none" when there is no file
    manifest,    \* status in runs/web/<id>/manifest.json
    frozen,      \* market-data.csv: "absent", "copied" and bound to the job, or
                 \* also "hashed" in the manifest
    inventory,   \* the manifest lists the hashes of every audit artifact
    retryOf,     \* retry_of in the payload
    \* operating-system processes
    proc,        \* the strategy process of the job
    out,         \* what the process left behind when it ended
    \* the server's memory
    phase,       \* "down", "boot" (inside __init__) or "serving"
    task,        \* where the coroutine _run_job of the job is suspended
    tasks,       \* JobStore._tasks: jobs started by launch, which cancel() can reach
    lock,        \* holder of JobStore._execution_lock
    waiters,     \* coroutines queued on the lock, first come first served
    active,      \* StrategyProcessRunner._active
    published,   \* status of the last job.updated event of this server
    loop,        \* the handler that is between two persistent writes
    \* bounds and observations
    crashes, faults,
    faulted      \* jobs hit by an I/O error inside a handler

persistent == <<row, mirror, manifest, frozen, inventory, retryOf>>
processes  == <<proc, out>>
execution  == <<task, tasks, lock, waiters, active>>
bounds     == <<crashes, faults, faulted>>
vars == <<persistent, processes, execution, bounds, phase, published, loop>>

Statuses == JobStatus \cup {"none"}
Executing == {"starting", "spawning", "communicating", "reaping", "finishing"}
Outcomes == {"error", "partial", "complete"}
Kinds == {"create", "retry", "start", "cancel", "cancelling", "finish",
          "reconcile", "rollback"}
Stages == {"evidence", "commit", "mirror", "manifest", "rmtree"}

Idle == [kind |-> "idle", job |-> NoJob, at |-> "idle", target |-> "none"]
Handler(k, j, stage) == [kind |-> k, job |-> j, at |-> stage, target |-> "none"]

TypeOK ==
    /\ row \in [Jobs -> Statuses]
    /\ mirror \in [Jobs -> Statuses]
    /\ manifest \in [Jobs -> Statuses]
    /\ frozen \in [Jobs -> {"absent", "copied", "hashed"}]
    /\ inventory \in [Jobs -> BOOLEAN]
    /\ retryOf \in [Jobs -> Jobs \cup {NoJob}]
    /\ proc \in [Jobs -> {"none", "running", "exited", "killed", "orphan"}]
    /\ out \in [Jobs -> Outcomes \cup {"none"}]
    /\ phase \in {"down", "boot", "serving"}
    /\ task \in [Jobs -> {"none", "waiting", "done"} \cup Executing]
    /\ tasks \in SUBSET Jobs
    /\ lock \in Jobs \cup {NoJob}
    /\ waiters \in Seq(Jobs)
    /\ active \in SUBSET Jobs
    /\ published \in [Jobs -> Statuses]
    /\ loop \in {Idle} \cup [kind : Kinds, job : Jobs, at : Stages, target : Statuses]
    /\ crashes \in Nat
    /\ faults \in Nat
    /\ faulted \in SUBSET Jobs

Init ==
    /\ row = [j \in Jobs |-> "none"]
    /\ mirror = [j \in Jobs |-> "none"]
    /\ manifest = [j \in Jobs |-> "none"]
    /\ frozen = [j \in Jobs |-> "absent"]
    /\ inventory = [j \in Jobs |-> FALSE]
    /\ retryOf = [j \in Jobs |-> NoJob]
    /\ proc = [j \in Jobs |-> "none"]
    /\ out = [j \in Jobs |-> "none"]
    /\ phase = "serving"
    /\ task = [j \in Jobs |-> "none"]
    /\ tasks = {}
    /\ lock = NoJob
    /\ waiters = <<>>
    /\ active = {}
    /\ published = [j \in Jobs |-> "none"]
    /\ loop = Idle
    /\ crashes = 0
    /\ faults = 0
    /\ faulted = {}

\* The loop is free to run the next callback.
Ready == phase = "serving" /\ loop = Idle

\* Mutant: the write transaction does not validate the current status.
TransitionUnchecked(j, target) ==
    row' = [row EXCEPT ![j] = target]

\* repository.transition: one validated write transaction on the jobs table.
Transition(j, target) ==
    /\ ValidTransition(row[j], target)
    /\ row' = [row EXCEPT ![j] = target]

\* asyncio.Lock.release and the end of the coroutine.
EndTask(j) ==
    /\ task' = [task EXCEPT ![j] = "done"]
    /\ tasks' = tasks \ {j}
    /\ lock' = IF lock = j THEN NoJob ELSE lock

\* Mutants: the kill misses; the outcome of a killed process has no class.
KillNothing(j) == UNCHANGED processes
\* terminate_process_tree: SIGKILL to the process group; a dead one is ignored.
Kill(j) ==
    IF proc[j] = "running"
    THEN /\ proc' = [proc EXCEPT ![j] = "killed"]
         /\ out' = [out EXCEPT ![j] = "error"]
    ELSE UNCHANGED processes

\* Mutant: communicate() does not wait.
HasStarted(j) == proc[j] # "none"

\* _communicate: the streams are at their end and the process was waited for.
HasEnded(j) == proc[j] \in {"exited", "killed"}

\* Mutant: a cancellation request is announced as done.
PublishCancelled(j) ==
    published' = [published EXCEPT ![j] = IF row[j] = "cancelling" THEN "cancelled" ELSE row[j]]

\* _publish_job: every subscriber learns the status the row has now.
Publish(j) == published' = [published EXCEPT ![j] = row[j]]

\* An I/O error raised by a file write after the row was committed, or by the
\* unguarded steps of _execute_job (build_command, the summary binding, the
\* artifact inventory).
Fault(j) ==
    /\ loop # Idle /\ j = loop.job /\ loop.kind # "rollback"
    /\ faults < MaxFaults
    /\ faults' = faults + 1
    /\ faulted' = faulted \cup {j}
    /\ UNCHANGED crashes

----------------------------------------------------------------------------
(* HTTP handlers *)

\* create_job up to the commit of the row.  The strategy snapshot, request.json
\* and manifest.json were written before it in a directory nothing else reads yet.
CreateJob(j) ==
    /\ Ready
    /\ row[j] = "none" /\ mirror[j] = "none"
    /\ row' = [row EXCEPT ![j] = "queued"]
    /\ manifest' = [manifest EXCEPT ![j] = "queued"]
    /\ retryOf' = [retryOf EXCEPT ![j] = NoJob]
    /\ loop' = Handler("create", j, "mirror")
    /\ UNCHANGED <<mirror, frozen, inventory, processes, execution,
                   bounds, phase, published>>

Retryable == {i \in Jobs : row[i] \in {"failed", "cancelled"}}

\* retry: a new job from the frozen inputs of one that failed or was cancelled.
Retry(i, j) ==
    /\ Ready
    /\ i \in Retryable
    /\ row[j] = "none" /\ mirror[j] = "none"
    /\ row' = [row EXCEPT ![j] = "queued"]
    /\ manifest' = [manifest EXCEPT ![j] = "queued"]
    /\ retryOf' = [retryOf EXCEPT ![j] = i]
    /\ loop' = Handler("retry", j, "mirror")
    /\ UNCHANGED <<mirror, frozen, inventory, processes, execution,
                   bounds, phase, published>>

RemoveFirst(s, j) ==
    IF \E n \in 1 .. Len(s) : s[n] = j
    THEN LET n == CHOOSE m \in 1 .. Len(s) : s[m] = j
         IN  [m \in 1 .. Len(s) - 1 |-> IF m < n THEN s[m] ELSE s[m + 1]]
    ELSE s

\* cancel of a queued job: the launched coroutine is cancelled where it waits for
\* the lock; one awaited by an experiment is not in _tasks and keeps waiting.
CancelQueued(j) ==
    /\ Ready
    /\ row[j] = "queued"
    /\ Transition(j, "cancelled")
    /\ IF j \in tasks
       THEN /\ task' = [task EXCEPT ![j] = "done"]
            /\ tasks' = tasks \ {j}
            /\ waiters' = RemoveFirst(waiters, j)
       ELSE UNCHANGED <<task, tasks, waiters>>
    /\ loop' = Handler("cancel", j, "mirror")
    /\ UNCHANGED <<mirror, manifest, frozen, inventory, retryOf, processes,
                   lock, active, bounds, phase, published>>

\* cancel of a running job: the row first, the process once the files are written.
CancelRunning(j) ==
    /\ Ready
    /\ row[j] = "running"
    /\ Transition(j, "cancelling")
    /\ loop' = Handler("cancelling", j, "mirror")
    /\ UNCHANGED <<mirror, manifest, frozen, inventory, retryOf, processes,
                   execution, bounds, phase, published>>

----------------------------------------------------------------------------
(* The coroutine _run_job *)

\* The first waiter gets the lock and moves its row to running.  A row that was
\* cancelled meanwhile raises InvalidJobTransition, which releases the lock.
AcquireLock(j) ==
    /\ Ready
    /\ lock = NoJob
    /\ waiters # <<>>
    /\ j = Head(waiters)
    /\ waiters' = Tail(waiters)
    /\ \/ /\ Transition(j, "running")
          /\ lock' = j
          /\ task' = [task EXCEPT ![j] = "starting"]
          /\ loop' = Handler("start", j, "mirror")
          /\ UNCHANGED tasks
       \/ /\ ~ValidTransition(row[j], "running")
          /\ EndTask(j)
          /\ UNCHANGED <<row, loop>>
    /\ UNCHANGED <<mirror, manifest, frozen, inventory, retryOf, processes,
                   active, bounds, phase, published>>

\* create_subprocess_exec returns: the process enters _active only now.
SpawnReturns(j) ==
    /\ Ready
    /\ task[j] = "spawning"
    /\ proc[j] # "none"
    /\ active' = active \cup {j}
    /\ task' = [task EXCEPT ![j] = "communicating"]
    /\ UNCHANGED <<persistent, processes, tasks, lock, waiters, bounds, phase,
                   published, loop>>

\* create_subprocess_exec raises: the job fails, whatever cancel did meanwhile.
SpawnFails(j) ==
    /\ Ready
    /\ task[j] = "spawning"
    /\ proc[j] = "none"
    /\ Transition(j, "failed")
    /\ task' = [task EXCEPT ![j] = "finishing"]
    /\ loop' = Handler("finish", j, "mirror")
    /\ UNCHANGED <<mirror, manifest, frozen, inventory, retryOf, processes,
                   tasks, lock, waiters, active, bounds, phase, published>>

\* wait_for times out, or the output limit is hit: kill the process group and
\* await the end of the process.  Both may race with the process's own exit.
Terminate(j) ==
    /\ Ready
    /\ task[j] = "communicating"
    /\ Kill(j)
    /\ task' = [task EXCEPT ![j] = "reaping"]
    /\ UNCHANGED <<persistent, tasks, lock, waiters, active, bounds, phase,
                   published, loop>>

\* The killed process is reaped and run() raises: the job fails.
Reaped(j) ==
    /\ Ready
    /\ task[j] = "reaping"
    /\ HasEnded(j)
    /\ Transition(j, "failed")
    /\ active' = active \ {j}
    /\ task' = [task EXCEPT ![j] = "finishing"]
    /\ loop' = Handler("finish", j, "mirror")
    /\ UNCHANGED <<mirror, manifest, frozen, inventory, retryOf, processes,
                   tasks, lock, waiters, bounds, phase, published>>

\* run() returns an outcome.  A job that is cancelling is cancelled whatever the
\* outcome was; otherwise the evidence is examined first.
RunReturns(j) ==
    /\ Ready
    /\ task[j] = "communicating"
    /\ HasEnded(j)
    /\ active' = active \ {j}
    /\ task' = [task EXCEPT ![j] = "finishing"]
    /\ IF row[j] = "cancelling"
       THEN /\ Transition(j, "cancelled")
            /\ loop' = Handler("finish", j, "mirror")
       ELSE /\ loop' = Handler("finish", j, "evidence")
            /\ UNCHANGED row
    /\ UNCHANGED <<mirror, manifest, frozen, inventory, retryOf, processes,
                   tasks, lock, waiters, bounds, phase, published>>

\* Mutant: missing audit artifacts are not looked for.
CompleteWithoutArtifacts(j, prices) == prices # "absent" /\ out[j] # "error"

\* A zero exit code, frozen prices, a summary and every required artifact.
Complete(j, prices) == prices # "absent" /\ out[j] = "complete"

\* cache.record and _snapshot_market_data freeze the prices when the cache entry
\* is readable.  The payload names the copy before the manifest gets its hash, and
\* an I/O error between the two is caught and no longer looked at.  A non-zero
\* exit, no frozen prices or missing artifacts fail the job; otherwise the hashes
\* of the artifacts go into the manifest before the row moves.
CollectEvidence(j) ==
    /\ loop = Handler("finish", j, "evidence")
    /\ \E prices \in {"absent", "copied", "hashed"} :
          LET complete == Complete(j, prices)
          IN  /\ frozen' = [frozen EXCEPT ![j] = prices]
              /\ inventory' = [inventory EXCEPT ![j] = complete]
              /\ loop' = [loop EXCEPT !.at = "commit",
                             !.target = IF complete THEN "succeeded" ELSE "failed"]
              /\ IF prices = "copied" THEN Fault(j) ELSE UNCHANGED bounds
    /\ UNCHANGED <<row, mirror, manifest, retryOf, processes, execution, phase,
                   published>>

CommitVerdict(j) ==
    /\ loop.at = "commit" /\ j = loop.job
    /\ Transition(j, loop.target)
    /\ loop' = Handler("finish", j, "mirror")
    /\ UNCHANGED <<mirror, manifest, frozen, inventory, retryOf, processes,
                   execution, bounds, phase, published>>

----------------------------------------------------------------------------
(* The tail of every status write: job.json, manifest.json, the event, and    *)
(* what the handler does after _write_job or _transition_job returned.        *)

WriteMirror(j) ==
    /\ loop.at = "mirror" /\ j = loop.job
    /\ mirror' = [mirror EXCEPT ![j] = row[j]]
    /\ loop' = [loop EXCEPT !.at = "manifest"]
    /\ UNCHANGED <<row, manifest, frozen, inventory, retryOf, processes,
                   execution, bounds, phase, published>>

\* launch registers the task; run_job of an experiment awaits it unregistered.
Launch(j, registered) ==
    /\ task' = [task EXCEPT ![j] = "waiting"]
    /\ tasks' = IF registered THEN tasks \cup {j} ELSE tasks
    /\ waiters' = Append(waiters, j)
    /\ UNCHANGED <<lock, active, processes>>

\* build_command, then create_subprocess_exec forks (or cannot) and is awaited.
Spawn(j) ==
    /\ task' = [task EXCEPT ![j] = "spawning"]
    /\ proc' \in {proc, [proc EXCEPT ![j] = "running"]}
    /\ UNCHANGED <<out, tasks, lock, waiters, active>>

\* process_runner.cancel: kills only a process it knows.
KillActive(j) ==
    /\ IF j \in active THEN Kill(j) ELSE UNCHANGED processes
    /\ UNCHANGED execution

Continue(k, j) ==
    \/ k = "create" /\ \E registered \in BOOLEAN : Launch(j, registered)
    \/ k = "retry" /\ Launch(j, TRUE)
    \/ k = "start" /\ Spawn(j)
    \/ k = "cancelling" /\ KillActive(j)
    \/ k = "finish" /\ EndTask(j) /\ UNCHANGED <<waiters, active, processes>>
    \/ k \in {"cancel", "reconcile"} /\ UNCHANGED <<execution, processes>>

WriteManifest(j) ==
    /\ loop.at = "manifest" /\ j = loop.job
    /\ manifest' = [manifest EXCEPT ![j] = row[j]]
    /\ Publish(j)
    /\ Continue(loop.kind, j)
    /\ loop' = Idle
    /\ UNCHANGED <<row, mirror, frozen, inventory, retryOf, bounds, phase>>

----------------------------------------------------------------------------
(* What an I/O error (Fault, above) does to each handler *)

\* create_job catches, deletes the row, removes the directory and re-raises.
CreateFails(j) ==
    /\ Fault(j)
    /\ loop.kind \in {"create", "retry"}
    /\ row' = [row EXCEPT ![j] = "none"]
    /\ loop' = Handler("rollback", j, "rmtree")
    /\ UNCHANGED <<mirror, manifest, frozen, inventory, retryOf, processes,
                   execution, phase, published>>

RemoveTree(j) ==
    /\ loop.at = "rmtree" /\ j = loop.job
    /\ mirror' = [mirror EXCEPT ![j] = "none"]
    /\ manifest' = [manifest EXCEPT ![j] = "none"]
    /\ retryOf' = [retryOf EXCEPT ![j] = NoJob]
    /\ faulted' = faulted \ {j}
    /\ loop' = Idle
    /\ UNCHANGED <<row, frozen, inventory, processes, execution, crashes, faults,
                   phase, published>>

\* The coroutine dies with the exception and releases the lock; the row stays.
RunRaises(j) ==
    /\ Fault(j)
    /\ loop.kind \in {"start", "finish"}
    /\ EndTask(j)
    /\ loop' = Idle
    /\ UNCHANGED <<persistent, processes, waiters, active, phase, published>>

\* The request answers 500; a running process that was to be killed is not.
CancelRaises(j) ==
    /\ Fault(j)
    /\ loop.kind \in {"cancel", "cancelling"}
    /\ loop' = Idle
    /\ UNCHANGED <<persistent, processes, execution, phase, published>>

----------------------------------------------------------------------------
(* Crash and restart *)

\* The server dies at any point.  Strategy processes run in their own session
\* and survive it.
Crash ==
    /\ phase # "down"
    /\ crashes < MaxCrashes
    /\ crashes' = crashes + 1
    /\ phase' = "down"
    /\ loop' = Idle
    /\ task' = [j \in Jobs |-> "none"]
    /\ tasks' = {}
    /\ lock' = NoJob
    /\ waiters' = <<>>
    /\ active' = {}
    /\ published' = [j \in Jobs |-> "none"]
    /\ proc' = [j \in Jobs |-> IF proc[j] = "running" THEN "orphan" ELSE proc[j]]
    /\ UNCHANGED <<persistent, out, faults, faulted>>

\* import_legacy_jobs: a job.json without a row becomes a row again.
Restart ==
    /\ phase = "down"
    /\ row' = [j \in Jobs |-> IF row[j] = "none" THEN mirror[j] ELSE row[j]]
    /\ phase' = "boot"
    /\ UNCHANGED <<mirror, manifest, frozen, inventory, retryOf, processes,
                   execution, bounds, published, loop>>

\* Mutant: only running jobs count as interrupted.
InterruptedRunning == {j \in Jobs : row[j] = "running"}

Interrupted == {j \in Jobs : row[j] \in {"queued", "running"}}

\* _reconcile_interrupted_jobs, one job at a time.
Reconcile(j) ==
    /\ phase = "boot" /\ loop = Idle
    /\ j \in Interrupted
    /\ Transition(j, "failed")
    /\ loop' = Handler("reconcile", j, "mirror")
    /\ UNCHANGED <<mirror, manifest, frozen, inventory, retryOf, processes,
                   execution, bounds, phase, published>>

\* An error while reconciling: the server does not start.
BootRaises(j) ==
    /\ Fault(j)
    /\ loop.kind = "reconcile"
    /\ phase' = "down"
    /\ loop' = Idle
    /\ published' = [i \in Jobs |-> "none"]
    /\ UNCHANGED <<persistent, processes, execution>>

Serve ==
    /\ phase = "boot" /\ loop = Idle
    /\ Interrupted = {}
    /\ phase' = "serving"
    /\ UNCHANGED <<persistent, processes, execution, bounds, published, loop>>

----------------------------------------------------------------------------
(* The strategy process *)

\* The process ends by itself: with an error, with some artifacts missing, or
\* with a zero exit code and all of them.
ProcessExits(j) ==
    /\ proc[j] \in {"running", "orphan"}
    /\ \E o \in Outcomes :
          /\ proc' = [proc EXCEPT ![j] = "exited"]
          /\ out' = [out EXCEPT ![j] = o]
    /\ UNCHANGED <<persistent, execution, bounds, phase, published, loop>>

----------------------------------------------------------------------------
HandlerStep(j) ==
    \/ CollectEvidence(j) \/ CommitVerdict(j)
    \/ WriteMirror(j) \/ WriteManifest(j) \/ RemoveTree(j)

Resume(j) ==
    \/ AcquireLock(j) \/ SpawnReturns(j) \/ SpawnFails(j)
    \/ Terminate(j) \/ Reaped(j) \/ RunReturns(j)

Request(j) ==
    \/ CreateJob(j) \/ CancelQueued(j) \/ CancelRunning(j)
    \/ \E i \in Jobs : Retry(i, j)

Failure(j) ==
    \/ CreateFails(j) \/ RunRaises(j) \/ CancelRaises(j) \/ BootRaises(j)

Next ==
    \/ \E j \in Jobs :
          \/ HandlerStep(j) \/ Resume(j) \/ Request(j) \/ Failure(j)
          \/ Reconcile(j) \/ ProcessExits(j)
    \/ Crash \/ Restart \/ Serve

Spec == Init /\ [][Next]_vars

\* The loop always finishes the handler it is in and resumes a coroutine that can
\* go on (asyncio runs ready callbacks in turn); a process that does not end is
\* terminated by wait_for's timeout.  Nothing obliges a user to act, a process to
\* end by itself, an error to happen or a dead server to be restarted.
Fairness ==
    \A j \in Jobs :
        /\ WF_vars(HandlerStep(j))
        /\ WF_vars(AcquireLock(j))
        /\ WF_vars(SpawnReturns(j) \/ SpawnFails(j))
        /\ WF_vars(Terminate(j) \/ RunReturns(j))
        /\ WF_vars(Reaped(j))
        /\ WF_vars(Reconcile(j))

FairSpec == Spec /\ Fairness /\ WF_vars(Serve)

----------------------------------------------------------------------------
(* Properties *)

\* The only strategy process of this server that can be alive is the one of the
\* job that holds the execution lock, and the process runner knows no other:
\* executions are serialised across awaits, timeouts, cancellations and errors.
OneProcessPerServer ==
    /\ active \subseteq {lock}
    /\ \A j \in Jobs : proc[j] = "running" => lock = j

\* No terminal verdict is written while the process it judges is still alive
\* (unless that process belongs to a server that died).
VerdictAfterProcess ==
    \A j \in Jobs : row[j] \in TERMINAL_JOB_STATUSES => proc[j] # "running"

\* A coroutine of the job holds the lock or stands in the queue for it.
Driven(j) == lock = j \/ \E n \in 1 .. Len(waiters) : waiters[n] = j

\* While the server serves, every queued or running job has a coroutine that
\* will carry it on, unless an I/O error killed that coroutine: no wake-up of
\* the lock is lost and a restart leaves nothing queued or running behind.
QueuedAndRunningAreDriven ==
    Ready => \A j \in Jobs \ faulted : row[j] \in {"queued", "running"} => Driven(j)

\* A succeeded job has frozen prices, every artifact and their hashes in its
\* manifest, wherever the server crashed: evidence is complete before the status.
SucceededIsAudited ==
    \A j \in Jobs : row[j] = "succeeded" =>
        /\ frozen[j] # "absent" /\ inventory[j] /\ out[j] = "complete"
        /\ j \notin faulted => frozen[j] = "hashed"

\* job.json, manifest.json and the last event never claim a status the row has
\* not reached, so a client that refetches on an event sees at least what it
\* announced; and whenever the loop is free, without I/O errors, the last event
\* of this server is the status of the row: no transition goes unannounced.
CopiesTrailTheRow ==
    \A j \in Jobs : row[j] # "none" =>
        /\ mirror[j] # "none" => Trails(mirror[j], row[j])
        /\ manifest[j] # "none" => Trails(manifest[j], row[j])
        /\ published[j] # "none" =>
              /\ Trails(published[j], row[j])
              /\ Ready /\ j \notin faulted => published[j] = row[j]

----------------------------------------------------------------------------
(* The inductive invariant behind OneProcessPerServer, VerdictAfterProcess,   *)
(* TerminalIsFinal and the refinement                                         *)

\* The lock is held by the one coroutine that is past it.
LockHeld == \A j \in Jobs : task[j] \in Executing <=> lock = j

\* The queue of the lock holds waiting coroutines, each once.
QueueOK ==
    /\ \A n \in 1 .. Len(waiters) : task[waiters[n]] = "waiting"
    /\ \A m, n \in 1 .. Len(waiters) : waiters[m] = waiters[n] => m = n

\* A live process is awaited, and _active follows the awaiting coroutine.
ProcessOK ==
    /\ \A j \in Jobs : proc[j] = "running" => task[j] \in {"spawning", "communicating"}
    /\ \A j \in active : task[j] \in {"communicating", "reaping"}

\* How a row relates to its coroutine and its mirror.
RowOK ==
    \A j \in Jobs :
        /\ row[j] = "none" => task[j] = "none" /\ mirror[j] \in {"none", "queued"}
        /\ row[j] = "queued" => task[j] \notin Executing
        /\ task[j] \in Executing \ {"finishing"} => row[j] \in {"running", "cancelling"}

\* What the handler that is between two writes may rely on.
LoopOK ==
    LET j == loop.job IN
        /\ loop.at \in {"evidence", "commit"} =>
              loop.kind = "finish" /\ row[j] = "running"
        /\ loop.at = "commit" => loop.target \in {"succeeded", "failed"}
        /\ loop.at = "rmtree" <=> loop.kind = "rollback"
        /\ loop.kind = "rollback" => row[j] = "none"
        /\ loop.kind \in {"create", "retry"} =>
              row[j] = "queued" /\ task[j] = "none" /\ mirror[j] \in {"none", "queued"}
        /\ loop.kind \in Kinds \ {"rollback"} => row[j] # "none"
        /\ \A i \in Jobs : task[i] = "starting" <=> loop.kind = "start" /\ i = j
        /\ \A i \in Jobs : task[i] = "finishing" <=> loop.kind = "finish" /\ i = j

\* Nothing of the executor exists before the server serves.
PhaseOK ==
    /\ phase # "serving" =>
          /\ lock = NoJob /\ waiters = <<>> /\ active = {}
          /\ \A j \in Jobs : task[j] = "none"
    /\ phase = "down" => loop = Idle
    /\ loop # Idle => (phase = "boot" <=> loop.kind = "reconcile")

\* The whole of it: every part of the executor agrees with every other.
ExecutorInv == LockHeld /\ QueueOK /\ ProcessOK /\ RowOK /\ LoopOK /\ PhaseOK

\* The job a retry was made from stays failed or cancelled for ever: the evidence
\* a retry refers to is never reused by an execution.
RetriedStaysFinished ==
    \A j \in Jobs : row[j] # "none" /\ retryOf[j] # NoJob =>
        row[retryOf[j]] \in {"failed", "cancelled"}

\* A terminal status is never reverted or overwritten, by a late coroutine, a
\* retry, a reconciliation or the import of job.json.
TerminalIsFinal ==
    [][\A j \in Jobs : row[j] \in TERMINAL_JOB_STATUSES => row'[j] = row[j]]_row

\* The detailed executor implements the contract its callers rely on.
Contract == INSTANCE JobContract WITH status <- row, slot <- lock
ImplementsContract == Contract!Spec

\* Without crashes and I/O errors every accepted job reaches a verdict, and one
\* whose cancellation was accepted while it ran does not succeed any more.
EveryJobSettles ==
    \A j \in Jobs :
        /\ row[j] = "queued" ~> row[j] \in TERMINAL_JOB_STATUSES
        /\ row[j] = "cancelling" ~> row[j] \in {"cancelled", "failed"}

----------------------------------------------------------------------------
(* What the documents say and the code does not do *)

\* docs/ARCHITECTURE.md: a running job enters cancelling and its whole process
\* group is terminated.  cancel() cannot reach a process whose
\* create_subprocess_exec has not returned yet, and nothing kills it later.
CancellingIsKilled ==
    Ready => \A j \in Jobs : row[j] = "cancelling" => proc[j] # "running"

====
