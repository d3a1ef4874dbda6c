---- MODULE JobContract ----
(***************************************************************************)
(* What the job subsystem promises its callers, without coroutines, files   *)
(* or processes: every job follows the lifecycle graph, at most one job     *)
(* holds the executor, only the holder starts or delivers a verdict on an   *)
(* execution, and only a restarted server fails a job that nobody executes. *)
(***************************************************************************)
EXTENDS JobLifecycle

CONSTANTS Jobs, NoJob    \* NoJob is not a job

VARIABLES
    status,   \* the status callers read; "none" before the job exists
    slot      \* the job that holds the executor, or NoJob

vars == <<status, slot>>

Init ==
    /\ status = [j \in Jobs |-> "none"]
    /\ slot = NoJob

\* A job is accepted, or accepted again from its file after a failed creation
\* was cut short by a crash (several at once when the server boots).
Submit(S) ==
    /\ \A j \in S : status[j] = "none"
    /\ status' = [j \in Jobs |-> IF j \in S THEN "queued" ELSE status[j]]
    /\ UNCHANGED slot

\* A creation that failed half-way leaves no job behind.
Discard(j) ==
    /\ status[j] = "queued"
    /\ slot # j
    /\ status' = [status EXCEPT ![j] = "none"]
    /\ UNCHANGED slot

\* Execution starts only when no other job is executing.
Start(j) ==
    /\ slot = NoJob
    /\ status[j] = "queued"
    /\ status' = [status EXCEPT ![j] = "running"]
    /\ slot' = j

CancelQueued(j) ==
    /\ status[j] = "queued"
    /\ status' = [status EXCEPT ![j] = "cancelled"]
    /\ UNCHANGED slot

RequestCancel(j) ==
    /\ status[j] = "running"
    /\ status' = [status EXCEPT ![j] = "cancelling"]
    /\ UNCHANGED slot

\* The verdict on an execution, delivered by the job that holds the executor.
Finish(j) ==
    /\ slot = j
    /\ \E t \in TERMINAL_JOB_STATUSES :
          /\ status[j] \in {"running", "cancelling"}
          /\ ValidTransition(status[j], t)
          /\ status' = [status EXCEPT ![j] = t]
    /\ UNCHANGED slot

\* The executor becomes free: after a verdict, after an internal error, or
\* because the server died.
Release ==
    /\ slot' = NoJob
    /\ UNCHANGED status

\* A restarted server fails what the last one left queued or running.
Recover(j) ==
    /\ slot = NoJob
    /\ status[j] \in {"queued", "running"}
    /\ status' = [status EXCEPT ![j] = "failed"]
    /\ UNCHANGED slot

Next ==
    \/ \E S \in SUBSET Jobs : Submit(S)
    \/ \E j \in Jobs :
          \/ Discard(j) \/ Start(j) \/ CancelQueued(j)
          \/ RequestCancel(j) \/ Finish(j) \/ Recover(j)
    \/ Release

Spec == Init /\ [][Next]_vars
====
