---- MODULE JobLifecycle ----
(***************************************************************************)
(* The status graph of a backtest job (job_lifecycle.py): the statuses, the *)
(* terminal ones and the transitions the repository accepts inside its      *)
(* write transaction.                                                       *)
(***************************************************************************)

JobStatus ==
    {"queued", "running", "cancelling", "succeeded", "failed", "cancelled"}

TERMINAL_JOB_STATUSES == {"succeeded", "failed", "cancelled"}

ALLOWED_JOB_TRANSITIONS ==
    [queued     |-> {"running", "failed", "cancelled"},
     running    |-> {"cancelling", "succeeded", "failed"},
     cancelling |-> {"cancelled", "failed"},
     succeeded  |-> {},
     failed     |-> {},
     cancelled  |-> {}]

\* validate_job_transition raises InvalidJobTransition exactly when this is FALSE.
ValidTransition(current, target) ==
    target \in ALLOWED_JOB_TRANSITIONS[current]

\* A copy of a status that says s is current or out of date, never ahead of or
\* off the path to the authoritative status t.
Trails(s, t) ==
    \/ s = t
    \/ ValidTransition(s, t)
    \/ \E u \in ALLOWED_JOB_TRANSITIONS[s] :
          \/ ValidTransition(u, t)
          \/ \E v \in ALLOWED_JOB_TRANSITIONS[u] : ValidTransition(v, t)
====
