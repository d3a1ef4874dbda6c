---- MODULE Experiments ----
(***************************************************************************)
(* One research experiment (experiments.py): the coroutine _run takes the   *)
(* candidates one by one, runs the phases of each as jobs of the JobStore,  *)
(* re-ranks after every candidate, gives the winner a test phase and closes *)
(* the experiment.  The job subsystem is JobContract, which JobStore        *)
(* implements; users cancel jobs under the experiment, the server crashes   *)
(* and restarts, and an I/O error may fall on any write.                    *)
(*                                                                          *)
(* A job is the pair <<candidate, phase>>: a phase creates at most one.     *)
(* The planned phases of a candidate are numbered in the order they run:    *)
(* train, validation for a fixed window, and fold_1_train,                  *)
(* fold_1_validation, fold_2_train, ... for a walk-forward; 0 is the test.  *)
(* Of the metrics, `score' stands for the objective and the maximised       *)
(* metrics and `cost' for the minimised one.  An aggregate over folds is    *)
(* the sum of the folds, so every comparison is made at that scale.         *)
(***************************************************************************)
EXTENDS Integers, FiniteSets, Functions

CONSTANTS
    RunCount,     \* candidates: the parameter grid, or the symbols of a batch
    Validated,    \* BOOLEAN: a validation window is configured
    Tested,       \* BOOLEAN: a test window is configured
    Folds,        \* walk_forward_folds, 0 for none
    Metrics,      \* what a successful job may report
    CostLimit,    \* the constraint cost <= CostLimit
    MaxCrashes,   \* bound on server crashes
    MaxFaults,    \* bound on I/O errors
    NoJob

\* The combinations the HTTP boundary accepts.
ASSUME ExperimentsAssumption ==
    /\ RunCount \in Nat \ {0}
    /\ {Validated, Tested} \subseteq BOOLEAN
    /\ Folds \in {0} \cup 2..5
    /\ Tested => Validated
    /\ Folds > 0 => ~Validated
    /\ Metrics \subseteq [score : Int, cost : Int]
    /\ CostLimit \in Int
    /\ {MaxCrashes, MaxFaults} \subseteq Nat

Runs == 1..RunCount
PlanLength == IF Folds > 0 THEN 2 * Folds ELSE IF Validated THEN 2 ELSE 1
Plan == 1..PlanLength
TEST == 0
Phases == Plan \cup {TEST}
Jobs == Runs \X Phases

ASSUME NoJobAssumption == NoJob \notin Jobs

\* The phases whose metrics score a candidate.
Scoring == IF Folds > 0 THEN {p \in Plan : p % 2 = 0} ELSE {PlanLength}

VARIABLES
    jobs,      \* status of every job in the jobs table
    slot,      \* the job that holds the executor
    result,    \* summary metrics in result.json of a succeeded job
    live,      \* the dict `experiment' of the coroutine
    observed,  \* its local validation_phases (or scoring_phase): the sum of their metrics
    row,       \* the payload in the experiments table
    file,      \* runs/experiments/<id>/experiment.json
    event,     \* the last experiment.updated of this server
    pc,        \* where the coroutine is, see Points
    server,    \* "down", "jobs" and "experiments" (inside the constructors), "serving"
    crashes, faults

vars ==
    <<jobs, slot, result, live, observed, row, file, event, pc, server, crashes, faults>>

Contract == INSTANCE JobContract WITH status <- jobs

NoMetrics == [score |-> 0, cost |-> 0]
NoEvent == [status |-> "none", completed |-> 0]
Terminal == {"succeeded", "failed", "cancelled"}
Open == {"queued", "running"}
Final == {"succeeded", "completed_with_errors", "failed"}

\* launched  the task exists, _run has not begun
\* create    _run_phase is about to create the job
\* record    the job exists, _run_phase is about to write that down
\* await     suspended in run_job
\* failing   an exception inside _run_phase is about to fail the phase
\* decide    _run_phase has returned
\* raised    an exception of the candidate reached the loop of _run
\* select    every candidate has its verdict
\* conclude  the test, if any, is over
\* none      there is no coroutine
Points == {"none", "launched", "create", "record", "await", "failing", "decide",
           "raised", "select", "conclude"}

\* `writing': the row is committed, the JSON file and the event are still to come.
At(point, r, p) == [at |-> point, run |-> r, phase |-> p, writing |-> FALSE]
Writing(point, r, p) == [at |-> point, run |-> r, phase |-> p, writing |-> TRUE]
Nowhere == At("none", 1, TEST)

Candidate ==
    [status : Open \cup Terminal, rank : 0..RunCount, pareto : BOOLEAN,
     metrics : [score : Int, cost : Int],
     phases : [Phases -> {"none", "running"} \cup Terminal]]
Fresh ==
    [status |-> "queued", rank |-> 0, pareto |-> FALSE, metrics |-> NoMetrics,
     phases |-> [p \in Phases |-> "none"]]
NoExperiment ==
    [status |-> "none", completed |-> 0, runs |-> [r \in Runs |-> Fresh]]
Experiment ==
    [status : {"none"} \cup Open \cup Final, completed : 0..RunCount,
     runs : [Runs -> Candidate]]

TypeOK ==
    /\ jobs \in [Jobs -> {"none", "queued", "running", "cancelling"} \cup Terminal]
    /\ slot \in Jobs \cup {NoJob}
    /\ result \in [Jobs -> Metrics \cup {NoMetrics}]
    /\ {live, row, file} \subseteq Experiment
    /\ observed \in [score : Int, cost : Int]
    /\ event \in [status : {"none"} \cup Open \cup Final, completed : 0..RunCount]
    /\ pc \in [at : Points, run : Runs, phase : Phases, writing : BOOLEAN]
    /\ server \in {"down", "jobs", "experiments", "serving"}
    /\ crashes \in 0..MaxCrashes
    /\ faults \in 0..MaxFaults

Init ==
    /\ jobs = [j \in Jobs |-> "none"]
    /\ slot = NoJob
    /\ result = [j \in Jobs |-> NoMetrics]
    /\ live = NoExperiment
    /\ observed = NoMetrics
    /\ row = NoExperiment
    /\ file = NoExperiment
    /\ event = NoEvent
    /\ pc = Nowhere
    /\ server = "serving"
    /\ crashes = 0
    /\ faults = 0

(***************************************************************************)
(* Ranking: _evaluate_candidates.                                           *)
(***************************************************************************)
\* _aggregate_metrics over the validation phases of a walk-forward, the metrics
\* of the scoring phase otherwise, phase by phase.
Plus(a, b) == [score |-> a.score + b.score, cost |-> a.cost + b.cost]

Satisfies(m) == m.cost <= CostLimit * Cardinality(Scoring)

\* The candidates that are sorted: succeeded and within the constraints.
Eligible(runs) ==
    {r \in Runs : runs[r].status = "succeeded" /\ Satisfies(runs[r].metrics)}

\* A stable sort by score, highest first.
Precedes(runs, q, r) ==
    \/ runs[q].metrics.score > runs[r].metrics.score
    \/ runs[q].metrics.score = runs[r].metrics.score /\ q < r

\* Mutant: as good is good enough.
DominatesWeakly(a, b) == a.score >= b.score /\ a.cost <= b.cost

Dominates(a, b) ==
    /\ a.score >= b.score /\ a.cost <= b.cost
    /\ a.score > b.score \/ a.cost < b.cost

Rank(runs, r) ==
    IF r \in Eligible(runs)
    THEN 1 + Cardinality({q \in Eligible(runs) : Precedes(runs, q, r)})
    ELSE 0

OnFrontier(runs, r) ==
    /\ r \in Eligible(runs)
    /\ ~\E q \in Eligible(runs) \ {r} : Dominates(runs[q].metrics, runs[r].metrics)

Evaluated(runs) ==
    [r \in Runs |->
        [runs[r] EXCEPT !.rank = Rank(runs, r), !.pareto = OnFrontier(runs, r)]]

(***************************************************************************)
(* Writes: _write commits the row, then the JSON file, then publishes.      *)
(***************************************************************************)
IOError == faults < MaxFaults /\ faults' = faults + 1

\* Who catches an exception raised by the write that precedes the point `next':
\* the try of _run_phase, the try around a candidate in _run, or nobody.
Handler(next) ==
    CASE next.at = "await" -> At("failing", next.run, next.phase)
      [] next.at = "decide" /\ next.phase # TEST -> At("raised", next.run, next.phase)
      [] OTHER -> Nowhere

Save(experiment, next) ==
    /\ live' = experiment
    /\ \/ /\ row' = experiment
          /\ pc' = [next EXCEPT !.writing = TRUE]
          /\ UNCHANGED faults
       \/ /\ IOError
          /\ pc' = Handler(next)
          /\ UNCHANGED row

WriteFile ==
    /\ pc.writing
    /\ \/ /\ file' = live
          /\ event' = [status |-> live.status, completed |-> live.completed]
          /\ pc' = [pc EXCEPT !.writing = FALSE]
          /\ UNCHANGED faults
       \/ /\ server = "serving"
          /\ IOError
          /\ pc' = Handler(pc)
          /\ UNCHANGED <<file, event>>
    /\ UNCHANGED <<jobs, slot, result, live, observed, row, server, crashes>>

(***************************************************************************)
(* The coroutine.                                                           *)
(***************************************************************************)
Running(point) == server = "serving" /\ pc.at = point /\ ~pc.writing

\* The loop is free to run another handler.
Free == \E point \in {"none", "launched", "await"} : Running(point)

job == <<pc.run, pc.phase>>
SetPhase(status) == [live EXCEPT !.runs[pc.run].phases[pc.phase] = status]
kept == <<result, file, event, server, crashes>>
untouched == <<kept, observed>>

\* ExperimentStore.create and launch.
Create ==
    /\ Running("none")
    /\ row = NoExperiment
    /\ Save([NoExperiment EXCEPT !.status = "queued"], At("launched", 1, 1))
    /\ UNCHANGED <<jobs, slot, untouched>>

\* _run takes over: the record is read back from the table.
Begin ==
    /\ Running("launched")
    /\ Save([row EXCEPT !.status = "running"], At("create", 1, 1))
    /\ UNCHANGED <<jobs, slot, untouched>>

\* Mutant: the phases of the last candidate are still in the list.
ObservedKept == observed

\* Every candidate starts with an empty list.
ObservedBefore == IF pc.phase = 1 THEN NoMetrics ELSE observed

CreateJob ==
    /\ Running("create")
    /\ observed' = ObservedBefore
    /\ \/ /\ Contract!Submit({job})
          /\ pc' = [pc EXCEPT !.at = "record"]
          /\ UNCHANGED faults
       \/ /\ IOError
          /\ pc' = [pc EXCEPT !.at = "failing"]
          /\ UNCHANGED <<jobs, slot>>
    /\ UNCHANGED <<live, row, kept>>

\* Mutant: every phase, the test too, marks its candidate running.
RecordedAlways == [SetPhase("running") EXCEPT !.runs[pc.run].status = "running"]

\* The test phase does not reopen the candidate it tests.
Recorded ==
    IF pc.phase = TEST THEN SetPhase("running")
    ELSE [SetPhase("running") EXCEPT !.runs[pc.run].status = "running"]

RecordJob ==
    /\ Running("record")
    /\ Save(Recorded, At("await", pc.run, pc.phase))
    /\ UNCHANGED <<jobs, slot, untouched>>

ObservedAfter ==
    IF jobs[job] = "succeeded" /\ pc.phase \in Scoring THEN Plus(observed, result[job])
    ELSE observed

\* run_job has returned: the job was started and has its verdict.
RunJobReturns ==
    /\ Running("await")
    /\ slot = job
    /\ jobs[job] \in Terminal
    /\ slot' = NoJob
    /\ \/ /\ Save(SetPhase(jobs[job]), At("decide", pc.run, pc.phase))
          /\ observed' = ObservedAfter
       \/ /\ jobs[job] = "succeeded"    \* load_result raises
          /\ IOError
          /\ pc' = [pc EXCEPT !.at = "failing"]
          /\ UNCHANGED <<live, row, observed>>
    /\ UNCHANGED <<jobs, kept>>

\* Mutant: the refusal is a CancelledError, which `except Exception' lets pass.
RunJobRefusedUncaught ==
    /\ Running("await")
    /\ slot = NoJob
    /\ jobs[job] = "cancelled"
    /\ pc' = Nowhere
    /\ UNCHANGED <<jobs, slot, live, row, faults, untouched>>

\* run_job has the lock, but the job was cancelled in the queue: the transition
\* to running raises InvalidJobTransition, so the phase fails.
RunJobRefused ==
    /\ Running("await")
    /\ slot = NoJob
    /\ jobs[job] = "cancelled"
    /\ pc' = [pc EXCEPT !.at = "failing"]
    /\ UNCHANGED <<jobs, slot, live, row, faults, untouched>>

\* run_job has raised after an I/O error, whatever it left in the table.
RunJobRaises ==
    /\ Running("await")
    /\ IOError
    /\ Contract!Release
    /\ pc' = [pc EXCEPT !.at = "failing"]
    /\ UNCHANGED <<live, row, untouched>>

FailPhase ==
    /\ Running("failing")
    /\ Save(SetPhase("failed"), At("decide", pc.run, pc.phase))
    /\ UNCHANGED <<jobs, slot, untouched>>

PhaseSucceeded == live.runs[pc.run].phases[pc.phase] = "succeeded"

NextPhase ==
    /\ Running("decide")
    /\ pc.phase \in 1..(PlanLength - 1)
    /\ PhaseSucceeded
    /\ pc' = At("create", pc.run, pc.phase + 1)
    /\ UNCHANGED <<jobs, slot, live, row, faults, untouched>>

\* Mutant: one successful phase is enough.
VerdictOfAnyPhase ==
    IF \E p \in Plan : live.runs[pc.run].phases[p] = "succeeded" THEN "succeeded"
    ELSE "failed"

\* The verdict on a candidate whose phases ended with the current one.
Verdict ==
    IF pc.at = "raised" \/ (Folds > 0 /\ ~PhaseSucceeded) THEN "failed"
    ELSE live.runs[pc.run].phases[pc.phase]

Scored ==
    [live.runs[pc.run] EXCEPT
        !.status = Verdict,
        !.metrics = IF Verdict = "succeeded" THEN observed ELSE @]

\* Mutant: the candidates are ranked before the new verdict is in.
ProgressedAfterRanking ==
    [live EXCEPT
        !.completed = @ + 1,
        !.runs = [Evaluated(@) EXCEPT ![pc.run] = Scored]]

Progressed ==
    [live EXCEPT
        !.completed = @ + 1,
        !.runs = Evaluated([@ EXCEPT ![pc.run] = Scored])]

AfterCandidate ==
    IF pc.run < RunCount THEN At("create", pc.run + 1, 1)
    ELSE At("select", pc.run, pc.phase)

ScoreCandidate ==
    /\ \/ Running("raised")
       \/ /\ Running("decide")
          /\ pc.phase # TEST
          /\ PhaseSucceeded => pc.phase = PlanLength
    /\ Save(Progressed, AfterCandidate)
    /\ UNCHANGED <<jobs, slot, untouched>>

\* Only the winner is tested.
Select ==
    /\ Running("select")
    /\ live' = [live EXCEPT !.runs = Evaluated(@)]
    /\ \/ \E r \in Runs :
             /\ live'.runs[r].rank = 1
             /\ Tested
             /\ pc' = At("create", r, TEST)
       \/ /\ Tested => \A r \in Runs : live'.runs[r].rank # 1
          /\ pc' = [pc EXCEPT !.at = "conclude"]
    /\ UNCHANGED <<jobs, slot, row, faults, untouched>>

TestReturns ==
    /\ Running("decide")
    /\ pc.phase = TEST
    /\ pc' = [pc EXCEPT !.at = "conclude"]
    /\ UNCHANGED <<jobs, slot, live, row, faults, untouched>>

FinalStatus ==
    LET won == {r \in Runs : live.runs[r].status = "succeeded"}
        tested == \A r \in Runs : live.runs[r].phases[TEST] \in {"none", "succeeded"}
    IN  CASE won = Runs /\ tested -> "succeeded"
          [] won # {} /\ ~(won = Runs /\ tested) -> "completed_with_errors"
          [] OTHER -> "failed"

Conclude ==
    /\ Running("conclude")
    /\ Save([live EXCEPT !.status = FinalStatus, !.runs = Evaluated(@)], Nowhere)
    /\ UNCHANGED <<jobs, slot, untouched>>

(***************************************************************************)
(* The job subsystem under the coroutine, and the users.                    *)
(***************************************************************************)
JobStarts ==
    /\ Running("await")
    /\ Contract!Start(job)
    /\ UNCHANGED <<live, row, pc, faults, untouched>>

\* The verdict on the execution; only the metrics of scoring phases are used.
JobFinishes ==
    /\ Running("await")
    /\ Contract!Finish(job)
    /\ IF jobs'[job] = "succeeded" /\ pc.phase \in Scoring
       THEN \E m \in Metrics : result' = [result EXCEPT ![job] = m]
       ELSE UNCHANGED result
    /\ UNCHANGED <<live, observed, row, file, event, pc, server, crashes, faults>>

CancelJob ==
    /\ Free
    /\ \E j \in Jobs : Contract!CancelQueued(j) \/ Contract!RequestCancel(j)
    /\ UNCHANGED <<live, row, pc, faults, untouched>>

(***************************************************************************)
(* Crash and restart: the JobStore reconciles first, see web.py.            *)
(***************************************************************************)
Crash ==
    /\ crashes < MaxCrashes
    /\ server # "down"
    /\ crashes' = crashes + 1
    /\ server' = "down"
    /\ live' = NoExperiment
    /\ observed' = NoMetrics
    /\ event' = NoEvent
    /\ pc' = Nowhere
    /\ slot' = NoJob
    /\ UNCHANGED <<jobs, result, row, file, faults>>

Restart ==
    /\ server = "down"
    /\ server' = "jobs"
    /\ UNCHANGED <<jobs, slot, result, live, observed, row, file, event, pc, crashes, faults>>

ReconcileJobs ==
    /\ server = "jobs"
    /\ \/ /\ \E j \in Jobs : Contract!Recover(j)
          /\ UNCHANGED server
       \/ /\ \A j \in Jobs : jobs[j] \notin Open
          /\ server' = "experiments"
          /\ UNCHANGED <<jobs, slot>>
    /\ UNCHANGED <<result, live, observed, row, file, event, pc, crashes, faults>>

Interrupted(e) ==
    [e EXCEPT
        !.status = "failed",
        !.runs = [r \in Runs |->
                    IF @[r].status \in Open THEN [@[r] EXCEPT !.status = "failed"]
                    ELSE @[r]]]

\* Mutant: an experiment that was still queued is left for later.
AbandonedRunning == row.status = "running"

\* Nobody drives what the last server left open.
Abandoned == row.status \in Open

ReconcileExperiment ==
    /\ server = "experiments"
    /\ ~pc.writing
    /\ IF Abandoned
       THEN /\ row' = Interrupted(row)
            /\ live' = row'
            /\ pc' = [Nowhere EXCEPT !.writing = TRUE]
            /\ UNCHANGED server
       ELSE /\ server' = "serving"
            /\ UNCHANGED <<row, live, pc>>
    /\ UNCHANGED <<jobs, slot, result, observed, file, event, crashes, faults>>

Coroutine ==
    \/ Begin \/ CreateJob \/ RecordJob \/ RunJobReturns \/ RunJobRefused
    \/ FailPhase \/ NextPhase \/ ScoreCandidate \/ Select \/ TestReturns \/ Conclude
    \/ WriteFile

Executor == JobStarts \/ JobFinishes

Next ==
    \/ Coroutine \/ Executor
    \/ Create \/ RunJobRaises \/ CancelJob
    \/ Crash \/ Restart \/ ReconcileJobs \/ ReconcileExperiment

Spec == Init /\ [][Next]_vars

\* The loop keeps running a coroutine that can move; a process ends or is
\* stopped by its timeout, see EveryJobSettles of JobStore.
FairSpec == Spec /\ WF_vars(Coroutine) /\ WF_vars(Executor)

(***************************************************************************)
(* Properties.                                                              *)
(***************************************************************************)
Undisturbed == crashes = 0 /\ faults = 0
JobsOf(r) == {<<r, p>> : p \in Plan}
Reported(r) ==
    [score |-> SumFunctionOnSet([p \in Phases |-> result[<<r, p>>].score], Scoring),
     cost  |-> SumFunctionOnSet([p \in Phases |-> result[<<r, p>>].cost], Scoring)]

\* Jobs run in the order of the plan: a phase sees parameters whose earlier
\* phases succeeded, a candidate starts after every job of those before it has
\* stopped.  The test window is never used to select: its job exists only once
\* every candidate has its verdict, for one candidate, and that candidate is still
\* ranked first by everything written since (_run; docs: the test runs only the
\* winner).
PlanIsFollowed ==
    /\ \A r \in Runs, p \in Plan : jobs[<<r, p>>] # "none" =>
        /\ \A q \in 1..(p - 1) : jobs[<<r, q>>] = "succeeded"
        /\ \A i \in 1..(r - 1) : faults = 0 =>
              \A j \in JobsOf(i) : jobs[j] \in Terminal \cup {"none"}
    /\ \A r \in Runs : jobs[<<r, TEST>>] # "none" =>
        /\ slot # NoJob => slot[2] = TEST
        /\ \A q \in Runs \ {r} : jobs[<<q, TEST>>] = "none"
        /\ row.completed = RunCount
        /\ row.runs[r].rank = 1

\* The persisted verdict of a candidate is the one of its jobs, also after a
\* crash or an I/O error: success needs every planned job, its metrics are the
\* ones those jobs reported, undisturbed failure needs a job that failed or was
\* cancelled, and a candidate of one window is cancelled only if a user cancelled
\* its job; one that never started makes it failed, see RunJobRefused.  The
\* progress shown to the user counts the candidates with a verdict.
VerdictsComeFromJobs ==
    /\ LET settled == {r \in Runs : row.runs[r].status \in Terminal}
       IN  /\ row.completed <= Cardinality(settled)
           /\ crashes = 0 => row.completed = Cardinality(settled)
    /\ \A r \in Runs :
        /\ row.runs[r].status = "succeeded" =>
              /\ \A j \in JobsOf(r) : jobs[j] = "succeeded"
              /\ row.runs[r].metrics = Reported(r)
        /\ row.runs[r].status = "cancelled" =>
              Folds = 0 /\ \E j \in JobsOf(r) : jobs[j] = "cancelled"
        /\ Undisturbed /\ row.runs[r].status = "failed" =>
              \E j \in JobsOf(r) : jobs[j] \in {"failed", "cancelled"}

\* Every record ever persisted ranks exactly the candidates that are succeeded
\* and satisfy the constraints in that same record, best score first: no write
\* leaves a rank or a frontier mark of before a verdict.
RanksAreCurrent == row.runs = Evaluated(row.runs)

\* Somebody with the best score is on the Pareto frontier: equal candidates do
\* not push each other off it.
TheBestIsOnTheFrontier ==
    (\E r \in Runs : row.runs[r].rank = 1) =>
        \E r \in Runs :
            /\ row.runs[r].pareto
            /\ \A q \in Eligible(row.runs) :
                  row.runs[q].metrics.score <= row.runs[r].metrics.score

\* The status of an experiment is the truth about it.  Between two handlers,
\* without I/O errors, an open one has its coroutine: a restart closes those whose
\* coroutine died with the last server.  A closed one has no open candidate, and
\* calls itself succeeded only when every planned job, and the test of the winner
\* if there is one, did (_run, _reconcile_interrupted).
StatusIsHonest ==
    /\ faults = 0 /\ Running("none") => row.status \notin Open
    /\ row.status \in Final =>
        /\ \A r \in Runs : row.runs[r].status \in Terminal
        /\ row.status = "succeeded" =>
              \A j \in Jobs : jobs[j] = "succeeded" \/ (j[2] = TEST /\ jobs[j] = "none")
        /\ row.status = "completed_with_errors" =>
              \E r \in Runs : row.runs[r].status = "succeeded"
        /\ row.status = "failed" /\ crashes = 0 =>
              \A r \in Runs : row.runs[r].status # "succeeded"
        /\ Undisturbed => \A r \in Runs : jobs[<<r, 1>>] \in Terminal

\* A closed experiment is never rewritten, not even by a restart.
ClosedStaysClosed == [][row.status \in Final => row' = row]_vars

\* Without crashes and I/O errors every launched experiment closes, however the
\* users cancel its jobs.
EveryExperimentCloses == row.status = "queued" ~> row.status \in Final
====
