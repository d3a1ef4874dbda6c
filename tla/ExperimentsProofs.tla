---- MODULE ExperimentsProofs ----
(***************************************************************************)
(* Theorems about Experiments, for every number of candidates, every plan,  *)
(* every set of metrics and any number of crashes and I/O errors, and about *)
(* the two other research features: the windows of a walk-forward and the   *)
(* cash pool of a portfolio.                                                *)
(***************************************************************************)
EXTENDS Experiments, WalkForward, Portfolio, SumTheorems, FiniteSetTheorems, SequenceTheorems,
        TLAPS

(***************************************************************************)
(* The ranking.                                                             *)
(***************************************************************************)
LEMMA RunsFinite == RunCount \in Nat /\ IsFiniteSet(Runs) /\ Cardinality(Runs) = RunCount
<1>1. RunCount \in Nat \ {0}
  BY ExperimentsAssumption
<1>2. IsFiniteSet(1..RunCount) /\ Cardinality(1..RunCount) = RunCount
  BY <1>1, FS_Interval, 1 \in Int, RunCount \in Int
<1> QED
  BY <1>1, <1>2 DEF Runs

\* A rank is at most the number of candidates.
LEMMA RankType ==
    ASSUME NEW runs \in [Runs -> Candidate], NEW r \in Runs
    PROVE  Rank(runs, r) \in 0..RunCount
<1> DEFINE ahead == {q \in Eligible(runs) : Precedes(runs, q, r)}
<1>1. \A q \in ahead : q \in Runs /\ q # r
  BY DEF Eligible, Precedes, Runs, Candidate
<1>2. ahead \subseteq Runs \ {r}
  BY <1>1
<1>3. IsFiniteSet(Runs \ {r}) /\ Cardinality(Runs \ {r}) = RunCount - 1
  BY RunsFinite, FS_RemoveElement
<1>4. Cardinality(ahead) \in Nat /\ Cardinality(ahead) <= RunCount - 1
  BY <1>2, <1>3, FS_Subset, FS_CardinalityType
<1> QED
  BY <1>4, RunsFinite DEF Rank

\* Two tables of candidates that agree on who succeeded and with which metrics.
SameVerdicts(a, b) ==
    \A r \in Runs : /\ a[r].status = "succeeded" <=> b[r].status = "succeeded"
                    /\ a[r].metrics = b[r].metrics

\* The ranking sees nothing else of a candidate.
LEMMA SameRanking ==
    ASSUME NEW a, NEW b, SameVerdicts(a, b), NEW r \in Runs
    PROVE  Rank(a, r) = Rank(b, r) /\ OnFrontier(a, r) = OnFrontier(b, r)
<1>1. Eligible(a) = Eligible(b)
  BY DEF SameVerdicts, Eligible
<1>2. \A q \in Runs : Precedes(a, q, r) = Precedes(b, q, r)
  BY DEF SameVerdicts, Precedes
<1>3. {q \in Eligible(a) : Precedes(a, q, r)} = {q \in Eligible(b) : Precedes(b, q, r)}
  BY <1>1, <1>2 DEF Eligible
<1>4. Rank(a, r) = Rank(b, r)
  BY <1>1, <1>3 DEF Rank
<1>5. OnFrontier(a, r) = OnFrontier(b, r)
  BY <1>1 DEF OnFrontier, SameVerdicts, Eligible
<1> QED
  BY <1>4, <1>5

LEMMA EvaluatedType ==
    ASSUME NEW runs \in [Runs -> Candidate]
    PROVE  /\ Evaluated(runs) \in [Runs -> Candidate]
           /\ SameVerdicts(Evaluated(runs), runs)
           /\ \A r \in Runs : /\ Evaluated(runs)[r].status = runs[r].status
                              /\ Evaluated(runs)[r].phases = runs[r].phases
                              /\ Evaluated(runs)[r].rank = Rank(runs, r)
                              /\ Evaluated(runs)[r].pareto = OnFrontier(runs, r)
<1>1. \A r \in Runs : Rank(runs, r) \in 0..RunCount /\ OnFrontier(runs, r) \in BOOLEAN
  BY RankType DEF OnFrontier
<1> QED
  BY <1>1 DEF Evaluated, Candidate, SameVerdicts

\* A table that differs from a ranked one in nothing the ranking sees is ranked.
LEMMA StillEvaluated ==
    ASSUME NEW a \in [Runs -> Candidate], NEW b \in [Runs -> Candidate],
           a = Evaluated(a), SameVerdicts(a, b),
           \A r \in Runs : b[r].rank = a[r].rank /\ b[r].pareto = a[r].pareto
    PROVE  b = Evaluated(b)
<1>1. \A r \in Runs : b[r].rank = Rank(b, r) /\ b[r].pareto = OnFrontier(b, r)
  BY SameRanking, EvaluatedType
<1>2. \A r \in Runs : b[r] = [b[r] EXCEPT !.rank = Rank(b, r), !.pareto = OnFrontier(b, r)]
  <2> TAKE r \in Runs
  <2>1. b[r] \in Candidate /\ b[r].rank = Rank(b, r) /\ b[r].pareto = OnFrontier(b, r)
    BY <1>1
  <2>2. \A c \in Candidate : c = [c EXCEPT !.rank = c.rank, !.pareto = c.pareto]
    BY DEF Candidate
  <2> QED
    BY <2>1, <2>2
<1> QED
  BY <1>2 DEF Evaluated

\* Ranking twice is ranking once.
LEMMA EvaluatedTwice ==
    ASSUME NEW runs \in [Runs -> Candidate]
    PROVE  Evaluated(runs) = Evaluated(Evaluated(runs))
<1> DEFINE e == Evaluated(runs)
<1>1. e \in [Runs -> Candidate] /\ SameVerdicts(e, runs)
  BY EvaluatedType
<1>2. \A r \in Runs : e[r].rank = Rank(e, r) /\ e[r].pareto = OnFrontier(e, r)
  BY <1>1, SameRanking, EvaluatedType
<1> HIDE DEF e
<1>3. e = Evaluated(e)
  BY <1>1, <1>2 DEF Evaluated, Candidate
<1> QED
  BY <1>3 DEF e

(***************************************************************************)
(* The inductive invariant.                                                 *)
(***************************************************************************)
PcRecord == [at : Points, run : Runs, phase : Phases, writing : BOOLEAN]
InPhase(n) == n.at \in {"create", "record", "await", "failing", "decide", "raised"}

\* What the record says when the coroutine stands at the point n: the candidates
\* before n.run have their verdict and the others do not, or all have.
Position(e, n) ==
    /\ InPhase(n) /\ n.phase # TEST =>
          /\ e.completed = n.run - 1
          /\ \A q \in Runs : q >= n.run => e.runs[q].status \in Open
    /\ n.at \in {"select", "conclude"} => e.completed = RunCount
    /\ InPhase(n) /\ n.phase = TEST => e.completed = RunCount
    /\ n.at = "raised" => n.phase # TEST
    /\ n.at = "decide" => e.runs[n.run].phases[n.phase] \in Terminal
    /\ InPhase(n) \/ n.at \in {"select", "conclude"} => e.status = "running"

Queued == [NoExperiment EXCEPT !.status = "queued"]
LaunchedIsQueued == pc.at = "launched" => row = Queued
Ranked == live.runs = Evaluated(live.runs) /\ row.runs = Evaluated(row.runs)
ClosedIsIdle == row.status \in Final => pc.at = "none"

IInv == TypeOK /\ Position(live, pc) /\ LaunchedIsQueued /\ Ranked /\ ClosedIsIdle

LEMMA FreshType ==
    /\ NoExperiment \in Experiment
    /\ NoExperiment.runs = Evaluated(NoExperiment.runs)
    /\ Queued \in Experiment
    /\ Queued.runs = NoExperiment.runs
    /\ Queued.status = "queued"
    /\ NoMetrics \in [score : Int, cost : Int]
    /\ Nowhere \in PcRecord
    /\ \A e : Position(e, Nowhere)
<1>1. RunCount \in Nat /\ 1 \in Runs
  BY ExperimentsAssumption DEF Runs
<1>2. NoMetrics \in [score : Int, cost : Int]
  BY DEF NoMetrics
<1>3. Fresh \in Candidate
  BY <1>1, <1>2 DEF Fresh, Candidate, Open
<1>4. NoExperiment \in Experiment
  BY <1>1, <1>3 DEF NoExperiment, Experiment
<1>5. Queued \in Experiment /\ Queued.runs = NoExperiment.runs /\ Queued.status = "queued"
  BY <1>4 DEF Queued, Experiment, Open
<1>6. Eligible(NoExperiment.runs) = {}
  BY DEF Eligible, NoExperiment, Fresh
<1>7. \A r \in Runs : Rank(NoExperiment.runs, r) = 0 /\ OnFrontier(NoExperiment.runs, r) = FALSE
  BY <1>6 DEF Rank, OnFrontier
<1>8. NoExperiment.runs = Evaluated(NoExperiment.runs)
  BY <1>7 DEF Evaluated, NoExperiment, Fresh
<1>9. Nowhere \in PcRecord
  BY <1>1 DEF Nowhere, At, PcRecord, Points, Phases
<1>10. \A e : Position(e, Nowhere)
  BY DEF Position, Nowhere, At, InPhase
<1> QED
  BY <1>2, <1>4, <1>5, <1>8, <1>9, <1>10

LEMMA HandlerStep ==
    ASSUME NEW e, NEW n \in PcRecord, Position(e, n)
    PROVE  /\ Handler(n) \in PcRecord /\ Position(e, Handler(n))
           /\ Handler(n).at \in {"failing", "raised", "none"}
           /\ n.at \notin {"await", "decide"} => Handler(n).at = "none"
<1>1. CASE n.at = "await"
  <2>1. Handler(n) = At("failing", n.run, n.phase)
    BY <1>1 DEF Handler
  <2> QED
    BY <1>1, <2>1 DEF PcRecord, At, Position, InPhase, Points
<1>2. CASE n.at = "decide" /\ n.phase # TEST
  <2>1. Handler(n) = At("raised", n.run, n.phase)
    BY <1>2 DEF Handler
  <2> QED
    BY <1>2, <2>1 DEF PcRecord, At, Position, InPhase, Points
<1>3. CASE n.at # "await" /\ ~(n.at = "decide" /\ n.phase # TEST)
  <2>1. Handler(n) = Nowhere
    BY <1>3 DEF Handler
  <2>2. Nowhere.at = "none"
    BY DEF Nowhere, At
  <2> QED
    BY <2>1, <2>2, FreshType
<1> QED
  BY <1>1, <1>2, <1>3

LEMMA FaultType ==
    ASSUME TypeOK, IOError \/ UNCHANGED faults
    PROVE  faults' \in 0..MaxFaults
BY ExperimentsAssumption DEF TypeOK, IOError

\* A write of the record e before the point n, whether or not it succeeds.
LEMMA SaveStep ==
    ASSUME IInv, NEW e \in Experiment, NEW n \in PcRecord, Position(e, n),
           e.runs = Evaluated(e.runs), n.at # "launched",
           e.status \in Final => n.at = "none",
           pc.at # "none", Save(e, n)
    PROVE  /\ live' \in Experiment /\ row' \in Experiment /\ pc' \in PcRecord
           /\ faults' \in 0..MaxFaults
           /\ Position(live', pc') /\ LaunchedIsQueued' /\ Ranked' /\ ClosedIsIdle'
<1>1. live' = e
  BY DEF Save
<1>2. CASE row' = e /\ pc' = [n EXCEPT !.writing = TRUE] /\ UNCHANGED faults
  <2>1. pc' \in PcRecord /\ pc'.at = n.at /\ pc'.run = n.run /\ pc'.phase = n.phase
    BY <1>2 DEF PcRecord
  <2>2. Position(live', pc')
    BY <1>1, <2>1 DEF Position, InPhase
  <2> QED
    BY <1>1, <1>2, <2>1, <2>2, FaultType DEF IInv, LaunchedIsQueued, Ranked, ClosedIsIdle
<1>3. CASE IOError /\ pc' = Handler(n) /\ UNCHANGED row
  <2>1. pc' \in PcRecord /\ Position(live', pc') /\ pc'.at \in {"failing", "raised", "none"}
    BY <1>1, <1>3, HandlerStep
  <2>2. row' = row /\ row \in Experiment /\ row.status \notin Final
    BY <1>3 DEF IInv, TypeOK, ClosedIsIdle
  <2> QED
    BY <1>1, <1>3, <2>1, <2>2, FaultType DEF IInv, LaunchedIsQueued, Ranked, ClosedIsIdle
<1> QED
  BY <1>2, <1>3 DEF Save

(***************************************************************************)
(* Every action preserves the invariant.                                    *)
(***************************************************************************)
\* Setting the status of a phase changes nothing the ranking sees.
LEMMA SetPhaseStep ==
    ASSUME live \in Experiment, live.runs = Evaluated(live.runs), pc \in PcRecord,
           NEW status \in {"none", "running"} \cup Terminal
    PROVE  /\ SetPhase(status) \in Experiment
           /\ SetPhase(status).runs = Evaluated(SetPhase(status).runs)
           /\ SetPhase(status).status = live.status
           /\ SetPhase(status).completed = live.completed
           /\ \A q \in Runs : /\ SetPhase(status).runs[q].status = live.runs[q].status
                             /\ SetPhase(status).runs[q].rank = live.runs[q].rank
           /\ SetPhase(status).runs[pc.run].phases[pc.phase] = status
           /\ SameVerdicts(live.runs, SetPhase(status).runs)
<1> DEFINE e == SetPhase(status)
<1>1. /\ e \in Experiment /\ e.status = live.status /\ e.completed = live.completed
      /\ \A q \in Runs : /\ e.runs[q].status = live.runs[q].status
                        /\ e.runs[q].metrics = live.runs[q].metrics
                        /\ e.runs[q].rank = live.runs[q].rank
                        /\ e.runs[q].pareto = live.runs[q].pareto
      /\ e.runs[pc.run].phases[pc.phase] = status
  <2>1. pc.run \in Runs /\ pc.phase \in Phases /\ live.runs \in [Runs -> Candidate]
    BY DEF PcRecord, Experiment
  <2> DEFINE c == [live.runs[pc.run] EXCEPT !.phases[pc.phase] = status]
  <2>2. /\ c \in Candidate /\ c.phases[pc.phase] = status
        /\ c.status = live.runs[pc.run].status /\ c.metrics = live.runs[pc.run].metrics
        /\ c.rank = live.runs[pc.run].rank /\ c.pareto = live.runs[pc.run].pareto
    BY <2>1 DEF Candidate
  <2>3. e = [live EXCEPT !.runs = [live.runs EXCEPT ![pc.run] = c]]
    BY <2>1 DEF SetPhase, Experiment
  <2> HIDE DEF c, e
  <2>4. /\ e \in Experiment /\ e.status = live.status /\ e.completed = live.completed
        /\ e.runs = [live.runs EXCEPT ![pc.run] = c]
    BY <2>1, <2>2, <2>3 DEF Experiment
  <2> QED
    BY <2>1, <2>2, <2>4
<1>2. e.runs \in [Runs -> Candidate] /\ live.runs \in [Runs -> Candidate]
  BY <1>1 DEF Experiment
<1> HIDE DEF e
<1>3. SameVerdicts(live.runs, e.runs)
  BY <1>1 DEF SameVerdicts
<1>4. e.runs = Evaluated(e.runs)
  BY <1>1, <1>2, <1>3, StillEvaluated
<1> QED
  BY <1>1, <1>3, <1>4 DEF e

LEMMA RecordedStep ==
    ASSUME live \in Experiment, live.runs = Evaluated(live.runs), pc \in PcRecord,
           Position(live, pc), pc.at = "record"
    PROVE  /\ Recorded \in Experiment
           /\ Recorded.runs = Evaluated(Recorded.runs)
           /\ Recorded.status = live.status
           /\ Recorded.completed = live.completed
           /\ \A q \in Runs : /\ q # pc.run => Recorded.runs[q].status = live.runs[q].status
                             /\ Recorded.runs[q].rank = live.runs[q].rank
           /\ pc.phase = TEST => Recorded.runs[pc.run].status = live.runs[pc.run].status
           /\ pc.phase # TEST => Recorded.runs[pc.run].status = "running"
           /\ SameVerdicts(live.runs, Recorded.runs)
<1>0. pc.run \in Runs
  BY DEF PcRecord
<1> DEFINE e == SetPhase("running")
<1>1. /\ e \in Experiment /\ e.runs = Evaluated(e.runs)
      /\ e.status = live.status /\ e.completed = live.completed
      /\ \A q \in Runs : /\ e.runs[q].status = live.runs[q].status
                        /\ e.runs[q].rank = live.runs[q].rank
      /\ SameVerdicts(live.runs, e.runs)
  BY SetPhaseStep
<1>2. CASE pc.phase = TEST
  BY <1>0, <1>1, <1>2 DEF Recorded
<1>3. CASE pc.phase # TEST
  <2> DEFINE f == [e EXCEPT !.runs[pc.run].status = "running"]
  <2>1. Recorded = f
    BY <1>3 DEF Recorded
  <2>2. live.runs[pc.run].status \in Open
    BY <1>3 DEF Position, InPhase, PcRecord, Runs
  <2> HIDE DEF e
  <2>a. e.runs \in [Runs -> Candidate] /\ pc.run \in Runs
    BY <1>1 DEF Experiment, PcRecord
  <2>b. f = [e EXCEPT !.runs = [e.runs EXCEPT ![pc.run].status = "running"]]
    OBVIOUS
  <2> DEFINE g == [e.runs EXCEPT ![pc.run].status = "running"]
  <2>c. /\ g \in [Runs -> Candidate]
        /\ g[pc.run].status = "running"
        /\ \A q \in Runs : /\ q # pc.run => g[q].status = e.runs[q].status
                          /\ g[q].metrics = e.runs[q].metrics
                          /\ g[q].rank = e.runs[q].rank
                          /\ g[q].pareto = e.runs[q].pareto
    BY <2>a DEF Candidate, Open
  <2> HIDE DEF g
  <2>3. /\ f \in Experiment /\ f.status = e.status /\ f.completed = e.completed
        /\ f.runs[pc.run].status = "running"
        /\ \A q \in Runs : /\ q # pc.run => f.runs[q].status = e.runs[q].status
                          /\ f.runs[q].metrics = e.runs[q].metrics
                          /\ f.runs[q].rank = e.runs[q].rank
                          /\ f.runs[q].pareto = e.runs[q].pareto
    <3>1. f = [e EXCEPT !.runs = g]
      BY <2>b DEF g
    <3> HIDE DEF f
    <3> QED
      BY <1>1, <2>c, <3>1 DEF Experiment
  <2>4. f.runs \in [Runs -> Candidate] /\ e.runs \in [Runs -> Candidate]
    BY <1>1, <2>3 DEF Experiment
  <2> HIDE DEF f
  <2>5. SameVerdicts(e.runs, f.runs)
    BY <1>1, <2>2, <2>3 DEF SameVerdicts, Open, PcRecord
  <2>6. f.runs = Evaluated(f.runs)
    BY <1>1, <2>3, <2>4, <2>5, StillEvaluated
  <2>7. SameVerdicts(live.runs, f.runs)
    BY <1>1, <2>5 DEF SameVerdicts
  <2> QED
    BY <1>1, <1>3, <2>1, <2>3, <2>6, <2>7
<1> QED
  BY <1>2, <1>3

\* The verdict on the current candidate and the new ranking.
LEMMA ProgressedStep ==
    ASSUME live \in Experiment, observed \in [score : Int, cost : Int],
           pc \in PcRecord, Position(live, pc),
           pc.at \in {"decide", "raised"}, pc.phase # TEST
    PROVE  /\ Progressed \in Experiment
           /\ Progressed.runs = Evaluated(Progressed.runs)
           /\ Progressed.status = live.status
           /\ Progressed.completed = pc.run
           /\ \A q \in Runs : q > pc.run => Progressed.runs[q].status \in Open
<1>1. pc.run \in Runs /\ pc.phase \in Phases /\ live.runs \in [Runs -> Candidate]
  BY DEF PcRecord, Experiment
<1>2. live.completed = pc.run - 1 /\ \A q \in Runs : q >= pc.run => live.runs[q].status \in Open
  BY DEF Position, InPhase
<1>3. Verdict \in Terminal
  BY <1>1 DEF Verdict, Position, Terminal
<1>4. Scored \in Candidate
  <2>1. live.runs[pc.run] \in Candidate
    BY <1>1
  <2> HIDE DEF Verdict
  <2> QED
    BY <1>3, <2>1 DEF Scored, Candidate
<1> DEFINE table == [live.runs EXCEPT ![pc.run] = Scored]
<1>5. table \in [Runs -> Candidate]
  BY <1>1, <1>4
<1>6. \A q \in Runs : q # pc.run => table[q] = live.runs[q]
  BY <1>1
<1>7. Progressed = [live EXCEPT !.completed = live.completed + 1, !.runs = Evaluated(table)]
  BY DEF Progressed
<1> HIDE DEF table
<1>8. /\ Evaluated(table) \in [Runs -> Candidate]
      /\ Evaluated(table) = Evaluated(Evaluated(table))
      /\ \A q \in Runs : Evaluated(table)[q].status = table[q].status
  BY <1>5, EvaluatedType, EvaluatedTwice
<1>9. RunCount \in Nat /\ pc.run \in 1..RunCount
  BY <1>1, ExperimentsAssumption DEF Runs
<1>a. live.completed + 1 = pc.run /\ pc.run \in 0..RunCount
  BY <1>2, <1>9
<1>b. Progressed = [live EXCEPT !.completed = pc.run, !.runs = Evaluated(table)]
  BY <1>7, <1>a
<1>10. /\ Progressed \in Experiment
       /\ Progressed.runs = Evaluated(table)
       /\ Progressed.status = live.status
       /\ Progressed.completed = pc.run
  BY <1>8, <1>a, <1>b DEF Experiment
<1>11. ASSUME NEW q \in Runs, q > pc.run PROVE Evaluated(table)[q].status \in Open
  <2>1. q # pc.run /\ q >= pc.run
    BY <1>9, <1>11 DEF Runs
  <2> QED
    BY <1>2, <1>6, <1>8, <2>1
<1> QED
  BY <1>8, <1>10, <1>11

\* Ranking the current record once more.
LEMMA ReevaluatedStep ==
    ASSUME live \in Experiment, NEW status \in {live.status} \cup Final
    PROVE  LET e == [live EXCEPT !.status = status, !.runs = Evaluated(@)] IN
           /\ e \in Experiment /\ e.runs = Evaluated(e.runs)
           /\ e.completed = live.completed /\ e.status = status
<1>1. live.runs \in [Runs -> Candidate]
  BY DEF Experiment
<1>2. Evaluated(live.runs) \in [Runs -> Candidate]
  BY <1>1, EvaluatedType
<1>3. Evaluated(live.runs) = Evaluated(Evaluated(live.runs))
  BY <1>1, EvaluatedTwice
<1> QED
  BY <1>2, <1>3 DEF Experiment

\* TypeOK without the variables that every write of the coroutine changes.
RestType ==
    /\ jobs \in [Jobs -> {"none", "queued", "running", "cancelling"} \cup Terminal]
    /\ slot \in Jobs \cup {NoJob}
    /\ result \in [Jobs -> Metrics \cup {NoMetrics}]
    /\ observed \in [score : Int, cost : Int]
    /\ file \in Experiment
    /\ event \in [status : {"none"} \cup Open \cup Final, completed : 0..RunCount]
    /\ server \in {"down", "jobs", "experiments", "serving"}
    /\ crashes \in 0..MaxCrashes

CoreInv ==
    /\ live \in Experiment /\ row \in Experiment /\ pc \in PcRecord
    /\ faults \in 0..MaxFaults
    /\ Position(live, pc) /\ LaunchedIsQueued /\ Ranked /\ ClosedIsIdle

LEMMA InvParts == IInv <=> RestType /\ CoreInv
BY DEF IInv, TypeOK, RestType, CoreInv, PcRecord

LEMMA InvPartsNext == IInv' <=> RestType' /\ CoreInv'
BY DEF IInv, TypeOK, RestType, CoreInv, PcRecord

LEMMA CurrentJob ==
    ASSUME pc \in PcRecord
    PROVE  job \in Jobs
BY DEF PcRecord, job, Jobs

\* The rest of the state when an action leaves it alone, but for the jobs.
LEMMA RestKept ==
    ASSUME IInv, UNCHANGED <<jobs, slot, untouched>>
    PROVE  RestType'
BY InvParts DEF RestType, untouched, kept

LEMMA BeginInv == ASSUME IInv, Begin PROVE IInv'
<1>1. RestType'
  BY RestKept DEF Begin
<1>2. row = Queued /\ pc.at = "launched"
  BY DEF IInv, LaunchedIsQueued, Begin, Running
<1> DEFINE e == [row EXCEPT !.status = "running"]
           n == At("create", 1, 1)
<1>3. e \in Experiment /\ e.runs = Evaluated(e.runs) /\ e.status = "running"
  BY <1>2, FreshType DEF Experiment, Open
<1>4. n \in PcRecord /\ n.at = "create" /\ n.run = 1 /\ n.phase = 1
  BY ExperimentsAssumption DEF At, PcRecord, Points, Phases, Plan, PlanLength, Runs
<1>5. e.completed = 0 /\ \A q \in Runs : e.runs[q].status \in Open
  BY <1>2 DEF Queued, NoExperiment, Fresh, Open
<1>6. Position(e, n)
  BY <1>4, <1>5 DEF Position, InPhase, TEST
<1>7. Save(e, n)
  BY DEF Begin
<1> HIDE DEF e, n
<1>8. CoreInv'
  BY <1>2, <1>3, <1>4, <1>6, <1>7, SaveStep DEF CoreInv, Final
<1> QED
  BY <1>1, <1>8, InvPartsNext

LEMMA CreateInv == ASSUME IInv, Create PROVE IInv'
<1>1. RestType'
  BY RestKept DEF Create
<1> DEFINE n == At("launched", 1, 1)
<1>2. Save(Queued, n) /\ row = NoExperiment
  BY DEF Create, Queued
<1>3. n \in PcRecord /\ n.at = "launched"
  BY ExperimentsAssumption DEF At, PcRecord, Points, Phases, Plan, PlanLength, Runs
<1> HIDE DEF n
<1>4. live' = Queued /\ live' \in Experiment /\ live'.runs = Evaluated(live'.runs)
  BY <1>2, FreshType DEF Save
<1>5. \A m \in PcRecord : m.at \in {"launched", "none"} => Position(live', m)
  BY DEF Position, InPhase
<1>6. CASE row' = Queued /\ pc' = [n EXCEPT !.writing = TRUE] /\ UNCHANGED faults
  <2>1. pc' \in PcRecord /\ pc'.at = "launched"
    BY <1>3, <1>6 DEF PcRecord
  <2>2. faults' \in 0..MaxFaults
    BY <1>6, FaultType DEF IInv
  <2>3. row'.status = "queued" /\ row' \in Experiment /\ row'.runs = Evaluated(row'.runs)
    BY <1>6, FreshType
  <2> QED
    BY <1>1, <1>4, <1>5, <1>6, <2>1, <2>2, <2>3, InvPartsNext
       DEF CoreInv, LaunchedIsQueued, Ranked, ClosedIsIdle, Final
<1>7. CASE IOError /\ pc' = Handler(n) /\ UNCHANGED row
  <2>1. pc' = Nowhere /\ Nowhere.at = "none"
    BY <1>3, <1>7 DEF Handler, Nowhere, At
  <2>2. faults' \in 0..MaxFaults
    BY <1>7, FaultType DEF IInv
  <2> QED
    BY <1>1, <1>4, <1>5, <1>7, <2>1, <2>2, InvParts, InvPartsNext, FreshType
       DEF CoreInv, LaunchedIsQueued, Ranked, ClosedIsIdle
<1> QED
  BY <1>2, <1>6, <1>7 DEF Save

\* Points of a candidate or test that share its position.
LEMMA SamePosition ==
    ASSUME NEW e, NEW m, NEW n, Position(e, m), InPhase(m), m.at # "raised",
           n.run = m.run, n.phase = m.phase,
           n.at \in {"create", "record", "await", "failing"}
    PROVE  Position(e, n)
BY DEF Position, InPhase

LEMMA CreateJobInv == ASSUME IInv, CreateJob PROVE IInv'
<1>1. RestType /\ CoreInv /\ pc.at = "create"
  BY InvParts DEF CreateJob, Running
<1>2. job \in Jobs
  BY <1>1, CurrentJob DEF CoreInv
<1>3. observed' \in [score : Int, cost : Int]
  BY <1>1, FreshType DEF CreateJob, ObservedBefore, RestType
<1>4. jobs' \in [Jobs -> {"none", "queued", "running", "cancelling"} \cup Terminal]
  BY <1>1, <1>2 DEF CreateJob, RestType, Contract!Submit
<1>5. slot' = slot
  BY DEF CreateJob, Contract!Submit
<1>6. RestType'
  BY <1>1, <1>3, <1>4, <1>5 DEF RestType, CreateJob, kept
<1>7. pc' \in PcRecord /\ pc'.run = pc.run /\ pc'.phase = pc.phase
      /\ pc'.at \in {"record", "failing"}
  BY <1>1 DEF CreateJob, CoreInv, PcRecord, Points
<1>8. Position(live, pc')
  BY <1>1, <1>7, SamePosition DEF CoreInv, InPhase
<1>9. faults' \in 0..MaxFaults /\ live' = live /\ row' = row
  BY FaultType DEF CreateJob, IInv
<1>10. CoreInv'
  BY <1>1, <1>7, <1>8, <1>9 DEF CoreInv, LaunchedIsQueued, Ranked, ClosedIsIdle
<1> QED
  BY <1>6, <1>10, InvPartsNext

\* A coroutine between two points of a phase writes the record e, which has the
\* verdicts and the progress of the current one.
LEMMA PhaseWrite ==
    ASSUME IInv, InPhase(pc), pc.at # "raised",
           NEW e \in Experiment, e.runs = Evaluated(e.runs),
           e.status = live.status, e.completed = live.completed,
           \A q \in Runs : q # pc.run => e.runs[q].status = live.runs[q].status,
           pc.phase # TEST => e.runs[pc.run].status \in Open,
           NEW point \in {"await", "decide"},
           point = "decide" => e.runs[pc.run].phases[pc.phase] \in Terminal,
           Save(e, At(point, pc.run, pc.phase))
    PROVE  CoreInv'
<1> DEFINE n == At(point, pc.run, pc.phase)
<1>1. CoreInv /\ pc.at # "none" /\ e.status = "running"
  BY InvParts DEF CoreInv, InPhase, Position
<1>2. n \in PcRecord /\ n.at = point /\ n.run = pc.run /\ n.phase = pc.phase
  BY <1>1 DEF At, PcRecord, Points, CoreInv
<1>3. Save(e, n)
  OBVIOUS
<1> HIDE DEF n
<1>4. Position(e, n)
  <2>1. InPhase(n) /\ n.phase # TEST =>
          /\ e.completed = n.run - 1
          /\ \A q \in Runs : q >= n.run => e.runs[q].status \in Open
    BY <1>1, <1>2 DEF Position, CoreInv
  <2>2. InPhase(n) /\ n.phase = TEST => e.completed = RunCount
    BY <1>1, <1>2 DEF Position, CoreInv
  <2>3. n.at = "decide" => e.runs[n.run].phases[n.phase] \in Terminal
    BY <1>2
  <2> QED
    BY <1>1, <1>2, <2>1, <2>2, <2>3 DEF Position
<1>5. e.status \notin Final /\ n.at # "launched"
  BY <1>1, <1>2 DEF Final
<1> QED
  BY <1>1, <1>2, <1>3, <1>4, <1>5, SaveStep DEF CoreInv

LEMMA RecordJobInv == ASSUME IInv, RecordJob PROVE IInv'
<1>1. RestType'
  BY RestKept DEF RecordJob
<1>2. CoreInv /\ pc.at = "record" /\ InPhase(pc)
  BY InvParts DEF RecordJob, Running, InPhase
<1>3. /\ Recorded \in Experiment /\ Recorded.runs = Evaluated(Recorded.runs)
      /\ Recorded.status = live.status /\ Recorded.completed = live.completed
      /\ \A q \in Runs : q # pc.run => Recorded.runs[q].status = live.runs[q].status
      /\ pc.phase # TEST => Recorded.runs[pc.run].status = "running"
  BY <1>2, RecordedStep DEF CoreInv, Ranked
<1>4. Save(Recorded, At("await", pc.run, pc.phase))
  BY DEF RecordJob
<1>5. CoreInv'
  BY <1>2, <1>3, <1>4, PhaseWrite DEF Open
<1> QED
  BY <1>1, <1>5, InvPartsNext

\* The end of a phase: its status becomes that of the job, or failed.
LEMMA PhaseEnds ==
    ASSUME IInv, InPhase(pc), pc.at # "raised", NEW status \in Terminal,
           Save(SetPhase(status), At("decide", pc.run, pc.phase))
    PROVE  CoreInv'
<1>1. CoreInv
  BY InvParts
<1>2. /\ SetPhase(status) \in Experiment
      /\ SetPhase(status).runs = Evaluated(SetPhase(status).runs)
      /\ SetPhase(status).status = live.status
      /\ SetPhase(status).completed = live.completed
      /\ \A q \in Runs : SetPhase(status).runs[q].status = live.runs[q].status
      /\ SetPhase(status).runs[pc.run].phases[pc.phase] = status
  BY <1>1, SetPhaseStep DEF CoreInv, Ranked
<1>3. pc.phase # TEST => live.runs[pc.run].status \in Open
  BY <1>1 DEF CoreInv, Position, PcRecord, Runs
<1>4. pc.run \in Runs
  BY <1>1 DEF CoreInv, PcRecord
<1> QED
  BY <1>2, <1>3, <1>4, PhaseWrite

LEMMA FailPhaseInv == ASSUME IInv, FailPhase PROVE IInv'
<1>1. RestType'
  BY RestKept DEF FailPhase
<1>2. InPhase(pc) /\ pc.at # "raised"
  BY DEF FailPhase, Running, InPhase
<1>3. CoreInv'
  BY <1>2, PhaseEnds DEF FailPhase, Terminal
<1> QED
  BY <1>1, <1>3, InvPartsNext

\* An exception inside _run_phase: only the point changes.
LEMMA RaiseStep ==
    ASSUME IInv, InPhase(pc), pc.at # "raised", IOError,
           pc' = [pc EXCEPT !.at = "failing"], UNCHANGED <<live, row>>
    PROVE  CoreInv'
<1>1. CoreInv
  BY InvParts
<1>2. /\ pc' \in PcRecord /\ pc'.at = "failing" /\ pc'.run = pc.run
      /\ pc'.phase = pc.phase
  BY <1>1 DEF CoreInv, PcRecord, Points
<1>3. Position(live, pc')
  BY <1>1, <1>2, SamePosition DEF CoreInv
<1>4. row.status \notin Final
  BY <1>1 DEF CoreInv, ClosedIsIdle, InPhase
<1> QED
  BY <1>1, <1>2, <1>3, <1>4, FaultType DEF IInv, CoreInv, LaunchedIsQueued, Ranked, ClosedIsIdle

LEMMA RunJobReturnsInv == ASSUME IInv, RunJobReturns PROVE IInv'
<1>1. RestType /\ CoreInv /\ InPhase(pc) /\ pc.at # "raised"
  BY InvParts DEF RunJobReturns, Running, InPhase
<1>2. job \in Jobs
  BY <1>1, CurrentJob DEF CoreInv
<1>3. Plus(observed, result[job]) \in [score : Int, cost : Int]
  BY <1>1, <1>2, FreshType, ExperimentsAssumption DEF Plus, RestType
<1>4. observed' \in [score : Int, cost : Int]
  BY <1>1, <1>3 DEF RunJobReturns, ObservedAfter, RestType
<1>5. RestType'
  BY <1>1, <1>4 DEF RunJobReturns, RestType, kept
<1>6. jobs[job] \in Terminal
  BY DEF RunJobReturns
<1>7. CASE Save(SetPhase(jobs[job]), At("decide", pc.run, pc.phase))
  BY <1>1, <1>5, <1>6, <1>7, PhaseEnds, InvPartsNext
<1>8. CASE IOError /\ pc' = [pc EXCEPT !.at = "failing"] /\ UNCHANGED <<live, row>>
  BY <1>1, <1>5, <1>8, RaiseStep, InvPartsNext
<1> QED
  BY <1>7, <1>8 DEF RunJobReturns

LEMMA RunJobRaisesInv == ASSUME IInv, RunJobRaises PROVE IInv'
<1>1. RestType /\ InPhase(pc) /\ pc.at # "raised"
  BY InvParts DEF RunJobRaises, Running, InPhase
<1>2. RestType'
  BY <1>1 DEF RunJobRaises, RestType, untouched, kept, Contract!Release
<1>3. CoreInv'
  BY <1>1, RaiseStep DEF RunJobRaises
<1> QED
  BY <1>2, <1>3, InvPartsNext

LEMMA RunJobRefusedInv == ASSUME IInv, RunJobRefused PROVE IInv'
<1>1. RestType'
  BY RestKept DEF RunJobRefused
<1>2. /\ CoreInv /\ pc.at = "await" /\ pc' = [pc EXCEPT !.at = "failing"]
      /\ UNCHANGED <<live, row, faults>>
  BY InvParts DEF RunJobRefused, Running
<1>3. /\ pc' \in PcRecord /\ pc'.at = "failing" /\ pc'.run = pc.run
      /\ pc'.phase = pc.phase
  BY <1>2 DEF CoreInv, PcRecord, Points
<1>4. Position(live, pc')
  BY <1>2, <1>3, SamePosition DEF CoreInv, InPhase
<1>5. row.status \notin Final
  BY <1>2 DEF CoreInv, ClosedIsIdle
<1>6. CoreInv'
  BY <1>2, <1>3, <1>4, <1>5 DEF CoreInv, LaunchedIsQueued, Ranked, ClosedIsIdle
<1> QED
  BY <1>1, <1>6, InvPartsNext

\* A step of the coroutine that writes nothing.
LEMMA MoveStep ==
    ASSUME IInv, pc' \in PcRecord, Position(live, pc'), pc.at # "none",
           pc'.at # "launched", UNCHANGED <<live, row, faults>>
    PROVE  CoreInv'
<1>1. CoreInv
  BY InvParts
<1>2. row.status \notin Final
  BY <1>1 DEF CoreInv, ClosedIsIdle
<1> QED
  BY <1>1, <1>2 DEF CoreInv, LaunchedIsQueued, Ranked, ClosedIsIdle

LEMMA NextPhaseInv == ASSUME IInv, NextPhase PROVE IInv'
<1>1. RestType'
  BY RestKept DEF NextPhase
<1>2. CoreInv /\ pc.at = "decide" /\ pc.phase \in 1..(PlanLength - 1)
  BY InvParts DEF NextPhase, Running
<1>3. PlanLength \in Nat
  BY ExperimentsAssumption DEF PlanLength
<1>4. pc.phase # TEST /\ pc.phase + 1 # TEST /\ pc.phase + 1 \in Phases
  BY <1>2, <1>3 DEF TEST, Phases, Plan
<1>5. /\ pc' \in PcRecord /\ pc'.at = "create" /\ pc'.run = pc.run
      /\ pc'.phase = pc.phase + 1
  BY <1>2, <1>4 DEF NextPhase, At, PcRecord, Points, CoreInv
<1>6. Position(live, pc')
  BY <1>2, <1>4, <1>5 DEF CoreInv, Position, InPhase
<1>7. CoreInv'
  BY <1>2, <1>5, <1>6, MoveStep DEF NextPhase
<1> QED
  BY <1>1, <1>7, InvPartsNext

LEMMA TestReturnsInv == ASSUME IInv, TestReturns PROVE IInv'
<1>1. RestType'
  BY RestKept DEF TestReturns
<1>2. CoreInv /\ pc.at = "decide" /\ pc.phase = TEST
  BY InvParts DEF TestReturns, Running
<1>3. pc' \in PcRecord /\ pc'.at = "conclude"
  BY <1>2 DEF TestReturns, PcRecord, Points, CoreInv
<1>4. Position(live, pc')
  BY <1>2, <1>3 DEF CoreInv, Position, InPhase
<1>5. CoreInv'
  BY <1>2, <1>3, <1>4, MoveStep DEF TestReturns
<1> QED
  BY <1>1, <1>5, InvPartsNext

LEMMA ScoreCandidateInv == ASSUME IInv, ScoreCandidate PROVE IInv'
<1>1. RestType'
  BY RestKept DEF ScoreCandidate
<1>2. CoreInv /\ RestType /\ pc.at \in {"decide", "raised"} /\ pc.phase # TEST
  BY InvParts DEF ScoreCandidate, Running, CoreInv, Position
<1>3. /\ Progressed \in Experiment /\ Progressed.runs = Evaluated(Progressed.runs)
      /\ Progressed.status = live.status /\ Progressed.completed = pc.run
      /\ \A q \in Runs : q > pc.run => Progressed.runs[q].status \in Open
  BY <1>2, ProgressedStep DEF CoreInv, RestType
<1>4. live.status = "running"
  BY <1>2 DEF CoreInv, Position, InPhase
<1>5. pc.run \in 1..RunCount /\ RunCount \in Nat /\ pc.phase \in Phases
  BY <1>2, ExperimentsAssumption DEF CoreInv, PcRecord, Runs
<1>6. Save(Progressed, AfterCandidate)
  BY DEF ScoreCandidate
<1>7. /\ AfterCandidate \in PcRecord /\ Position(Progressed, AfterCandidate)
      /\ AfterCandidate.at \in {"create", "select"}
  <2>1. CASE pc.run < RunCount
    <3>1. AfterCandidate = At("create", pc.run + 1, 1)
      BY <2>1 DEF AfterCandidate
    <3>2. pc.run + 1 \in Runs /\ 1 \in Phases
      BY <1>5, <2>1, ExperimentsAssumption DEF Runs, Phases, Plan, PlanLength
    <3>3. /\ AfterCandidate \in PcRecord /\ AfterCandidate.at = "create"
          /\ AfterCandidate.run = pc.run + 1 /\ AfterCandidate.phase = 1
      BY <3>1, <3>2 DEF At, PcRecord, Points
    <3>4. \A q \in Runs : q >= pc.run + 1 => q > pc.run
      BY <1>5 DEF Runs
    <3> QED
      BY <1>3, <1>4, <1>5, <3>3, <3>4 DEF Position, InPhase, TEST
  <2>2. CASE ~(pc.run < RunCount)
    <3>1. AfterCandidate = At("select", pc.run, pc.phase)
      BY <2>2 DEF AfterCandidate
    <3>2. AfterCandidate \in PcRecord /\ AfterCandidate.at = "select"
      BY <1>2, <3>1 DEF At, PcRecord, Points, CoreInv
    <3>3. pc.run = RunCount
      BY <1>5, <2>2
    <3> QED
      BY <1>3, <1>4, <3>2, <3>3 DEF Position, InPhase
  <2> QED
    BY <2>1, <2>2
<1>8. CoreInv'
  BY <1>2, <1>3, <1>4, <1>6, <1>7, SaveStep DEF CoreInv, Final
<1> QED
  BY <1>1, <1>8, InvPartsNext

LEMMA SelectInv == ASSUME IInv, Select PROVE IInv'
<1>1. RestType'
  BY RestKept DEF Select
<1>2. CoreInv /\ pc.at = "select" /\ live.completed = RunCount /\ live.status = "running"
  BY InvParts DEF Select, Running, CoreInv, Position
<1> DEFINE e == [live EXCEPT !.status = live.status, !.runs = Evaluated(@)]
<1>3. /\ e \in Experiment /\ e.runs = Evaluated(e.runs)
      /\ e.completed = live.completed /\ e.status = live.status
  BY <1>2, ReevaluatedStep DEF CoreInv
<1>4. live' = e
  BY <1>2 DEF Select, CoreInv, Experiment
<1> HIDE DEF e
<1>5. row' = row /\ faults' = faults
  BY DEF Select
<1>6. ASSUME NEW r \in Runs, pc' = At("create", r, TEST)
      PROVE  pc' \in PcRecord /\ pc'.at = "create" /\ pc'.phase = TEST
  BY <1>6 DEF At, PcRecord, Points, Phases
<1>7. ASSUME pc' = [pc EXCEPT !.at = "conclude"]
      PROVE  pc' \in PcRecord /\ pc'.at = "conclude"
  BY <1>2, <1>7 DEF PcRecord, Points, CoreInv
<1>8. /\ pc' \in PcRecord
      /\ pc'.at = "conclude" \/ (pc'.at = "create" /\ pc'.phase = TEST)
  BY <1>6, <1>7 DEF Select
<1>9. Position(live', pc')
  BY <1>2, <1>3, <1>4, <1>8 DEF Position, InPhase
<1>10. row.status \notin Final
  BY <1>2 DEF CoreInv, ClosedIsIdle
<1>11. CoreInv'
  BY <1>2, <1>3, <1>4, <1>5, <1>8, <1>9, <1>10
     DEF CoreInv, LaunchedIsQueued, Ranked, ClosedIsIdle
<1> QED
  BY <1>1, <1>11, InvPartsNext

LEMMA ConcludeInv == ASSUME IInv, Conclude PROVE IInv'
<1>1. RestType'
  BY RestKept DEF Conclude
<1>2. CoreInv /\ pc.at = "conclude"
  BY InvParts DEF Conclude, Running
<1>3. FinalStatus \in Final
  BY DEF FinalStatus, Final
<1> DEFINE e == [live EXCEPT !.status = FinalStatus, !.runs = Evaluated(@)]
<1>4. e \in Experiment /\ e.runs = Evaluated(e.runs)
  BY <1>2, <1>3, ReevaluatedStep DEF CoreInv
<1>5. Save(e, Nowhere)
  BY DEF Conclude
<1> HIDE DEF e
<1>6. Nowhere.at = "none"
  BY DEF Nowhere, At
<1>7. CoreInv'
  BY <1>2, <1>4, <1>5, <1>6, FreshType, SaveStep DEF CoreInv
<1> QED
  BY <1>1, <1>7, InvPartsNext

LEMMA WriteFileInv == ASSUME IInv, WriteFile PROVE IInv'
<1>1. CoreInv /\ RestType
  BY InvParts
<1>2. live' = live /\ row' = row
  BY DEF WriteFile
<1>3. faults' \in 0..MaxFaults
  BY FaultType DEF WriteFile, IInv
<1>4. CASE /\ file' = live /\ pc' = [pc EXCEPT !.writing = FALSE]
           /\ event' = [status |-> live.status, completed |-> live.completed]
  <2>1. RestType'
    BY <1>1, <1>4 DEF WriteFile, RestType, CoreInv, Experiment
  <2>2. pc' \in PcRecord /\ pc'.at = pc.at /\ pc'.run = pc.run /\ pc'.phase = pc.phase
    BY <1>1, <1>4 DEF PcRecord, CoreInv
  <2>3. Position(live', pc')
    BY <1>1, <1>2, <2>2 DEF CoreInv, Position, InPhase
  <2>4. CoreInv'
    BY <1>1, <1>2, <1>3, <2>2, <2>3 DEF CoreInv, LaunchedIsQueued, Ranked, ClosedIsIdle
  <2> QED
    BY <2>1, <2>4, InvPartsNext
<1>5. CASE pc' = Handler(pc) /\ UNCHANGED <<file, event>>
  <2>1. RestType'
    BY <1>1, <1>5 DEF WriteFile, RestType
  <2>2. /\ pc' \in PcRecord /\ Position(live', pc')
        /\ pc'.at \in {"failing", "raised", "none"}
        /\ pc.at \notin {"await", "decide"} => pc'.at = "none"
    BY <1>1, <1>2, <1>5, HandlerStep DEF CoreInv
  <2>3. CoreInv'
    BY <1>1, <1>2, <1>3, <2>2 DEF CoreInv, LaunchedIsQueued, Ranked, ClosedIsIdle
  <2> QED
    BY <2>1, <2>3, InvPartsNext
<1> QED
  BY <1>4, <1>5 DEF WriteFile

\* What the job subsystem may do to a job under the coroutine.
LEMMA JobsType ==
    ASSUME RestType, NEW j \in Jobs,
           \/ Contract!Start(j) \/ Contract!Finish(j) \/ Contract!CancelQueued(j)
           \/ Contract!RequestCancel(j) \/ Contract!Recover(j)
    PROVE  /\ jobs' \in [Jobs -> {"none", "queued", "running", "cancelling"} \cup Terminal]
           /\ slot' \in Jobs \cup {NoJob}
BY DEF RestType, Terminal, Contract!Start, Contract!Finish, Contract!CancelQueued,
       Contract!RequestCancel, Contract!Recover, Contract!TERMINAL_JOB_STATUSES

LEMMA CoreKept ==
    ASSUME IInv, UNCHANGED <<live, row, pc, faults>>
    PROVE  CoreInv'
BY InvParts DEF CoreInv, LaunchedIsQueued, Ranked, ClosedIsIdle

LEMMA JobStartsInv == ASSUME IInv, JobStarts PROVE IInv'
<1>1. RestType /\ job \in Jobs
  BY InvParts, CurrentJob DEF CoreInv
<1>2. RestType'
  BY <1>1, JobsType DEF JobStarts, RestType, untouched, kept
<1>3. CoreInv'
  BY CoreKept DEF JobStarts
<1> QED
  BY <1>2, <1>3, InvPartsNext

LEMMA JobFinishesInv == ASSUME IInv, JobFinishes PROVE IInv'
<1>1. RestType /\ job \in Jobs
  BY InvParts, CurrentJob DEF CoreInv
<1>2. result' \in [Jobs -> Metrics \cup {NoMetrics}]
  BY <1>1 DEF JobFinishes, RestType
<1>3. RestType'
  BY <1>1, <1>2, JobsType DEF JobFinishes, RestType
<1>4. CoreInv'
  BY CoreKept DEF JobFinishes
<1> QED
  BY <1>3, <1>4, InvPartsNext

LEMMA CancelJobInv == ASSUME IInv, CancelJob PROVE IInv'
<1>1. RestType
  BY InvParts
<1>2. RestType'
  BY <1>1, JobsType DEF CancelJob, RestType, untouched, kept
<1>3. CoreInv'
  BY CoreKept DEF CancelJob
<1> QED
  BY <1>2, <1>3, InvPartsNext

LEMMA CrashInv == ASSUME IInv, Crash PROVE IInv'
<1>1. RestType /\ CoreInv /\ MaxCrashes \in Nat
  BY InvParts, ExperimentsAssumption
<1>2. NoEvent \in [status : {"none"} \cup Open \cup Final, completed : 0..RunCount]
  BY ExperimentsAssumption DEF NoEvent
<1>3. crashes' \in 0..MaxCrashes
  BY <1>1 DEF Crash, RestType
<1>4. RestType'
  BY <1>1, <1>2, <1>3, FreshType DEF Crash, RestType
<1>5. Nowhere.at = "none"
  BY DEF Nowhere, At
<1>6. live' = NoExperiment /\ pc' = Nowhere /\ row' = row /\ faults' = faults
  BY DEF Crash
<1>7. Position(live', pc')
  BY <1>6, FreshType
<1>8. CoreInv'
  BY <1>1, <1>5, <1>6, <1>7, FreshType DEF CoreInv, LaunchedIsQueued, Ranked, ClosedIsIdle
<1> QED
  BY <1>4, <1>8, InvPartsNext

LEMMA RestartInv == ASSUME IInv, Restart \/ ReconcileJobs PROVE IInv'
<1>1. RestType
  BY InvParts
<1>2. CASE Restart
  BY <1>1, <1>2, CoreKept, InvPartsNext DEF Restart, RestType
<1>3. CASE ReconcileJobs
  <2>1. RestType'
    BY <1>1, <1>3, JobsType DEF ReconcileJobs, RestType
  <2> QED
    BY <1>3, <2>1, CoreKept, InvPartsNext DEF ReconcileJobs
<1> QED
  BY <1>2, <1>3

\* What an interrupted experiment becomes is ranked as it was.
LEMMA InterruptedStep ==
    ASSUME NEW e \in Experiment, e.runs = Evaluated(e.runs)
    PROVE  /\ Interrupted(e) \in Experiment
           /\ Interrupted(e).runs = Evaluated(Interrupted(e).runs)
<1> DEFINE table == [r \in Runs |-> IF e.runs[r].status \in Open
                                  THEN [e.runs[r] EXCEPT !.status = "failed"]
                                  ELSE e.runs[r]]
<1>1. e.runs \in [Runs -> Candidate]
  BY DEF Experiment
<1>2. /\ table \in [Runs -> Candidate]
      /\ \A r \in Runs : /\ table[r].status = "succeeded" <=> e.runs[r].status = "succeeded"
                        /\ table[r].metrics = e.runs[r].metrics
                        /\ table[r].rank = e.runs[r].rank
                        /\ table[r].pareto = e.runs[r].pareto
  BY <1>1 DEF Candidate, Open, Terminal
<1>3. Interrupted(e) = [e EXCEPT !.status = "failed", !.runs = table]
  BY DEF Interrupted
<1> HIDE DEF table
<1>4. table = Evaluated(table)
  BY <1>1, <1>2, StillEvaluated DEF SameVerdicts
<1> QED
  BY <1>2, <1>3, <1>4 DEF Experiment, Final

LEMMA ReconcileExperimentInv == ASSUME IInv, ReconcileExperiment PROVE IInv'
<1>1. RestType /\ CoreInv
  BY InvParts
<1>2. RestType'
  BY <1>1 DEF ReconcileExperiment, RestType
<1>3. CASE Abandoned
  <2>1. Interrupted(row) \in Experiment /\ Interrupted(row).runs = Evaluated(Interrupted(row).runs)
    BY <1>1, InterruptedStep DEF CoreInv, Ranked
  <2>2. row' = Interrupted(row) /\ live' = row' /\ faults' = faults
        /\ pc' = [Nowhere EXCEPT !.writing = TRUE]
    BY <1>3 DEF ReconcileExperiment
  <2>3. pc' \in PcRecord /\ pc'.at = "none"
    BY <2>2, FreshType DEF PcRecord, Nowhere, At
  <2>4. Position(live', pc')
    BY <2>3 DEF Position, InPhase
  <2>5. CoreInv'
    BY <1>1, <2>1, <2>2, <2>3, <2>4 DEF CoreInv, LaunchedIsQueued, Ranked, ClosedIsIdle
  <2> QED
    BY <1>2, <2>5, InvPartsNext
<1>4. CASE ~Abandoned
  BY <1>2, <1>4, CoreKept, InvPartsNext DEF ReconcileExperiment
<1> QED
  BY <1>3, <1>4

(***************************************************************************)
(* The theorems.                                                            *)
(***************************************************************************)
LEMMA InitInv == Init => IInv
<1> SUFFICES ASSUME Init PROVE IInv
  OBVIOUS
<1>1. Nowhere.at = "none"
  BY DEF Nowhere, At
<1>2. RestType
  BY FreshType, ExperimentsAssumption DEF Init, RestType, NoEvent
<1>3. CoreInv
  BY <1>1, FreshType, ExperimentsAssumption
     DEF Init, CoreInv, LaunchedIsQueued, Ranked, ClosedIsIdle
<1> QED
  BY <1>2, <1>3, InvParts

LEMMA NextInv == IInv /\ [Next]_vars => IInv'
<1> SUFFICES ASSUME IInv, [Next]_vars PROVE IInv'
  OBVIOUS
<1>1. CASE UNCHANGED vars
  <2>1. RestType'
    BY <1>1, RestKept DEF vars, untouched, kept
  <2> QED
    BY <1>1, <2>1, CoreKept, InvPartsNext DEF vars
<1>2. CASE Coroutine
  BY <1>2, BeginInv, CreateJobInv, RecordJobInv, RunJobReturnsInv, RunJobRefusedInv, FailPhaseInv,
     NextPhaseInv, ScoreCandidateInv, SelectInv, TestReturnsInv, ConcludeInv, WriteFileInv
     DEF Coroutine
<1>3. CASE Executor
  BY <1>3, JobStartsInv, JobFinishesInv DEF Executor
<1>4. CASE Create \/ RunJobRaises \/ CancelJob
  BY <1>4, CreateInv, RunJobRaisesInv, CancelJobInv
<1>5. CASE Crash \/ Restart \/ ReconcileJobs \/ ReconcileExperiment
  BY <1>5, CrashInv, RestartInv, ReconcileExperimentInv
<1> QED
  BY <1>1, <1>2, <1>3, <1>4, <1>5 DEF Next

LEMMA Invariant == Spec => []IInv
BY InitInv, NextInv, PTL DEF Spec

\* Every reachable state has the types of TypeOK; the hard part is the progress
\* counter, which the coroutine never moves past the number of candidates.
THEOREM TypeCorrect == Spec => []TypeOK
<1>1. IInv => TypeOK
  BY DEF IInv
<1> QED
  BY Invariant, <1>1, PTL

\* No write of the coroutine or of a restarted server persists a stale ranking,
\* wherever crashes and I/O errors fall.
THEOREM RanksAlwaysCurrent == Spec => []RanksAreCurrent
<1>1. IInv => RanksAreCurrent
  BY DEF IInv, Ranked, RanksAreCurrent
<1> QED
  BY Invariant, <1>1, PTL

\* A closed experiment is never rewritten, by a coroutine that outlived it or by
\* the reconciliation of a restart.
LEMMA ClosedStep == IInv /\ [Next]_vars => (row.status \in Final => row' = row)
<1> SUFFICES ASSUME IInv, [Next]_vars, row.status \in Final PROVE row' = row
  OBVIOUS
<1>1. pc.at = "none" /\ row.status \notin Open \cup {"none"}
  BY DEF IInv, ClosedIsIdle, Final, Open
<1>2. NoExperiment.status = "none"
  BY DEF NoExperiment
<1>3. CASE Coroutine
  BY <1>1, <1>3 DEF Coroutine, Begin, CreateJob, RecordJob, RunJobReturns, RunJobRefused, FailPhase,
     NextPhase, ScoreCandidate, Select, TestReturns, Conclude, WriteFile, Running
<1>4. CASE Executor
  BY <1>4 DEF Executor, JobStarts, JobFinishes
<1>5. CASE Create \/ RunJobRaises \/ CancelJob
  BY <1>1, <1>2, <1>5 DEF Create, RunJobRaises, CancelJob
<1>6. CASE Crash \/ Restart \/ ReconcileJobs
  BY <1>6 DEF Crash, Restart, ReconcileJobs
<1>7. CASE ReconcileExperiment
  BY <1>1, <1>7 DEF ReconcileExperiment, Abandoned
<1>8. CASE UNCHANGED vars
  BY <1>8 DEF vars
<1> QED
  BY <1>3, <1>4, <1>5, <1>6, <1>7, <1>8 DEF Next

THEOREM ClosedAlwaysStaysClosed == Spec => ClosedStaysClosed
BY Invariant, ClosedStep, PTL DEF Spec, ClosedStaysClosed

(***************************************************************************)
(* The best is on the frontier: of those with the best score, the cheapest.  *)
(***************************************************************************)
\* Somebody among the candidates of a set that is not empty is the cheapest.
LEMMA Cheapest ==
    ASSUME NEW runs \in [Runs -> Candidate], NEW B \in SUBSET Runs, B # {}
    PROVE  \E r \in B : \A q \in B : runs[r].metrics.cost <= runs[q].metrics.cost
<1> DEFINE cost(r) == runs[r].metrics.cost
           cheaper(r) == {q \in B : cost(q) < cost(r)}
           counts == {Cardinality(cheaper(r)) : r \in B}
<1>1. \A r \in B : cost(r) \in Int
  BY DEF Candidate
<1>2. IsFiniteSet(B)
  BY RunsFinite, FS_Subset
<1>3. \A r \in B : IsFiniteSet(cheaper(r)) /\ Cardinality(cheaper(r)) \in Nat
  <2> TAKE r \in B
  <2>1. cheaper(r) \subseteq B
    OBVIOUS
  <2> QED
    BY <1>2, <2>1, FS_Subset, FS_CardinalityType
<1>4. counts \in SUBSET Nat /\ counts # {}
  BY <1>3
<1>5. PICK m \in counts : \A n \in counts : m <= n
  <2> HIDE DEF counts
  <2> QED
    BY <1>4, LeastNatural
<1>6. PICK r \in B : m = Cardinality(cheaper(r))
  BY <1>5
<1>7. \A q \in B : Cardinality(cheaper(r)) <= Cardinality(cheaper(q))
  BY <1>5, <1>6
<1>8. \A q \in B : cost(r) <= cost(q)
  <2> SUFFICES ASSUME NEW q \in B, cost(q) < cost(r) PROVE FALSE
    BY <1>1
  <2>1. cheaper(q) \subseteq cheaper(r) /\ q \in cheaper(r) /\ q \notin cheaper(q)
    BY <1>1
  <2> HIDE DEF cheaper
  <2>2. /\ Cardinality(cheaper(q)) <= Cardinality(cheaper(r))
        /\ Cardinality(cheaper(q)) = Cardinality(cheaper(r)) => cheaper(q) = cheaper(r)
    BY <1>3, <2>1, FS_Subset
  <2>3. Cardinality(cheaper(q)) \in Nat /\ Cardinality(cheaper(r)) \in Nat
    BY <1>3
  <2> QED
    BY <1>7, <2>1, <2>2, <2>3
<1> QED
  BY <1>8

\* The cheapest of those with the best score is dominated by nobody.
LEMMA BestOnFrontier ==
    ASSUME NEW runs \in [Runs -> Candidate], NEW top \in Runs, Rank(runs, top) = 1
    PROVE  \E r \in Runs :
              /\ OnFrontier(runs, r)
              /\ \A q \in Eligible(runs) : runs[q].metrics.score <= runs[r].metrics.score
<1> DEFINE score(r) == runs[r].metrics.score
           ahead == {q \in Eligible(runs) : Precedes(runs, q, top)}
           B == {q \in Eligible(runs) : score(q) = score(top)}
<1>1. \A r \in Runs : score(r) \in Int /\ runs[r].metrics.cost \in Int
  BY DEF Candidate
<1>2. Eligible(runs) \subseteq Runs
  BY DEF Eligible
<1>3. top \in Eligible(runs) /\ 1 + Cardinality(ahead) = 1
  BY DEF Rank
<1>4. ahead = {}
  <2>1. IsFiniteSet(ahead)
    BY <1>2, RunsFinite, FS_Subset
  <2> QED
    BY <1>3, <2>1, FS_CardinalityType, FS_EmptySet
<1>5. \A q \in Eligible(runs) : score(q) <= score(top)
  BY <1>1, <1>2, <1>4 DEF Precedes
<1>6. B \in SUBSET Runs /\ B # {}
  BY <1>2, <1>3
<1>7. PICK r \in B : \A q \in B : runs[r].metrics.cost <= runs[q].metrics.cost
  BY <1>6, Cheapest
<1>8. r \in Runs /\ r \in Eligible(runs) /\ score(r) = score(top)
  BY <1>2, <1>7
<1>9. ASSUME NEW q \in Eligible(runs), Dominates(runs[q].metrics, runs[r].metrics)
      PROVE  FALSE
  <2>1. score(q) = score(r)
    BY <1>1, <1>2, <1>5, <1>8, <1>9 DEF Dominates
  <2>2. q \in B
    BY <1>8, <2>1
  <2> QED
    BY <1>1, <1>2, <1>7, <1>8, <1>9, <2>1, <2>2 DEF Dominates
<1>10. OnFrontier(runs, r)
  BY <1>8, <1>9 DEF OnFrontier
<1> QED
  BY <1>5, <1>8, <1>10

\* Whoever has the best score, somebody as good is on the frontier of every
\* record ever persisted, for any number of candidates with equal metrics.
THEOREM BestIsAlwaysOnTheFrontier == Spec => []TheBestIsOnTheFrontier
<1>1. IInv => TheBestIsOnTheFrontier
  <2> SUFFICES ASSUME IInv, NEW top \in Runs, row.runs[top].rank = 1
               PROVE  \E r \in Runs :
                        /\ row.runs[r].pareto
                        /\ \A q \in Eligible(row.runs) :
                              row.runs[q].metrics.score <= row.runs[r].metrics.score
    BY DEF TheBestIsOnTheFrontier
  <2> DEFINE runs == row.runs
  <2>1. runs \in [Runs -> Candidate] /\ runs = Evaluated(runs)
    BY DEF IInv, TypeOK, Experiment, Ranked
  <2> HIDE DEF runs
  <2>2. \A r \in Runs : runs[r].rank = Rank(runs, r) /\ runs[r].pareto = OnFrontier(runs, r)
    BY <2>1, EvaluatedType
  <2>3. Rank(runs, top) = 1
    BY <2>2 DEF runs
  <2>4. PICK r \in Runs :
           /\ OnFrontier(runs, r)
           /\ \A q \in Eligible(runs) : runs[q].metrics.score <= runs[r].metrics.score
    BY <2>1, <2>3, BestOnFrontier
  <2>5. runs[r].pareto
    BY <2>2, <2>4
  <2> QED
    BY <2>4, <2>5 DEF runs
<1> QED
  BY Invariant, <1>1, PTL

(***************************************************************************)
(* The order of the plan and the truth of the final status.                 *)
(***************************************************************************)
Statuses == {"none", "queued", "running", "cancelling"} \cup Terminal

\* b is a later state of the jobs a; none was created and the verdicts stand.
Advanced(a, b) ==
    \A j \in Jobs : \/ b[j] = a[j]
                    \/ a[j] \in {"queued", "running", "cancelling"} /\ b[j] # "none"

\* The jobs js, after f I/O errors, follow the plan.
Ordered(js, f) ==
    /\ \A r \in Runs, p \in Plan : js[<<r, p>>] # "none" =>
          \A q \in Plan : q < p => js[<<r, q>>] = "succeeded"
    /\ f = 0 =>
          \A r, i \in Runs, p, q \in Plan : i < r /\ js[<<r, p>>] # "none" =>
             js[<<i, q>>] \in Terminal \cup {"none"}
    /\ \A r, q \in Runs : js[<<r, TEST>>] # "none" /\ q # r => js[<<q, TEST>>] = "none"

Busy(n) == InPhase(n) \/ n.at \in {"select", "conclude"}
Planned(n) == InPhase(n) /\ n.phase # TEST

\* The candidates that have their verdict when the coroutine stands at n.
Judged(n) == {r \in Runs : Planned(n) => r < n.run}

\* The jobs when the coroutine stands at the point n.
JobsAt(js, f, n) ==
    /\ Planned(n) =>
          /\ \A q \in Plan : q < n.phase => js[<<n.run, q>>] = "succeeded"
          /\ \A p \in Plan : p > n.phase => js[<<n.run, p>>] = "none"
          /\ \A r \in Runs, p \in Plan : r > n.run => js[<<r, p>>] = "none"
    /\ Planned(n) \/ n.at = "select" => \A r \in Runs : js[<<r, TEST>>] = "none"
    /\ InPhase(n) => \A r \in Runs : r # n.run => js[<<r, TEST>>] = "none"
    /\ f = 0 =>
          /\ n.at # "raised"
          /\ n.at = "failing" => js[<<n.run, n.phase>>] = "cancelled"
          /\ n.at = "decide" => js[<<n.run, n.phase>>] \in Terminal
          /\ Busy(n) => \A r \in Judged(n) :
                /\ \A p \in Plan : js[<<r, p>>] \in Terminal \cup {"none"}
                /\ js[<<r, 1>>] \in Terminal

\* The record e of the coroutine and the persisted one, w, when it stands at n.
RecordAt(js, e, w, n) ==
    /\ Busy(n) =>
          /\ w.status = "running"
          /\ \A r \in Judged(n) : e.runs[r].status \in Terminal
          /\ \A r \in Runs : e.runs[r].status = "succeeded" =>
                \A p \in Plan : js[<<r, p>>] = "succeeded"
    /\ n.at = "decide" /\ e.runs[n.run].phases[n.phase] = "succeeded" =>
          js[<<n.run, n.phase>>] = "succeeded"
    /\ n.at = "select" => w.completed = RunCount /\ w.runs = e.runs
    /\ InPhase(n) /\ n.phase = TEST =>
          w.completed = RunCount /\ w.runs[n.run].rank = 1 /\ e.runs[n.run].rank = 1
    /\ n.at = "conclude" => \A r \in Runs : js[<<r, TEST>>] # "none" =>
          /\ e.runs[r].rank = 1
          /\ e.runs[r].phases[TEST] \in Terminal
          /\ e.runs[r].phases[TEST] = "succeeded" => js[<<r, TEST>>] = "succeeded"

\* What a record w says of its test and of jobs that do not exist yet.
Backed(js, w) ==
    /\ \A r \in Runs : js[<<r, TEST>>] # "none" => w.completed = RunCount /\ w.runs[r].rank = 1
    /\ w.status \in {"none", "queued"} => \A j \in Jobs : js[j] = "none"

\* A closed record w is true, after c crashes and f I/O errors.
Truthful(js, w, c, f) ==
    w.status \in Final =>
        /\ \A r \in Runs : w.runs[r].status \in Terminal
        /\ w.status = "succeeded" =>
              \A j \in Jobs : js[j] = "succeeded" \/ (j[2] = TEST /\ js[j] = "none")
        /\ w.status = "completed_with_errors" =>
              \E r \in Runs : w.runs[r].status = "succeeded"
        /\ w.status = "failed" /\ c = 0 => \A r \in Runs : w.runs[r].status # "succeeded"
        /\ c = 0 /\ f = 0 => \A r \in Runs : js[<<r, 1>>] \in Terminal

Holder == slot # NoJob => pc.at = "await" /\ ~pc.writing /\ slot = job

Attended ==
    /\ pc.at # "none" => server = "serving"
    /\ crashes = 0 => server = "serving"
    /\ server = "serving" /\ faults = 0 /\ pc.at = "none" => row.status \notin Open

PlanInv ==
    /\ Ordered(jobs, faults) /\ Backed(jobs, row) /\ Truthful(jobs, row, crashes, faults)
    /\ JobsAt(jobs, faults, pc) /\ RecordAt(jobs, live, row, pc)
    /\ Holder /\ Attended

LEMMA PlanFacts ==
    /\ PlanLength \in Nat \ {0} /\ 1 \in Plan /\ Plan \subseteq Nat /\ TEST \notin Plan
    /\ RunCount \in Nat \ {0} /\ Runs \subseteq Nat
    /\ \A r \in Runs, p \in Phases : <<r, p>> \in Jobs
    /\ Plan \subseteq Phases /\ TEST \in Phases
BY ExperimentsAssumption DEF PlanLength, Plan, TEST, Runs, Jobs, Phases

LEMMA NowhereIsIdle == Nowhere.at = "none" /\ ~Busy(Nowhere) /\ ~InPhase(Nowhere) /\ ~Planned(Nowhere)
BY DEF Nowhere, At, Busy, InPhase, Planned

(***************************************************************************)
(* The jobs move on under the coroutine.                                    *)
(***************************************************************************)
LEMMA VerdictsStand ==
    ASSUME NEW a, NEW b, Advanced(a, b), NEW r \in Runs, NEW p \in Phases
    PROVE  /\ a[<<r, p>>] = "none" <=> b[<<r, p>>] = "none"
           /\ a[<<r, p>>] = "succeeded" => b[<<r, p>>] = "succeeded"
           /\ a[<<r, p>>] = "cancelled" => b[<<r, p>>] = "cancelled"
           /\ a[<<r, p>>] \in Terminal => b[<<r, p>>] \in Terminal
<1>1. <<r, p>> \in Jobs
  BY PlanFacts
<1>2. \/ b[<<r, p>>] = a[<<r, p>>]
      \/ a[<<r, p>>] \in {"queued", "running", "cancelling"} /\ b[<<r, p>>] # "none"
  BY <1>1 DEF Advanced
<1> QED
  BY <1>2 DEF Terminal

LEMMA OrderKept ==
    ASSUME NEW a, NEW b, Advanced(a, b), NEW f, NEW g, g = 0 => f = 0, Ordered(a, f)
    PROVE  Ordered(b, g)
<1>1. Plan \subseteq Phases /\ TEST \in Phases
  BY PlanFacts
<1>2. ASSUME NEW r \in Runs, NEW p \in Plan, b[<<r, p>>] # "none", NEW q \in Plan, q < p
      PROVE  b[<<r, q>>] = "succeeded"
  <2>1. a[<<r, p>>] # "none"
    BY <1>1, <1>2, VerdictsStand
  <2>2. a[<<r, q>>] = "succeeded"
    BY <1>2, <2>1 DEF Ordered
  <2> QED
    BY <1>1, <2>2, VerdictsStand
<1>3. ASSUME g = 0, NEW r \in Runs, NEW i \in Runs, NEW p \in Plan, NEW q \in Plan,
             i < r, b[<<r, p>>] # "none"
      PROVE  b[<<i, q>>] \in Terminal \cup {"none"}
  <2>1. a[<<r, p>>] # "none"
    BY <1>1, <1>3, VerdictsStand
  <2>2. a[<<i, q>>] \in Terminal \cup {"none"}
    BY <1>3, <2>1 DEF Ordered
  <2> QED
    BY <1>1, <2>2, VerdictsStand
<1>4. ASSUME NEW r \in Runs, NEW q \in Runs, b[<<r, TEST>>] # "none", q # r
      PROVE  b[<<q, TEST>>] = "none"
  <2>1. a[<<r, TEST>>] # "none"
    BY <1>1, <1>4, VerdictsStand
  <2>2. a[<<q, TEST>>] = "none"
    BY <1>4, <2>1 DEF Ordered
  <2> QED
    BY <1>1, <2>2, VerdictsStand
<1> QED
  BY <1>2, <1>3, <1>4 DEF Ordered

LEMMA PointKept ==
    ASSUME NEW a, NEW b, Advanced(a, b), NEW f, NEW g, g = 0 => f = 0,
           NEW e, NEW w, NEW n \in PcRecord, JobsAt(a, f, n), RecordAt(a, e, w, n)
    PROVE  JobsAt(b, g, n) /\ RecordAt(b, e, w, n)
<1>1. /\ n.run \in Runs /\ n.phase \in Phases /\ Judged(n) \subseteq Runs
      /\ Plan \subseteq Phases /\ TEST \in Phases /\ 1 \in Phases
  BY PlanFacts DEF PcRecord, Judged
<1>2. \A r \in Runs, p \in Phases :
         /\ a[<<r, p>>] = "none" <=> b[<<r, p>>] = "none"
         /\ a[<<r, p>>] = "succeeded" => b[<<r, p>>] = "succeeded"
         /\ a[<<r, p>>] \in Terminal => b[<<r, p>>] \in Terminal
  BY VerdictsStand
<1>3. Planned(n) => /\ \A q \in Plan : q < n.phase => b[<<n.run, q>>] = "succeeded"
                    /\ \A p \in Plan : p > n.phase => b[<<n.run, p>>] = "none"
                    /\ \A r \in Runs, p \in Plan : r > n.run => b[<<r, p>>] = "none"
  BY <1>1, <1>2 DEF JobsAt
<1>4. /\ Planned(n) \/ n.at = "select" => \A r \in Runs : b[<<r, TEST>>] = "none"
      /\ InPhase(n) => \A r \in Runs : r # n.run => b[<<r, TEST>>] = "none"
  BY <1>1, <1>2 DEF JobsAt
<1>5. ASSUME g = 0
      PROVE  /\ n.at # "raised"
             /\ n.at = "failing" => b[<<n.run, n.phase>>] = "cancelled"
             /\ n.at = "decide" => b[<<n.run, n.phase>>] \in Terminal
             /\ Busy(n) => \A r \in Judged(n) :
                   /\ \A p \in Plan : b[<<r, p>>] \in Terminal \cup {"none"}
                   /\ b[<<r, 1>>] \in Terminal
  <2>1. f = 0
    BY <1>5
  <2>2. n.at # "raised" /\ (n.at = "failing" => b[<<n.run, n.phase>>] = "cancelled")
    <3>1. n.at # "raised" /\ (n.at = "failing" => a[<<n.run, n.phase>>] = "cancelled")
      BY <2>1 DEF JobsAt
    <3> QED
      BY <1>1, <3>1, VerdictsStand
  <2>3. n.at = "decide" => b[<<n.run, n.phase>>] \in Terminal
    BY <1>1, <1>2, <2>1 DEF JobsAt
  <2>4. ASSUME Busy(n), NEW r \in Judged(n)
        PROVE  /\ \A p \in Plan : b[<<r, p>>] \in Terminal \cup {"none"}
               /\ b[<<r, 1>>] \in Terminal
    <3>1. /\ \A p \in Plan : a[<<r, p>>] \in Terminal \cup {"none"}
          /\ a[<<r, 1>>] \in Terminal
      BY <2>1, <2>4 DEF JobsAt
    <3> QED
      BY <1>1, <1>2, <3>1
  <2> QED
    BY <2>2, <2>3, <2>4
<1>6. JobsAt(b, g, n)
  BY <1>3, <1>4, <1>5 DEF JobsAt
<1>7. RecordAt(b, e, w, n)
  <2>1. Busy(n) => \A r \in Runs : e.runs[r].status = "succeeded" =>
                      \A p \in Plan : b[<<r, p>>] = "succeeded"
    BY <1>1, <1>2 DEF RecordAt
  <2>2. n.at = "decide" /\ e.runs[n.run].phases[n.phase] = "succeeded" =>
           b[<<n.run, n.phase>>] = "succeeded"
    BY <1>1, <1>2 DEF RecordAt
  <2>3. n.at = "conclude" => \A r \in Runs : b[<<r, TEST>>] # "none" =>
          /\ e.runs[r].rank = 1
          /\ e.runs[r].phases[TEST] \in Terminal
          /\ e.runs[r].phases[TEST] = "succeeded" => b[<<r, TEST>>] = "succeeded"
    BY <1>1, <1>2 DEF RecordAt
  <2> QED
    BY <2>1, <2>2, <2>3 DEF RecordAt
<1> QED
  BY <1>6, <1>7

LEMMA RowKept ==
    ASSUME NEW a, NEW b, Advanced(a, b), NEW w, NEW c, NEW d, NEW f, NEW g,
           g = 0 => f = 0, d = 0 => c = 0, Backed(a, w), Truthful(a, w, c, f)
    PROVE  Backed(b, w) /\ Truthful(b, w, d, g)
<1>1. Plan \subseteq Phases /\ TEST \in Phases /\ 1 \in Phases
  BY PlanFacts
<1>2. \A r \in Runs, p \in Phases :
         /\ a[<<r, p>>] = "none" <=> b[<<r, p>>] = "none"
         /\ a[<<r, p>>] = "succeeded" => b[<<r, p>>] = "succeeded"
         /\ a[<<r, p>>] \in Terminal => b[<<r, p>>] \in Terminal
  BY VerdictsStand
<1>3. \A j \in Jobs : a[j] \in Terminal \cup {"none"} => b[j] = a[j]
  BY DEF Advanced, Terminal
<1>4. Backed(b, w)
  BY <1>1, <1>2, <1>3 DEF Backed
<1>5. Truthful(b, w, d, g)
  BY <1>1, <1>2, <1>3 DEF Truthful, Terminal
<1> QED
  BY <1>4, <1>5

\* The writing flag of a point does not matter.
LEMMA SamePoint ==
    ASSUME NEW js, NEW f, NEW e, NEW w, NEW m, NEW n,
           n.at = m.at, n.run = m.run, n.phase = m.phase,
           JobsAt(js, f, m), RecordAt(js, e, w, m)
    PROVE  JobsAt(js, f, n) /\ RecordAt(js, e, w, n)
<1>1. InPhase(n) = InPhase(m) /\ Busy(n) = Busy(m) /\ Planned(n) = Planned(m)
  BY DEF InPhase, Busy, Planned
<1>2. Judged(n) = Judged(m)
  BY <1>1 DEF Judged
<1> QED
  BY <1>1, <1>2 DEF JobsAt, RecordAt

\* Where an exception of a write takes the coroutine.
LEMMA HandlerPoint ==
    ASSUME NEW js, NEW f, NEW g, g # 0, NEW e, NEW w, NEW n \in PcRecord, JobsAt(js, f, n),
           n.at \in {"await", "decide"} => RecordAt(js, e, w, n)
    PROVE  JobsAt(js, g, Handler(n)) /\ RecordAt(js, e, w, Handler(n))
<1> DEFINE h == Handler(n)
<1>1. CASE n.at = "await" \/ (n.at = "decide" /\ n.phase # TEST)
  <2>1. /\ h.at \in {"failing", "raised"} /\ h.run = n.run /\ h.phase = n.phase
        /\ n.at \in {"await", "decide"}
    BY <1>1 DEF Handler, At
  <2> HIDE DEF h
  <2>2. /\ InPhase(n) /\ InPhase(h) /\ Busy(n) /\ Busy(h) /\ (Planned(n) <=> Planned(h))
        /\ h.at \notin {"decide", "select", "conclude"}
    BY <2>1 DEF InPhase, Busy, Planned
  <2>3. Judged(n) = Judged(h)
    BY <2>1, <2>2 DEF Judged
  <2>4. JobsAt(js, g, h)
    BY <2>1, <2>2 DEF JobsAt
  <2>5. RecordAt(js, e, w, h)
    BY <2>1, <2>2, <2>3 DEF RecordAt
  <2> QED
    BY <2>4, <2>5 DEF h
<1>2. CASE ~(n.at = "await" \/ (n.at = "decide" /\ n.phase # TEST))
  <2>1. h = Nowhere
    BY <1>2 DEF Handler
  <2> QED
    BY <2>1, NowhereIsIdle DEF JobsAt, RecordAt
<1> QED
  BY <1>1, <1>2

LEMMA FaultCounts ==
    ASSUME TypeOK
    PROVE  /\ IOError => faults' # 0
           /\ faults' = faults \/ IOError => (faults' = 0 => faults = 0)
BY ExperimentsAssumption DEF TypeOK, IOError

LEMMA SaveCounts ==
    ASSUME TypeOK, NEW e, NEW n, Save(e, n)
    PROVE  faults' = 0 => faults = 0
BY FaultCounts DEF Save

LEMMA NotAwaiting ==
    ASSUME Holder, pc.at # "await" \/ pc.writing
    PROVE  slot = NoJob
BY DEF Holder

LEMMA Unmoved == Advanced(jobs, jobs)
BY DEF Advanced

\* A write of the record e before the point n.
LEMMA SavePlan ==
    ASSUME IInv, PlanInv, NEW e, NEW n \in PcRecord, Save(e, n),
           pc.at # "none", n.at # "none", e.status = "running",
           JobsAt(jobs, faults, n), RecordAt(jobs, e, e, n), Backed(jobs, e),
           n.at \in {"await", "decide"} => RecordAt(jobs, e, row, n),
           slot' = NoJob, UNCHANGED <<jobs, server, crashes>>
    PROVE  PlanInv'
<1>0. TypeOK
  BY DEF IInv
<1>1. live' = e /\ jobs' = jobs /\ crashes' = crashes /\ server' = "serving"
  BY DEF Save, PlanInv, Attended
<1>2. faults' = 0 => faults = 0
  BY <1>0, SaveCounts
<1>3. Ordered(jobs', faults') /\ Holder'
  BY <1>1, <1>2, Unmoved, OrderKept DEF PlanInv, Holder
<1>4. CASE row' = e /\ pc' = [n EXCEPT !.writing = TRUE] /\ UNCHANGED faults
  <2>1. pc'.at = n.at /\ pc'.run = n.run /\ pc'.phase = n.phase
    BY <1>4 DEF PcRecord
  <2>2. JobsAt(jobs', faults', pc') /\ RecordAt(jobs', live', row', pc')
    <3>1. JobsAt(jobs, faults, pc') /\ RecordAt(jobs, e, e, pc')
      BY <2>1, SamePoint
    <3> QED
      BY <1>1, <1>4, <3>1
  <2>3. Backed(jobs', row') /\ Truthful(jobs', row', crashes', faults')
    BY <1>1, <1>4 DEF Truthful, Final
  <2>4. Attended'
    BY <1>1, <2>1 DEF Attended
  <2> QED
    BY <1>3, <2>2, <2>3, <2>4 DEF PlanInv
<1>5. CASE IOError /\ pc' = Handler(n) /\ UNCHANGED row
  <2>1. faults' # 0
    BY <1>0, <1>5, FaultCounts
  <2>2. JobsAt(jobs', faults', pc') /\ RecordAt(jobs', live', row', pc')
    <3>1. JobsAt(jobs, faults', Handler(n)) /\ RecordAt(jobs, e, row, Handler(n))
      BY <2>1, HandlerPoint
    <3> QED
      BY <1>1, <1>5, <3>1
  <2>3. Backed(jobs', row') /\ Truthful(jobs', row', crashes', faults')
    BY <1>1, <1>2, <1>5, Unmoved, RowKept DEF PlanInv
  <2>4. Attended'
    BY <1>1, <2>1 DEF Attended
  <2> QED
    BY <1>3, <2>2, <2>3, <2>4 DEF PlanInv
<1> QED
  BY <1>4, <1>5 DEF Save

\* In a phase the only job of a test is that of the current candidate, whose rank
\* a record keeps.
LEMMA BackedInPhase ==
    ASSUME IInv, PlanInv, InPhase(pc), NEW e, e.status = "running",
           e.completed = live.completed, e.runs[pc.run].rank = live.runs[pc.run].rank
    PROVE  Backed(jobs, e)
<1>1. JobsAt(jobs, faults, pc) /\ RecordAt(jobs, live, row, pc) /\ Position(live, pc)
  BY DEF PlanInv, IInv
<1>2. ASSUME NEW r \in Runs, jobs[<<r, TEST>>] # "none"
      PROVE  e.completed = RunCount /\ e.runs[r].rank = 1
  <2>1. r = pc.run /\ ~Planned(pc)
    BY <1>1, <1>2 DEF JobsAt
  <2>2. pc.phase = TEST
    BY <2>1 DEF Planned
  <2> QED
    BY <1>1, <2>1, <2>2 DEF RecordAt, Position
<1> QED
  BY <1>2 DEF Backed

LEMMA BusyParts ==
    ASSUME IInv, PlanInv
    PROVE  /\ TypeOK /\ CoreInv /\ RestType /\ pc \in PcRecord /\ pc.run \in Runs
           /\ pc.phase \in Phases /\ Position(live, pc)
           /\ Ordered(jobs, faults) /\ Backed(jobs, row)
           /\ Truthful(jobs, row, crashes, faults)
           /\ JobsAt(jobs, faults, pc) /\ RecordAt(jobs, live, row, pc)
           /\ Holder /\ Attended
BY InvParts DEF PlanInv, IInv, CoreInv, PcRecord

\* A write between two points of a phase: the current phase alone changes.
LEMMA PhaseWritePlan ==
    ASSUME IInv, PlanInv, InPhase(pc), pc.at # "raised",
           NEW e, e.status = live.status, e.completed = live.completed,
           \A q \in Runs : /\ q # pc.run => e.runs[q].status = live.runs[q].status
                           /\ e.runs[q].rank = live.runs[q].rank,
           e.runs[pc.run].status = live.runs[pc.run].status
              \/ (pc.phase # TEST /\ e.runs[pc.run].status = "running"),
           NEW point \in {"await", "decide"},
           point = "decide" =>
              /\ e.runs[pc.run].phases[pc.phase] = "succeeded" => jobs[job] = "succeeded"
              /\ faults = 0 => jobs[job] \in Terminal,
           Save(e, At(point, pc.run, pc.phase)),
           slot' = NoJob, UNCHANGED <<jobs, server, crashes>>
    PROVE  PlanInv'
<1> DEFINE n == At(point, pc.run, pc.phase)
<1>1. /\ pc \in PcRecord /\ pc.run \in Runs /\ Position(live, pc)
      /\ JobsAt(jobs, faults, pc) /\ RecordAt(jobs, live, row, pc) /\ pc.at # "none"
  BY BusyParts DEF InPhase
<1>2. /\ n \in PcRecord /\ n.at = point /\ n.run = pc.run /\ n.phase = pc.phase
      /\ n.at # "none" /\ n.at \notin {"select", "conclude", "failing", "raised"}
  BY <1>1 DEF At, PcRecord, Points
<1>3. Save(e, n)
  OBVIOUS
<1> HIDE DEF n
<1>4. /\ InPhase(n) /\ Busy(n) /\ Busy(pc) /\ (Planned(n) <=> Planned(pc))
      /\ Judged(n) = Judged(pc)
  BY <1>2 DEF InPhase, Busy, Planned, Judged
<1>5. e.status = "running" /\ row.status = "running"
  BY <1>1, <1>4 DEF Position, RecordAt
<1>6. JobsAt(jobs, faults, n)
  BY <1>1, <1>2, <1>4 DEF JobsAt, job
<1>7. \A r \in Judged(n) : e.runs[r].status \in Terminal
  <2> TAKE r \in Judged(n)
  <2>1. live.runs[r].status \in Terminal
    BY <1>1, <1>4 DEF RecordAt
  <2>2. r = pc.run => ~Planned(pc)
    BY <1>1, <1>4 DEF Judged, Runs
  <2>3. r \in Runs
    BY DEF Judged
  <2> QED
    BY <2>1, <2>2, <2>3 DEF Planned, InPhase
<1>8. \A r \in Runs : e.runs[r].status = "succeeded" => \A p \in Plan : jobs[<<r, p>>] = "succeeded"
  BY <1>1, <1>4 DEF RecordAt
<1>9. pc.phase = TEST => e.runs[pc.run].rank = 1 /\ row.completed = RunCount
                         /\ row.runs[pc.run].rank = 1 /\ e.completed = RunCount
  BY <1>1 DEF RecordAt, Position
<1>10. ASSUME NEW w, w.status = "running",
              pc.phase = TEST => w.completed = RunCount /\ w.runs[pc.run].rank = 1
       PROVE  RecordAt(jobs, e, w, n)
  BY <1>2, <1>4, <1>7, <1>8, <1>9, <1>10 DEF RecordAt, job
<1>11. RecordAt(jobs, e, e, n) /\ RecordAt(jobs, e, row, n)
  BY <1>5, <1>9, <1>10
<1>12. Backed(jobs, e)
  BY <1>1, <1>5, BackedInPhase
<1> QED
  BY <1>1, <1>2, <1>3, <1>5, <1>6, <1>11, <1>12, SavePlan

\* An exception inside _run_phase.
LEMMA RaisePlan ==
    ASSUME IInv, PlanInv, InPhase(pc), pc.at # "raised", IOError,
           pc' = [pc EXCEPT !.at = "failing"], slot' = NoJob,
           UNCHANGED <<jobs, live, row, server, crashes>>
    PROVE  PlanInv'
<1>1. /\ TypeOK /\ pc \in PcRecord /\ Ordered(jobs, faults) /\ Backed(jobs, row)
      /\ Truthful(jobs, row, crashes, faults) /\ JobsAt(jobs, faults, pc)
      /\ RecordAt(jobs, live, row, pc) /\ Attended
  BY BusyParts
<1>2. faults' # 0
  BY <1>1, FaultCounts
<1>3. Ordered(jobs', faults') /\ Backed(jobs', row') /\ Truthful(jobs', row', crashes', faults')
  BY <1>1, <1>2, Unmoved, OrderKept, RowKept
<1>4. pc'.at = "failing" /\ pc'.run = pc.run /\ pc'.phase = pc.phase
  BY <1>1 DEF PcRecord
<1>5. /\ InPhase(pc') /\ Busy(pc) /\ Busy(pc') /\ (Planned(pc) <=> Planned(pc'))
      /\ Judged(pc) = Judged(pc')
  BY <1>4 DEF InPhase, Busy, Planned, Judged
<1>6. JobsAt(jobs, faults', pc')
  BY <1>1, <1>2, <1>4, <1>5 DEF JobsAt
<1>7. RecordAt(jobs, live, row, pc')
  BY <1>1, <1>4, <1>5 DEF RecordAt
<1>8. Holder' /\ Attended'
  BY <1>1, <1>2, <1>4 DEF Holder, Attended, InPhase
<1> QED
  BY <1>3, <1>6, <1>7, <1>8 DEF PlanInv

\* A step of the coroutine that writes nothing.
LEMMA MovePlan ==
    ASSUME IInv, PlanInv, pc.at # "none", pc.at # "await", pc'.at # "none",
           JobsAt(jobs, faults, pc'), RecordAt(jobs, live', row, pc'),
           UNCHANGED <<jobs, slot, row, server, crashes, faults>>
    PROVE  PlanInv'
<1>1. Ordered(jobs', faults') /\ Backed(jobs', row') /\ Truthful(jobs', row', crashes', faults')
  BY BusyParts
<1>2. slot' = NoJob
  BY BusyParts, NotAwaiting
<1>3. Holder' /\ Attended'
  BY <1>2, BusyParts DEF Holder, Attended
<1> QED
  BY <1>1, <1>3 DEF PlanInv

\* The jobs move, the coroutine does not.
LEMMA JobsPlan ==
    ASSUME IInv, PlanInv, Advanced(jobs, jobs'), UNCHANGED <<live, row, pc, crashes, faults>>
    PROVE  /\ Ordered(jobs', faults') /\ Backed(jobs', row')
           /\ Truthful(jobs', row', crashes', faults')
           /\ JobsAt(jobs', faults', pc') /\ RecordAt(jobs', live', row', pc')
<1>1. Ordered(jobs', faults)
  BY BusyParts, OrderKept
<1>2. Backed(jobs', row) /\ Truthful(jobs', row, crashes, faults)
  BY BusyParts, RowKept
<1>3. JobsAt(jobs', faults, pc) /\ RecordAt(jobs', live, row, pc)
  BY BusyParts, PointKept
<1> QED
  BY <1>1, <1>2, <1>3

LEMMA RecordJobPlan == ASSUME IInv, PlanInv, RecordJob PROVE PlanInv'
<1>1. pc.at = "record" /\ InPhase(pc) /\ slot' = slot /\ UNCHANGED <<jobs, server, crashes>>
  BY DEF RecordJob, Running, InPhase, untouched, kept
<1>2. slot' = NoJob
  BY <1>1, BusyParts, NotAwaiting
<1>3. /\ Recorded.status = live.status /\ Recorded.completed = live.completed
      /\ \A q \in Runs : /\ q # pc.run => Recorded.runs[q].status = live.runs[q].status
                        /\ Recorded.runs[q].rank = live.runs[q].rank
      /\ pc.phase = TEST => Recorded.runs[pc.run].status = live.runs[pc.run].status
      /\ pc.phase # TEST => Recorded.runs[pc.run].status = "running"
  BY <1>1, BusyParts, RecordedStep DEF CoreInv, Ranked
<1>4. Save(Recorded, At("await", pc.run, pc.phase))
  BY DEF RecordJob
<1> QED
  BY <1>1, <1>2, <1>3, <1>4, PhaseWritePlan

LEMMA PhaseEndsPlan ==
    ASSUME IInv, PlanInv, InPhase(pc), pc.at # "raised", NEW status \in Terminal,
           status = "succeeded" => jobs[job] = "succeeded",
           faults = 0 => jobs[job] \in Terminal,
           Save(SetPhase(status), At("decide", pc.run, pc.phase)),
           slot' = NoJob, UNCHANGED <<jobs, server, crashes>>
    PROVE  PlanInv'
<1>1. /\ SetPhase(status).status = live.status
      /\ SetPhase(status).completed = live.completed
      /\ \A q \in Runs : /\ SetPhase(status).runs[q].status = live.runs[q].status
                        /\ SetPhase(status).runs[q].rank = live.runs[q].rank
      /\ SetPhase(status).runs[pc.run].phases[pc.phase] = status
  BY BusyParts, SetPhaseStep DEF CoreInv, Ranked
<1>2. pc.run \in Runs
  BY BusyParts
<1> QED
  BY <1>1, <1>2, PhaseWritePlan

LEMMA FailPhasePlan == ASSUME IInv, PlanInv, FailPhase PROVE PlanInv'
<1>1. pc.at = "failing" /\ InPhase(pc) /\ slot' = slot /\ UNCHANGED <<jobs, server, crashes>>
  BY DEF FailPhase, Running, InPhase, untouched, kept
<1>2. slot' = NoJob
  BY <1>1, BusyParts, NotAwaiting
<1>3. faults = 0 => jobs[job] = "cancelled"
  BY <1>1, BusyParts DEF JobsAt, job
<1>4. Save(SetPhase("failed"), At("decide", pc.run, pc.phase))
  BY DEF FailPhase
<1> QED
  BY <1>1, <1>2, <1>3, <1>4, PhaseEndsPlan DEF Terminal

LEMMA RunJobReturnsPlan == ASSUME IInv, PlanInv, RunJobReturns PROVE PlanInv'
<1>1. /\ InPhase(pc) /\ pc.at # "raised" /\ slot' = NoJob /\ UNCHANGED <<jobs, server, crashes>>
      /\ jobs[job] \in Terminal
  BY DEF RunJobReturns, Running, InPhase, kept
<1>2. CASE Save(SetPhase(jobs[job]), At("decide", pc.run, pc.phase))
  BY <1>1, <1>2, PhaseEndsPlan
<1>3. CASE IOError /\ pc' = [pc EXCEPT !.at = "failing"] /\ UNCHANGED <<live, row>>
  BY <1>1, <1>3, RaisePlan
<1> QED
  BY <1>2, <1>3 DEF RunJobReturns

LEMMA RunJobRaisesPlan == ASSUME IInv, PlanInv, RunJobRaises PROVE PlanInv'
BY RaisePlan DEF RunJobRaises, Running, InPhase, untouched, kept, Contract!Release

\* The job that was refused was cancelled.
LEMMA RunJobRefusedPlan == ASSUME IInv, PlanInv, RunJobRefused PROVE PlanInv'
<1>1. /\ pc.at = "await" /\ slot = NoJob /\ jobs[<<pc.run, pc.phase>>] = "cancelled"
      /\ pc' = [pc EXCEPT !.at = "failing"]
      /\ UNCHANGED <<jobs, slot, live, row, server, crashes, faults>>
  BY DEF RunJobRefused, Running, untouched, kept, job
<1>2. /\ pc \in PcRecord /\ Ordered(jobs, faults) /\ Backed(jobs, row)
      /\ Truthful(jobs, row, crashes, faults) /\ JobsAt(jobs, faults, pc)
      /\ RecordAt(jobs, live, row, pc) /\ Attended
  BY BusyParts
<1>3. pc'.at = "failing" /\ pc'.run = pc.run /\ pc'.phase = pc.phase
  BY <1>1, <1>2 DEF PcRecord
<1>4. /\ InPhase(pc) /\ InPhase(pc') /\ Busy(pc) /\ Busy(pc')
      /\ (Planned(pc) <=> Planned(pc')) /\ Judged(pc) = Judged(pc')
  BY <1>1, <1>3 DEF InPhase, Busy, Planned, Judged
<1>5. JobsAt(jobs, faults, pc')
  BY <1>1, <1>2, <1>3, <1>4 DEF JobsAt
<1>6. RecordAt(jobs, live, row, pc')
  BY <1>2, <1>3, <1>4 DEF RecordAt
<1>7. Holder' /\ Attended'
  BY <1>1, <1>2, <1>3 DEF Holder, Attended
<1> QED
  BY <1>1, <1>2, <1>5, <1>6, <1>7 DEF PlanInv

LEMMA NextPhasePlan == ASSUME IInv, PlanInv, NextPhase PROVE PlanInv'
<1> DEFINE n == At("create", pc.run, pc.phase + 1)
<1>1. /\ pc.at = "decide" /\ pc.phase \in 1..(PlanLength - 1) /\ PhaseSucceeded /\ pc' = n
      /\ UNCHANGED <<jobs, slot, live, row, server, crashes, faults>>
  BY DEF NextPhase, Running, untouched, kept
<1>2. /\ pc.run \in Runs /\ JobsAt(jobs, faults, pc) /\ RecordAt(jobs, live, row, pc)
  BY BusyParts
<1>3. /\ pc.phase \in Plan /\ pc.phase \in Nat /\ pc.phase # TEST /\ pc.phase + 1 # TEST
      /\ Plan \subseteq Nat
  BY <1>1, PlanFacts DEF TEST, Plan
<1>4. n.at = "create" /\ n.run = pc.run /\ n.phase = pc.phase + 1
  BY DEF At
<1> HIDE DEF n
<1>5. /\ InPhase(n) /\ InPhase(pc) /\ Busy(n) /\ Busy(pc) /\ Planned(n) /\ Planned(pc)
      /\ Judged(n) = Judged(pc)
  BY <1>1, <1>3, <1>4 DEF InPhase, Busy, Planned, Judged
<1>6. jobs[<<pc.run, pc.phase>>] = "succeeded"
  BY <1>1, <1>2 DEF RecordAt, PhaseSucceeded
<1>7. JobsAt(jobs, faults, n)
  <2>1. \A q \in Plan : q < n.phase => jobs[<<n.run, q>>] = "succeeded"
    <3> TAKE q \in Plan
    <3>1. q < n.phase => q < pc.phase \/ q = pc.phase
      BY <1>3, <1>4
    <3> QED
      BY <1>2, <1>4, <1>5, <1>6, <3>1 DEF JobsAt
  <2>2. \A p \in Plan : p > n.phase => jobs[<<n.run, p>>] = "none"
    BY <1>2, <1>3, <1>4, <1>5 DEF JobsAt
  <2>3. \A r \in Runs, p \in Plan : r > n.run => jobs[<<r, p>>] = "none"
    BY <1>2, <1>4, <1>5 DEF JobsAt
  <2> QED
    BY <1>2, <1>4, <1>5, <2>1, <2>2, <2>3 DEF JobsAt
<1>8. RecordAt(jobs, live, row, n)
  BY <1>2, <1>3, <1>4, <1>5 DEF RecordAt
<1> QED
  BY <1>1, <1>4, <1>7, <1>8, MovePlan

LEMMA TestReturnsPlan == ASSUME IInv, PlanInv, TestReturns PROVE PlanInv'
<1>1. /\ pc.at = "decide" /\ pc.phase = TEST /\ pc' = [pc EXCEPT !.at = "conclude"]
      /\ UNCHANGED <<jobs, slot, live, row, server, crashes, faults>>
  BY DEF TestReturns, Running, untouched, kept
<1>2. /\ pc \in PcRecord /\ JobsAt(jobs, faults, pc) /\ RecordAt(jobs, live, row, pc)
      /\ Position(live, pc)
  BY BusyParts
<1>3. pc'.at = "conclude" /\ pc'.run = pc.run /\ pc'.phase = TEST
  BY <1>1, <1>2 DEF PcRecord
<1>4. /\ ~InPhase(pc') /\ InPhase(pc) /\ Busy(pc') /\ Busy(pc) /\ ~Planned(pc') /\ ~Planned(pc)
      /\ Judged(pc') = Judged(pc)
  BY <1>1, <1>3 DEF InPhase, Busy, Planned, Judged
<1>5. JobsAt(jobs, faults, pc')
  BY <1>2, <1>3, <1>4 DEF JobsAt
<1>6. ASSUME NEW r \in Runs, jobs[<<r, TEST>>] # "none"
      PROVE  /\ live.runs[r].rank = 1
             /\ live.runs[r].phases[TEST] \in Terminal
             /\ live.runs[r].phases[TEST] = "succeeded" => jobs[<<r, TEST>>] = "succeeded"
  <2>1. r = pc.run
    BY <1>2, <1>4, <1>6 DEF JobsAt
  <2> QED
    BY <1>1, <1>2, <1>4, <2>1 DEF RecordAt, Position
<1>7. RecordAt(jobs, live, row, pc')
  BY <1>2, <1>3, <1>4, <1>6 DEF RecordAt
<1> QED
  BY <1>1, <1>3, <1>5, <1>7, MovePlan

LEMMA BeginPlan == ASSUME IInv, PlanInv, Begin PROVE PlanInv'
<1> DEFINE e == [row EXCEPT !.status = "running"]
           n == At("create", 1, 1)
<1>1. /\ pc.at = "launched" /\ row = Queued /\ slot' = slot
      /\ UNCHANGED <<jobs, server, crashes>> /\ Save(e, n)
  BY DEF Begin, Running, IInv, LaunchedIsQueued, untouched, kept
<1>2. slot' = NoJob
  BY <1>1, BusyParts, NotAwaiting
<1>3. \A j \in Jobs : jobs[j] = "none"
  BY <1>1, FreshType, BusyParts DEF Backed
<1>4. e.status = "running" /\ \A r \in Runs : e.runs[r].status = "queued"
  BY <1>1, FreshType DEF Experiment, Queued, NoExperiment, Fresh
<1>5. n \in PcRecord /\ n.at = "create" /\ n.run = 1 /\ n.phase = 1
  BY PlanFacts DEF At, PcRecord, Points, Runs
<1> HIDE DEF e, n
<1>6. InPhase(n) /\ Planned(n)
  BY <1>5 DEF InPhase, Planned, TEST
<1>7. Judged(n) = {} /\ \A q \in Plan : ~(q < 1)
  BY <1>5, <1>6, PlanFacts DEF Judged, Runs, Plan
<1>8. \A r \in Runs, p \in Phases : jobs[<<r, p>>] = "none"
  BY <1>3, PlanFacts
<1>9. JobsAt(jobs, faults, n)
  <2>1. /\ \A q \in Plan : q < n.phase => jobs[<<n.run, q>>] = "succeeded"
        /\ \A p \in Plan : p > n.phase => jobs[<<n.run, p>>] = "none"
        /\ \A r \in Runs, p \in Plan : r > n.run => jobs[<<r, p>>] = "none"
        /\ \A r \in Runs : jobs[<<r, TEST>>] = "none"
    <3>1. n.run \in Runs /\ Plan \subseteq Phases /\ TEST \in Phases
      BY <1>5, PlanFacts DEF PcRecord
    <3> QED
      BY <1>5, <1>7, <1>8, <3>1
  <2> QED
    BY <1>5, <1>7, <2>1 DEF JobsAt
<1>10. RecordAt(jobs, e, e, n)
  BY <1>4, <1>5, <1>6, <1>7 DEF RecordAt, Planned
<1>11. Backed(jobs, e)
  BY <1>3, <1>4, <1>8, PlanFacts DEF Backed
<1> QED
  BY <1>1, <1>2, <1>4, <1>5, <1>9, <1>10, <1>11, SavePlan

LEMMA CreatePlan == ASSUME IInv, PlanInv, Create PROVE PlanInv'
<1> DEFINE n == At("launched", 1, 1)
<1>1. /\ pc.at = "none" /\ server = "serving" /\ row = NoExperiment /\ slot' = slot
      /\ UNCHANGED <<jobs, server, crashes>> /\ Save(Queued, n)
  BY DEF Create, Running, Queued, untouched, kept
<1>2. slot' = NoJob
  BY <1>1, BusyParts, NotAwaiting
<1>3. n.at = "launched" /\ TypeOK
  BY BusyParts DEF At
<1> HIDE DEF n
<1>4. \A j \in Jobs : jobs[j] = "none"
  BY <1>1, BusyParts DEF Backed, NoExperiment
<1>5. faults' = 0 => faults = 0
  BY <1>1, <1>3, SaveCounts
<1>6. Ordered(jobs', faults') /\ Holder'
  BY <1>1, <1>2, <1>5, BusyParts, Unmoved, OrderKept DEF Holder
<1>7. \A m : m.at \in {"launched", "none"} => /\ JobsAt(jobs, faults', m)
                                              /\ RecordAt(jobs, live', row', m)
  BY DEF JobsAt, RecordAt, Busy, InPhase, Planned
<1>8. CASE row' = Queued /\ pc' = [n EXCEPT !.writing = TRUE]
  <2>0. n \in PcRecord
    BY PlanFacts DEF n, At, PcRecord, Points, Runs
  <2>1. pc'.at = "launched"
    BY <1>3, <1>8, <2>0 DEF PcRecord
  <2>2. Backed(jobs, row') /\ Truthful(jobs, row', crashes, faults')
    BY <1>4, <1>8, FreshType, PlanFacts DEF Backed, Truthful, Final
  <2> QED
    BY <1>1, <1>6, <1>7, <2>1, <2>2 DEF PlanInv, Attended
<1>9. CASE IOError /\ pc' = Handler(n) /\ UNCHANGED row
  <2>1. pc' = Nowhere
    BY <1>3, <1>9 DEF Handler
  <2>2. faults' # 0
    BY <1>3, <1>9, FaultCounts
  <2>3. Backed(jobs, row') /\ Truthful(jobs, row', crashes, faults')
    BY <1>5, <1>9, BusyParts, Unmoved, RowKept
  <2> QED
    BY <1>1, <1>6, <1>7, <2>1, <2>2, <2>3, NowhereIsIdle DEF PlanInv, Attended
<1> QED
  BY <1>1, <1>8, <1>9 DEF Save

\* The new job is the next one of the plan.
LEMMA CreateJobPlan == ASSUME IInv, PlanInv, CreateJob PROVE PlanInv'
<1>1. /\ pc.at = "create" /\ InPhase(pc) /\ slot' = slot
      /\ UNCHANGED <<live, row, server, crashes>>
  BY DEF CreateJob, Running, InPhase, kept, Contract!Submit
<1>2. slot' = NoJob
  BY <1>1, BusyParts, NotAwaiting
<1>3. CASE IOError /\ pc' = [pc EXCEPT !.at = "failing"] /\ UNCHANGED jobs
  BY <1>1, <1>2, <1>3, RaisePlan
<1>4. CASE Contract!Submit({job}) /\ pc' = [pc EXCEPT !.at = "record"] /\ UNCHANGED faults
  <2>1. /\ pc \in PcRecord /\ pc.run \in Runs /\ pc.phase \in Phases
        /\ Ordered(jobs, faults) /\ Backed(jobs, row)
        /\ JobsAt(jobs, faults, pc) /\ RecordAt(jobs, live, row, pc)
        /\ Attended
    BY BusyParts
  <2>2. jobs[job] = "none" /\ job = <<pc.run, pc.phase>> /\ job \in Jobs
    BY <1>4, <2>1, CurrentJob DEF Contract!Submit, job
  <2>3. /\ jobs'[job] = "queued"
        /\ \A j \in Jobs : j # job => jobs'[j] = jobs[j]
    BY <1>4, <2>2 DEF Contract!Submit
  <2>4. \A r \in Runs, p \in Phases :
           /\ r # pc.run \/ p # pc.phase => jobs'[<<r, p>>] = jobs[<<r, p>>]
           /\ jobs[<<r, p>>] # "none" => jobs'[<<r, p>>] = jobs[<<r, p>>]
    BY <2>2, <2>3, PlanFacts
  <2>5. jobs'[<<pc.run, pc.phase>>] = "queued" /\ jobs[<<pc.run, pc.phase>>] = "none"
    BY <2>2, <2>3
  <2>6. Plan \subseteq Phases /\ TEST \in Phases /\ TEST \notin Plan /\ 1 \in Plan
        /\ Runs \subseteq Nat /\ Plan \subseteq Nat
    BY PlanFacts
  <2>7. /\ pc'.at = "record" /\ pc'.run = pc.run /\ pc'.phase = pc.phase
    BY <1>4, <2>1 DEF PcRecord
  <2>8. /\ InPhase(pc') /\ Busy(pc') /\ Busy(pc) /\ (Planned(pc') <=> Planned(pc))
        /\ Judged(pc') = Judged(pc)
    BY <1>1, <2>7 DEF InPhase, Busy, Planned, Judged
  <2>9. Ordered(jobs', faults)
    <3>1. ASSUME NEW r \in Runs, NEW p \in Plan, jobs'[<<r, p>>] # "none", NEW q \in Plan, q < p
          PROVE  jobs'[<<r, q>>] = "succeeded"
      <4>1. CASE r = pc.run /\ p = pc.phase
        <5>1. Planned(pc) /\ jobs[<<r, q>>] = "succeeded"
          BY <1>1, <2>1, <2>6, <3>1, <4>1 DEF JobsAt, Planned
        <5> QED
          BY <2>4, <2>6, <5>1
      <4>2. CASE ~(r = pc.run /\ p = pc.phase)
        <5>0. jobs[<<r, p>>] # "none"
          BY <2>4, <2>6, <3>1, <4>2
        <5>1. jobs[<<r, q>>] = "succeeded"
          BY <2>1, <3>1, <5>0 DEF Ordered
        <5> QED
          BY <2>4, <2>6, <5>1
      <4> QED
        BY <4>1, <4>2
    <3>2. ASSUME faults = 0, NEW r \in Runs, NEW i \in Runs, NEW p \in Plan, NEW q \in Plan,
                 i < r, jobs'[<<r, p>>] # "none"
          PROVE  jobs'[<<i, q>>] \in Terminal \cup {"none"}
      <4>1. CASE r = pc.run /\ p = pc.phase
        <5>1. Planned(pc) /\ i \in Judged(pc)
          BY <1>1, <2>6, <3>2, <4>1 DEF Planned, Judged
        <5>2. jobs[<<i, q>>] \in Terminal \cup {"none"}
          BY <2>1, <2>8, <3>2, <5>1 DEF JobsAt
        <5>3. i # pc.run
          BY <2>6, <3>2, <4>1
        <5> QED
          BY <2>4, <2>6, <5>2, <5>3
      <4>2. CASE ~(r = pc.run /\ p = pc.phase)
        <5>1. jobs[<<r, p>>] # "none"
          BY <2>4, <2>6, <3>2, <4>2
        <5>2. jobs[<<i, q>>] \in Terminal \cup {"none"}
          BY <2>1, <3>2, <5>1 DEF Ordered
        <5>3. ~(i = pc.run /\ q = pc.phase)
          <6>1. SUFFICES ASSUME i = pc.run, q = pc.phase PROVE FALSE
            OBVIOUS
          <6>2. Planned(pc) /\ r > pc.run
            BY <1>1, <2>6, <3>2, <6>1 DEF Planned
          <6> QED
            BY <2>1, <5>1, <6>2 DEF JobsAt
        <5> QED
          BY <2>4, <2>6, <5>2, <5>3
      <4> QED
        BY <4>1, <4>2
    <3>3. ASSUME NEW r \in Runs, NEW q \in Runs, jobs'[<<r, TEST>>] # "none", q # r
          PROVE  jobs'[<<q, TEST>>] = "none"
      <4>1. CASE pc.phase = TEST
        BY <1>1, <2>1, <2>4, <2>6, <3>3, <4>1 DEF JobsAt
      <4>2. CASE pc.phase # TEST
        BY <2>1, <2>4, <2>6, <3>3, <4>2 DEF Ordered
      <4> QED
        BY <4>1, <4>2
    <3> QED
      BY <3>1, <3>2, <3>3 DEF Ordered
  <2>10. JobsAt(jobs', faults, pc')
    <3>1. ASSUME Planned(pc)
          PROVE  /\ \A q \in Plan : q < pc.phase => jobs'[<<pc.run, q>>] = "succeeded"
                 /\ \A p \in Plan : p > pc.phase => jobs'[<<pc.run, p>>] = "none"
                 /\ \A r \in Runs, p \in Plan : r > pc.run => jobs'[<<r, p>>] = "none"
      <4>1. pc.phase \in Nat /\ pc.run \in Nat
        BY <2>1, <2>6, <3>1 DEF Planned, Phases
      <4>2. \A q \in Plan : q < pc.phase => jobs'[<<pc.run, q>>] = "succeeded"
        BY <2>1, <2>4, <2>6, <3>1, <4>1 DEF JobsAt
      <4>3. \A p \in Plan : p > pc.phase => jobs'[<<pc.run, p>>] = "none"
        BY <2>1, <2>4, <2>6, <3>1, <4>1 DEF JobsAt
      <4>4. \A r \in Runs, p \in Plan : r > pc.run => jobs'[<<r, p>>] = "none"
        BY <2>1, <2>4, <2>6, <3>1, <4>1 DEF JobsAt
      <4> QED
        BY <4>2, <4>3, <4>4
    <3>2. ASSUME Planned(pc), NEW r \in Runs PROVE jobs'[<<r, TEST>>] = "none"
      <4>1. jobs[<<r, TEST>>] = "none" /\ pc.phase # TEST
        BY <2>1, <3>2 DEF JobsAt, Planned
      <4> QED
        BY <2>4, <2>6, <4>1
    <3>3. \A r \in Runs : r # pc.run => jobs'[<<r, TEST>>] = "none"
      BY <1>1, <2>1, <2>4, <2>6 DEF JobsAt
    <3>4. ASSUME faults = 0, NEW r \in Judged(pc)
          PROVE  /\ \A p \in Plan : jobs'[<<r, p>>] \in Terminal \cup {"none"}
                 /\ jobs'[<<r, 1>>] \in Terminal
      <4>1. r \in Runs /\ (r # pc.run \/ pc.phase = TEST)
        BY <1>1, <2>6 DEF Judged, Planned
      <4>2. \A p \in Plan : jobs'[<<r, p>>] = jobs[<<r, p>>]
        BY <2>4, <2>6, <4>1
      <4>3. /\ \A p \in Plan : jobs[<<r, p>>] \in Terminal \cup {"none"}
            /\ jobs[<<r, 1>>] \in Terminal
        BY <2>1, <2>8, <3>4 DEF JobsAt
      <4> QED
        BY <2>6, <4>2, <4>3
    <3> QED
      BY <2>7, <2>8, <3>1, <3>2, <3>3, <3>4 DEF JobsAt
  <2>11. RecordAt(jobs', live, row, pc')
    <3>1. \A r \in Runs : live.runs[r].status = "succeeded" =>
             \A p \in Plan : jobs'[<<r, p>>] = "succeeded"
      BY <2>1, <2>4, <2>6, <2>8 DEF RecordAt
    <3> QED
      BY <1>1, <2>1, <2>7, <2>8, <3>1 DEF RecordAt
  <2>12. Backed(jobs', row)
    <3>1. row.status = "running"
      BY <2>1, <2>8 DEF RecordAt
    <3>2. ASSUME NEW r \in Runs, jobs'[<<r, TEST>>] # "none"
          PROVE  row.completed = RunCount /\ row.runs[r].rank = 1
      <4>1. CASE r = pc.run /\ pc.phase = TEST
        BY <1>1, <2>1, <4>1 DEF RecordAt
      <4>2. CASE ~(r = pc.run /\ pc.phase = TEST)
        BY <2>1, <2>4, <2>6, <3>2, <4>2 DEF Backed
      <4> QED
        BY <4>1, <4>2
    <3> QED
      BY <3>1, <3>2 DEF Backed
  <2>13. Truthful(jobs', row, crashes, faults)
    BY <2>1, <2>8 DEF RecordAt, Truthful, Final
  <2> QED
    BY <1>1, <1>2, <1>4, <2>1, <2>7, <2>9, <2>10, <2>11, <2>12, <2>13
       DEF PlanInv, Holder, Attended
<1> QED
  BY <1>3, <1>4 DEF CreateJob

\* The verdict is that of the phases, and the next candidate begins.
LEMMA ScoreCandidatePlan == ASSUME IInv, PlanInv, ScoreCandidate PROVE PlanInv'
<1>1. /\ pc.at \in {"decide", "raised"} /\ pc.phase # TEST /\ slot' = slot
      /\ pc.at = "decide" /\ PhaseSucceeded => pc.phase = PlanLength
      /\ UNCHANGED <<jobs, server, crashes>> /\ Save(Progressed, AfterCandidate)
  BY BusyParts DEF ScoreCandidate, Running, Position, untouched, kept
<1>2. slot' = NoJob
  BY <1>1, BusyParts, NotAwaiting
<1>3. /\ pc \in PcRecord /\ pc.run \in Runs /\ pc.phase \in Phases /\ Position(live, pc)
      /\ JobsAt(jobs, faults, pc) /\ RecordAt(jobs, live, row, pc)
      /\ live \in Experiment /\ observed \in [score : Int, cost : Int]
  BY BusyParts DEF CoreInv, RestType
<1>4. /\ Plan \subseteq Phases /\ TEST \in Phases /\ 1 \in Plan /\ Plan \subseteq Nat
      /\ Runs = 1..RunCount /\ RunCount \in Nat /\ pc.phase \in Plan
      /\ Plan = 1..PlanLength /\ PlanLength \in Nat
  BY <1>1, <1>3, PlanFacts DEF Runs, Phases, Plan
<1>5. InPhase(pc) /\ Planned(pc) /\ Busy(pc)
  BY <1>1 DEF InPhase, Planned, Busy
<1>6. faults = 0 =>
         /\ \A p \in Plan : jobs[<<pc.run, p>>] \in Terminal \cup {"none"}
         /\ jobs[<<pc.run, 1>>] \in Terminal
  <2> SUFFICES ASSUME faults = 0
               PROVE  /\ \A p \in Plan : jobs[<<pc.run, p>>] \in Terminal \cup {"none"}
                      /\ jobs[<<pc.run, 1>>] \in Terminal
    OBVIOUS
  <2>1. jobs[<<pc.run, pc.phase>>] \in Terminal
    BY <1>1, <1>3 DEF JobsAt
  <2>2. /\ \A p \in Plan : p < pc.phase => jobs[<<pc.run, p>>] \in Terminal
        /\ \A p \in Plan : p > pc.phase => jobs[<<pc.run, p>>] = "none"
    BY <1>3, <1>5 DEF JobsAt, Terminal
  <2>3. \A p \in Plan : p < pc.phase \/ p = pc.phase \/ p > pc.phase
    BY <1>4
  <2>4. 1 < pc.phase \/ 1 = pc.phase
    BY <1>4
  <2> QED
    BY <1>4, <2>1, <2>2, <2>3, <2>4
<1>7. Verdict \in Terminal /\ (Verdict = "succeeded" =>
                                  \A p \in Plan : jobs[<<pc.run, p>>] = "succeeded")
  <2>1. CASE pc.at = "raised"
    BY <2>1 DEF Verdict, Terminal
  <2>2. CASE pc.at = "decide" /\ ~PhaseSucceeded
    <3>1. live.runs[pc.run].phases[pc.phase] \in Terminal
      BY <1>3, <2>2 DEF Position
    <3> QED
      BY <2>2, <3>1 DEF Verdict, Terminal, PhaseSucceeded
  <2>3. CASE pc.at = "decide" /\ PhaseSucceeded
    <3>1. Verdict = "succeeded" /\ pc.phase = PlanLength
      BY <1>1, <2>3 DEF Verdict, PhaseSucceeded
    <3>2. jobs[<<pc.run, pc.phase>>] = "succeeded"
      BY <1>3, <2>3 DEF RecordAt, PhaseSucceeded
    <3>3. \A p \in Plan : p < pc.phase \/ p = pc.phase
      BY <1>4, <3>1
    <3>4. \A p \in Plan : p < pc.phase => jobs[<<pc.run, p>>] = "succeeded"
      BY <1>3, <1>5 DEF JobsAt
    <3> QED
      BY <3>1, <3>2, <3>3, <3>4 DEF Terminal
  <2> QED
    BY <1>1, <2>1, <2>2, <2>3
<1> DEFINE e == Progressed
           n == AfterCandidate
<1>8. /\ e.status = "running" /\ e.completed = pc.run
      /\ \A r \in Runs : e.runs[r].status = IF r = pc.run THEN Verdict ELSE live.runs[r].status
  <2>1. Progressed.status = live.status /\ Progressed.completed = pc.run
    BY <1>1, <1>3, ProgressedStep
  <2>2. live.status = "running"
    BY <1>3, <1>5 DEF Position
  <2>3. live.runs \in [Runs -> Candidate] /\ live.runs[pc.run] \in Candidate
    BY <1>3 DEF Experiment
  <2>4. Scored \in Candidate /\ Scored.status = Verdict
    <3> HIDE DEF Verdict
    <3> QED
      BY <1>3, <1>7, <2>3 DEF Scored, Candidate
  <2> DEFINE table == [live.runs EXCEPT ![pc.run] = Scored]
  <2>5. table \in [Runs -> Candidate]
    BY <2>3, <2>4
  <2>6. \A r \in Runs : table[r].status = IF r = pc.run THEN Verdict ELSE live.runs[r].status
    BY <2>3, <2>4
  <2>7. Progressed.runs = Evaluated(table)
    BY <1>3 DEF Progressed, Experiment
  <2> HIDE DEF table
  <2>8. \A r \in Runs : Progressed.runs[r].status = table[r].status
    BY <2>5, <2>7, EvaluatedType
  <2> QED
    BY <2>1, <2>2, <2>6, <2>8
<1> HIDE DEF e
<1>9. \A r \in Runs : e.runs[r].status = "succeeded" => \A p \in Plan : jobs[<<r, p>>] = "succeeded"
  BY <1>3, <1>5, <1>7, <1>8 DEF RecordAt
<1>10. \A r \in Runs : r <= pc.run => /\ e.runs[r].status \in Terminal
                                      /\ faults = 0 =>
                                            /\ \A p \in Plan : jobs[<<r, p>>] \in Terminal \cup {"none"}
                                            /\ jobs[<<r, 1>>] \in Terminal
  <2> SUFFICES ASSUME NEW r \in Runs, r <= pc.run
               PROVE  /\ e.runs[r].status \in Terminal
                      /\ faults = 0 =>
                            /\ \A p \in Plan : jobs[<<r, p>>] \in Terminal \cup {"none"}
                            /\ jobs[<<r, 1>>] \in Terminal
    OBVIOUS
  <2>1. CASE r = pc.run
    BY <1>6, <1>7, <1>8, <2>1
  <2>2. CASE r # pc.run
    <3>1. r \in Judged(pc)
      BY <1>3, <1>4, <2>2 DEF Judged
    <3> QED
      BY <1>3, <1>5, <1>8, <2>2, <3>1 DEF JobsAt, RecordAt
  <2> QED
    BY <2>1, <2>2
<1>11. \A r \in Runs : jobs[<<r, TEST>>] = "none"
  BY <1>3, <1>5 DEF JobsAt
<1>12. /\ n \in PcRecord /\ n.at \in {"create", "select"}
       /\ JobsAt(jobs, faults, n) /\ RecordAt(jobs, e, e, n)
  <2>1. CASE pc.run < RunCount
    <3>1. n = At("create", pc.run + 1, 1)
      BY <2>1 DEF AfterCandidate
    <3>2. pc.run + 1 \in Runs /\ 1 \in Phases /\ 1 # TEST
      BY <1>3, <1>4, <2>1 DEF TEST
    <3>3. n \in PcRecord /\ n.at = "create" /\ n.run = pc.run + 1 /\ n.phase = 1
      BY <3>1, <3>2 DEF At, PcRecord, Points
    <3> HIDE DEF n
    <3>4. InPhase(n) /\ Planned(n) /\ Busy(n)
      BY <3>2, <3>3 DEF InPhase, Planned, Busy
    <3>5. \A r \in Runs : /\ r \in Judged(n) => r <= pc.run
                          /\ r >= n.run => r > pc.run
      BY <1>3, <1>4, <3>3, <3>4 DEF Judged
    <3>6. \A r \in Runs, p \in Plan : r >= n.run => jobs[<<r, p>>] = "none"
      BY <1>3, <1>5, <3>5 DEF JobsAt
    <3>7. /\ \A q \in Plan : ~(q < 1)
          /\ n.run \in Runs /\ n.run >= n.run
          /\ \A r \in Runs : r > n.run => r >= n.run
          /\ Judged(n) \subseteq Runs
      BY <1>4, <3>2, <3>3 DEF Judged
    <3>8. JobsAt(jobs, faults, n)
      BY <1>10, <1>11, <3>3, <3>4, <3>5, <3>6, <3>7 DEF JobsAt
    <3>9. RecordAt(jobs, e, e, n)
      BY <1>8, <1>9, <1>10, <3>2, <3>3, <3>5, <3>7 DEF RecordAt
    <3> QED
      BY <3>3, <3>8, <3>9
  <2>2. CASE ~(pc.run < RunCount)
    <3>1. n = At("select", pc.run, pc.phase)
      BY <2>2 DEF AfterCandidate
    <3>2. n \in PcRecord /\ n.at = "select"
      BY <1>3, <3>1 DEF At, PcRecord, Points
    <3>3. pc.run = RunCount /\ \A r \in Runs : r <= pc.run
      BY <1>3, <1>4, <2>2
    <3> HIDE DEF n
    <3>4. ~InPhase(n) /\ ~Planned(n) /\ Busy(n) /\ Judged(n) \subseteq Runs
      BY <3>2 DEF InPhase, Planned, Busy, Judged
    <3>5. JobsAt(jobs, faults, n)
      BY <1>10, <1>11, <3>2, <3>3, <3>4 DEF JobsAt
    <3>6. RecordAt(jobs, e, e, n)
      BY <1>8, <1>9, <1>10, <3>2, <3>3, <3>4 DEF RecordAt
    <3> QED
      BY <3>2, <3>5, <3>6
  <2> QED
    BY <2>1, <2>2
<1>13. Backed(jobs, e)
  BY <1>8, <1>11 DEF Backed
<1>14. Save(e, n) /\ pc.at # "none"
  BY <1>1 DEF e
<1> HIDE DEF n
<1> QED
  BY <1>1, <1>2, <1>8, <1>12, <1>13, <1>14, SavePlan

\* The winner of the persisted record is the one that is tested.
LEMMA SelectPlan == ASSUME IInv, PlanInv, Select PROVE PlanInv'
<1>1. /\ pc.at = "select" /\ live' = [live EXCEPT !.runs = Evaluated(@)]
      /\ UNCHANGED <<jobs, slot, row, server, crashes, faults>>
  BY DEF Select, Running, untouched, kept
<1>2. /\ pc \in PcRecord /\ JobsAt(jobs, faults, pc) /\ RecordAt(jobs, live, row, pc)
      /\ live \in Experiment /\ live.runs = Evaluated(live.runs)
  BY BusyParts DEF CoreInv, Ranked
<1>3. live'.runs = live.runs
  BY <1>1, <1>2 DEF Experiment
<1>4. /\ Busy(pc) /\ ~Planned(pc) /\ \A r \in Runs : jobs[<<r, TEST>>] = "none"
  BY <1>1, <1>2 DEF Busy, Planned, InPhase, JobsAt
<1>5. ASSUME NEW r \in Runs, live'.runs[r].rank = 1, pc' = At("create", r, TEST)
      PROVE  pc'.at # "none" /\ JobsAt(jobs, faults, pc') /\ RecordAt(jobs, live', row, pc')
  <2>1. pc'.at = "create" /\ pc'.run = r /\ pc'.phase = TEST
    BY <1>5 DEF At
  <2>2. InPhase(pc') /\ ~Planned(pc') /\ Busy(pc') /\ Judged(pc') = Judged(pc)
    BY <1>4, <2>1 DEF InPhase, Planned, Busy, Judged
  <2>3. JobsAt(jobs, faults, pc')
    BY <1>2, <1>4, <2>1, <2>2 DEF JobsAt
  <2>4. RecordAt(jobs, live', row, pc')
    BY <1>1, <1>2, <1>3, <1>4, <1>5, <2>1, <2>2 DEF RecordAt
  <2> QED
    BY <2>1, <2>3, <2>4
<1>6. ASSUME pc' = [pc EXCEPT !.at = "conclude"]
      PROVE  pc'.at # "none" /\ JobsAt(jobs, faults, pc') /\ RecordAt(jobs, live', row, pc')
  <2>1. pc'.at = "conclude"
    BY <1>2, <1>6 DEF PcRecord
  <2>2. ~InPhase(pc') /\ ~Planned(pc') /\ Busy(pc') /\ Judged(pc') = Judged(pc)
    BY <1>4, <2>1 DEF InPhase, Planned, Busy, Judged
  <2>3. JobsAt(jobs, faults, pc')
    BY <1>2, <1>4, <2>1, <2>2 DEF JobsAt
  <2>4. RecordAt(jobs, live', row, pc')
    BY <1>2, <1>3, <1>4, <2>1, <2>2 DEF RecordAt
  <2> QED
    BY <2>1, <2>3, <2>4
<1>7. pc'.at # "none" /\ JobsAt(jobs, faults, pc') /\ RecordAt(jobs, live', row, pc')
  BY <1>5, <1>6 DEF Select
<1> QED
  BY <1>1, <1>7, MovePlan

\* What the last record says of the experiment is true.
LEMMA ConcludePlan == ASSUME IInv, PlanInv, Conclude PROVE PlanInv'
<1> DEFINE e == [live EXCEPT !.status = FinalStatus, !.runs = Evaluated(@)]
<1>1. /\ pc.at = "conclude" /\ slot' = slot /\ Save(e, Nowhere) /\ server = "serving"
      /\ UNCHANGED <<jobs, server, crashes>>
  BY DEF Conclude, Running, untouched, kept
<1>2. slot' = NoJob
  BY <1>1, BusyParts, NotAwaiting
<1>3. /\ TypeOK /\ JobsAt(jobs, faults, pc) /\ RecordAt(jobs, live, row, pc)
      /\ Position(live, pc) /\ live \in Experiment /\ live.runs = Evaluated(live.runs)
  BY BusyParts DEF CoreInv, Ranked
<1>4. /\ e.runs = live.runs /\ e.status = FinalStatus /\ e.completed = RunCount
      /\ FinalStatus \in Final
  BY <1>1, <1>3 DEF Experiment, Position, FinalStatus, Final
<1> HIDE DEF e
<1>5. Busy(pc) /\ Judged(pc) = Runs
  BY <1>1 DEF Busy, Judged, Planned, InPhase
<1>6. Backed(jobs, e)
  BY <1>1, <1>3, <1>4 DEF Backed, RecordAt, Final
<1>7. Truthful(jobs, e, crashes, faults)
  <2>1. \A r \in Runs : e.runs[r].status \in Terminal
    BY <1>3, <1>4, <1>5 DEF RecordAt
  <2>2. e.status = "succeeded" =>
           \A j \in Jobs : jobs[j] = "succeeded" \/ (j[2] = TEST /\ jobs[j] = "none")
    <3> SUFFICES ASSUME FinalStatus = "succeeded", NEW r \in Runs, NEW p \in Phases
                 PROVE  jobs[<<r, p>>] = "succeeded" \/ (p = TEST /\ jobs[<<r, p>>] = "none")
      BY <1>4 DEF Jobs
    <3>1. /\ live.runs[r].status = "succeeded"
          /\ live.runs[r].phases[TEST] \in {"none", "succeeded"}
      BY DEF FinalStatus
    <3>2. CASE p \in Plan
      BY <1>3, <1>5, <3>1, <3>2 DEF RecordAt
    <3>3. CASE p = TEST
      BY <1>1, <1>3, <3>1, <3>3 DEF RecordAt, Terminal
    <3> QED
      BY <3>2, <3>3 DEF Phases
  <2>3. e.status = "completed_with_errors" => \E r \in Runs : e.runs[r].status = "succeeded"
    BY <1>4 DEF FinalStatus
  <2>4. e.status = "failed" => \A r \in Runs : e.runs[r].status # "succeeded"
    BY <1>4 DEF FinalStatus
  <2>5. faults = 0 => \A r \in Runs : jobs[<<r, 1>>] \in Terminal
    BY <1>3, <1>5 DEF JobsAt
  <2> QED
    BY <2>1, <2>2, <2>3, <2>4, <2>5 DEF Truthful
<1>8. faults' = 0 => faults = 0
  BY <1>1, <1>3, SaveCounts
<1>9. Ordered(jobs', faults') /\ Holder'
  BY <1>1, <1>2, <1>8, BusyParts, Unmoved, OrderKept DEF Holder
<1>10. \A m : m.at = "none" => /\ JobsAt(jobs, faults', m)
                               /\ RecordAt(jobs, live', row', m)
  BY DEF JobsAt, RecordAt, Busy, InPhase, Planned
<1>11. CASE row' = e /\ pc' = [Nowhere EXCEPT !.writing = TRUE] /\ UNCHANGED faults
  <2>1. pc'.at = "none"
    BY <1>11 DEF Nowhere, At
  <2>2. Attended'
    BY <1>1, <1>4, <1>11, <2>1 DEF Attended, Final, Open
  <2> QED
    BY <1>1, <1>6, <1>7, <1>9, <1>10, <1>11, <2>1, <2>2 DEF PlanInv
<1>12. CASE IOError /\ pc' = Handler(Nowhere) /\ UNCHANGED row
  <2>1. pc'.at = "none"
    BY <1>12 DEF Handler, Nowhere, At
  <2>2. faults' # 0
    BY <1>3, <1>12, FaultCounts
  <2>3. Backed(jobs, row') /\ Truthful(jobs, row', crashes, faults')
    BY <1>8, <1>12, BusyParts, Unmoved, RowKept
  <2> QED
    BY <1>1, <1>9, <1>10, <2>1, <2>2, <2>3 DEF PlanInv, Attended
<1> QED
  BY <1>1, <1>11, <1>12 DEF Save

LEMMA WriteFilePlan == ASSUME IInv, PlanInv, WriteFile PROVE PlanInv'
<1>1. /\ pc.writing /\ UNCHANGED <<jobs, slot, live, row, server, crashes>>
  BY DEF WriteFile
<1>2. slot' = NoJob
  BY <1>1, BusyParts, NotAwaiting
<1>3. /\ TypeOK /\ pc \in PcRecord /\ Attended
      /\ JobsAt(jobs, faults, pc) /\ RecordAt(jobs, live, row, pc)
  BY BusyParts
<1>4. faults' = 0 => faults = 0
  BY <1>3, FaultCounts DEF WriteFile
<1>5. /\ Ordered(jobs', faults') /\ Holder'
      /\ Backed(jobs', row') /\ Truthful(jobs', row', crashes', faults')
  BY <1>1, <1>2, <1>4, BusyParts, Unmoved, OrderKept, RowKept DEF Holder
<1>6. CASE pc' = [pc EXCEPT !.writing = FALSE] /\ UNCHANGED faults
  <2>1. pc'.at = pc.at /\ pc'.run = pc.run /\ pc'.phase = pc.phase
    BY <1>3, <1>6 DEF PcRecord
  <2>2. JobsAt(jobs, faults, pc') /\ RecordAt(jobs, live, row, pc')
    BY <1>3, <2>1, SamePoint
  <2>3. Attended'
    BY <1>1, <1>3, <1>6, <2>1 DEF Attended
  <2> QED
    BY <1>1, <1>5, <1>6, <2>2, <2>3 DEF PlanInv
<1>7. CASE server = "serving" /\ IOError /\ pc' = Handler(pc)
  <2>1. faults' # 0
    BY <1>3, <1>7, FaultCounts
  <2>2. JobsAt(jobs, faults', pc') /\ RecordAt(jobs, live, row, pc')
    BY <1>3, <1>7, <2>1, HandlerPoint
  <2>3. Attended'
    BY <1>1, <1>3, <1>7, <2>1 DEF Attended
  <2> QED
    BY <1>1, <1>5, <2>2, <2>3 DEF PlanInv
<1> QED
  BY <1>6, <1>7 DEF WriteFile

\* What the job subsystem does without being asked for a new job.
LEMMA JobsAdvance ==
    ASSUME TypeOK, NEW j \in Jobs,
           \/ Contract!Start(j) \/ Contract!Finish(j) \/ Contract!CancelQueued(j)
           \/ Contract!RequestCancel(j) \/ Contract!Recover(j)
    PROVE  Advanced(jobs, jobs')
BY DEF TypeOK, Advanced, Contract!Start, Contract!Finish, Contract!CancelQueued,
       Contract!RequestCancel, Contract!Recover, Contract!TERMINAL_JOB_STATUSES

LEMMA SubsystemPlan ==
    ASSUME IInv, PlanInv, JobStarts \/ JobFinishes \/ CancelJob
    PROVE  PlanInv'
<1>1. TypeOK /\ job \in Jobs /\ Holder /\ Attended
  BY BusyParts, CurrentJob
<1>2. Advanced(jobs, jobs')
  BY <1>1, JobsAdvance DEF JobStarts, JobFinishes, CancelJob
<1>3. UNCHANGED <<live, row, pc, crashes, faults, server>>
  BY DEF JobStarts, JobFinishes, CancelJob, untouched, kept
<1>4. Holder'
  <2>1. CASE JobStarts
    BY <1>3, <2>1 DEF JobStarts, Running, Holder, job, Contract!Start
  <2>2. CASE JobFinishes \/ CancelJob
    <3>1. slot' = slot
      BY <2>2 DEF JobFinishes, CancelJob, Contract!Finish, Contract!CancelQueued,
         Contract!RequestCancel
    <3> QED
      BY <1>1, <1>3, <3>1 DEF Holder, job
  <2> QED
    BY <2>1, <2>2
<1>5. Attended'
  BY <1>1, <1>3 DEF Attended
<1> QED
  BY <1>2, <1>3, <1>4, <1>5, JobsPlan DEF PlanInv

LEMMA CrashPlan == ASSUME IInv, PlanInv, Crash PROVE PlanInv'
<1>1. /\ UNCHANGED <<jobs, row, faults>> /\ crashes' = crashes + 1 /\ server' = "down"
      /\ pc' = Nowhere /\ slot' = NoJob
  BY DEF Crash
<1>2. crashes' # 0
  BY <1>1 DEF IInv, TypeOK
<1>3. /\ Ordered(jobs', faults') /\ Backed(jobs', row') /\ Truthful(jobs', row', crashes', faults')
  BY <1>1, <1>2, BusyParts, Unmoved, RowKept
<1>4. JobsAt(jobs', faults', pc') /\ RecordAt(jobs', live', row', pc')
  BY <1>1, NowhereIsIdle DEF JobsAt, RecordAt, Planned, InPhase
<1>5. Holder' /\ Attended'
  BY <1>1, <1>2, NowhereIsIdle DEF Holder, Attended
<1> QED
  BY <1>3, <1>4, <1>5 DEF PlanInv

LEMMA RestartPlan == ASSUME IInv, PlanInv, Restart \/ ReconcileJobs PROVE PlanInv'
<1>1. TypeOK /\ Holder /\ Attended
  BY BusyParts
<1>2. UNCHANGED <<live, row, pc, crashes, faults>> /\ server # "serving" /\ server' # "serving"
  BY DEF Restart, ReconcileJobs
<1>3. Advanced(jobs, jobs') /\ slot' = slot
  <2>1. CASE UNCHANGED <<jobs, slot>>
    BY <2>1, Unmoved
  <2>2. ASSUME NEW j \in Jobs, Contract!Recover(j) PROVE Advanced(jobs, jobs') /\ slot' = slot
    BY <1>1, <2>2, JobsAdvance DEF Contract!Recover
  <2> QED
    BY <2>1, <2>2 DEF Restart, ReconcileJobs
<1>4. Holder' /\ Attended'
  BY <1>1, <1>2, <1>3 DEF Holder, Attended, job
<1> QED
  BY <1>2, <1>3, <1>4, JobsPlan DEF PlanInv

LEMMA ReconcileExperimentPlan == ASSUME IInv, PlanInv, ReconcileExperiment PROVE PlanInv'
<1>1. /\ server = "experiments" /\ UNCHANGED <<jobs, slot, crashes, faults>>
  BY DEF ReconcileExperiment
<1>2. /\ CoreInv /\ Ordered(jobs, faults) /\ Backed(jobs, row) /\ Holder /\ Attended
  BY BusyParts
<1>3. pc.at = "none" /\ crashes # 0 /\ slot = NoJob
  BY <1>1, <1>2, NotAwaiting DEF Attended
<1>4. CASE Abandoned
  <2>1. /\ row' = Interrupted(row) /\ pc' = [Nowhere EXCEPT !.writing = TRUE]
        /\ server' = server
    BY <1>4 DEF ReconcileExperiment
  <2>2. pc'.at = "none"
    BY <2>1 DEF Nowhere, At
  <2>3. row \in Experiment
    BY <1>2 DEF CoreInv
  <2>4. /\ row'.status = "failed" /\ row'.completed = row.completed
        /\ \A r \in Runs : /\ row'.runs[r].status \in Terminal
                          /\ row'.runs[r].rank = row.runs[r].rank
    <3> DEFINE table == [r \in Runs |-> IF row.runs[r].status \in Open
                                       THEN [row.runs[r] EXCEPT !.status = "failed"]
                                       ELSE row.runs[r]]
    <3>1. row' = [row EXCEPT !.status = "failed", !.runs = table]
      BY <2>1 DEF Interrupted
    <3>2. row.runs \in [Runs -> Candidate]
      BY <2>3 DEF Experiment
    <3>3. \A r \in Runs : /\ table[r].status \in Terminal
                          /\ table[r].rank = row.runs[r].rank
      BY <3>2 DEF Candidate, Open, Terminal
    <3> HIDE DEF table
    <3>4. row'.status = "failed" /\ row'.completed = row.completed /\ row'.runs = table
      BY <2>3, <3>1 DEF Experiment
    <3> QED
      BY <3>3, <3>4
  <2>5. Backed(jobs, row') /\ Truthful(jobs, row', crashes, faults)
    BY <1>2, <1>3, <2>4 DEF Backed, Truthful, Final
  <2>6. JobsAt(jobs, faults, pc') /\ RecordAt(jobs, live', row', pc')
    BY <2>2 DEF JobsAt, RecordAt, Busy, InPhase, Planned
  <2>7. Holder' /\ Attended'
    BY <1>1, <1>3, <2>1, <2>2 DEF Holder, Attended
  <2> QED
    BY <1>1, <1>2, <2>5, <2>6, <2>7 DEF PlanInv
<1>5. CASE ~Abandoned
  <2>1. server' = "serving" /\ UNCHANGED <<row, live, pc>>
    BY <1>5 DEF ReconcileExperiment
  <2>2. Holder' /\ Attended'
    BY <1>1, <1>3, <1>5, <2>1 DEF Holder, Attended, Abandoned
  <2> QED
    BY <1>1, <2>1, <2>2, BusyParts DEF PlanInv
<1> QED
  BY <1>4, <1>5

LEMMA InitPlan == Init => PlanInv
<1> SUFFICES ASSUME Init PROVE PlanInv
  OBVIOUS
<1>1. \A j \in Jobs : jobs[j] = "none"
  BY DEF Init
<1>2. \A r \in Runs, p \in Phases : jobs[<<r, p>>] = "none"
  BY <1>1, PlanFacts
<1>3. Ordered(jobs, faults)
  BY <1>2, PlanFacts DEF Ordered
<1>4. row.status = "none" /\ pc = Nowhere /\ slot = NoJob /\ server = "serving"
  BY DEF Init, NoExperiment
<1>5. Backed(jobs, row) /\ Truthful(jobs, row, crashes, faults)
  BY <1>1, <1>2, <1>4, PlanFacts DEF Backed, Truthful, Final
<1>6. JobsAt(jobs, faults, pc) /\ RecordAt(jobs, live, row, pc)
  BY <1>4, NowhereIsIdle DEF JobsAt, RecordAt, Planned, InPhase
<1>7. Holder /\ Attended
  BY <1>4, NowhereIsIdle DEF Holder, Attended, Open
<1> QED
  BY <1>3, <1>5, <1>6, <1>7 DEF PlanInv

LEMMA NextPlan == IInv /\ PlanInv /\ [Next]_vars => PlanInv'
<1> SUFFICES ASSUME IInv, PlanInv, [Next]_vars PROVE PlanInv'
  OBVIOUS
<1>1. CASE UNCHANGED vars
  BY <1>1 DEF vars, PlanInv, Holder, Attended, job
<1>2. CASE Coroutine
  BY <1>2, BeginPlan, CreateJobPlan, RecordJobPlan, RunJobReturnsPlan, RunJobRefusedPlan, FailPhasePlan,
     NextPhasePlan, ScoreCandidatePlan, SelectPlan, TestReturnsPlan, ConcludePlan, WriteFilePlan
     DEF Coroutine
<1>3. CASE Executor \/ CancelJob
  BY <1>3, SubsystemPlan DEF Executor
<1>4. CASE Create \/ RunJobRaises
  BY <1>4, CreatePlan, RunJobRaisesPlan
<1>5. CASE Crash \/ Restart \/ ReconcileJobs \/ ReconcileExperiment
  BY <1>5, CrashPlan, RestartPlan, ReconcileExperimentPlan
<1> QED
  BY <1>1, <1>2, <1>3, <1>4, <1>5 DEF Next

LEMMA PlanInvariant == Spec => [](IInv /\ PlanInv)
<1>1. Init => IInv /\ PlanInv
  BY InitInv, InitPlan
<1>2. IInv /\ PlanInv /\ [Next]_vars => IInv' /\ PlanInv'
  BY NextInv, NextPlan
<1> QED
  BY <1>1, <1>2, PTL DEF Spec

\* However users, crashes and I/O errors interfere, the jobs of an experiment
\* are created in the order of the plan, and the one test it may have is that of
\* the candidate which every later record still ranks first.
THEOREM PlanIsAlwaysFollowed == Spec => []PlanIsFollowed
<1>1. IInv /\ PlanInv => PlanIsFollowed
  <2> SUFFICES ASSUME IInv, PlanInv PROVE PlanIsFollowed
    OBVIOUS
  <2>1. /\ Ordered(jobs, faults) /\ Backed(jobs, row) /\ Holder /\ pc \in PcRecord
        /\ JobsAt(jobs, faults, pc)
    BY BusyParts
  <2>2. ASSUME NEW r \in Runs, NEW p \in Plan, jobs[<<r, p>>] # "none"
        PROVE  /\ \A q \in 1..(p - 1) : jobs[<<r, q>>] = "succeeded"
               /\ \A i \in 1..(r - 1) : faults = 0 =>
                     \A j \in JobsOf(i) : jobs[j] \in Terminal \cup {"none"}
    <3>1. \A q \in 1..(p - 1) : q \in Plan /\ q < p
      BY PlanFacts DEF Plan
    <3>2. \A i \in 1..(r - 1) : i \in Runs /\ i < r
      BY PlanFacts DEF Runs
    <3> QED
      BY <2>1, <2>2, <3>1, <3>2 DEF Ordered, JobsOf
  <2>3. ASSUME NEW r \in Runs, jobs[<<r, TEST>>] # "none"
        PROVE  /\ slot # NoJob => slot[2] = TEST
               /\ \A q \in Runs \ {r} : jobs[<<q, TEST>>] = "none"
               /\ row.completed = RunCount
               /\ row.runs[r].rank = 1
    <3>1. ASSUME slot # NoJob PROVE slot[2] = TEST
      <4>1. InPhase(pc) /\ slot = <<pc.run, pc.phase>>
        BY <2>1, <3>1 DEF Holder, InPhase, job
      <4>2. pc.phase = TEST
        BY <2>1, <2>3, <4>1 DEF JobsAt, Planned
      <4> QED
        BY <4>1, <4>2
    <3> QED
      BY <2>1, <2>3, <3>1 DEF Ordered, Backed
  <2> QED
    BY <2>2, <2>3 DEF PlanIsFollowed
<1> QED
  BY PlanInvariant, <1>1, PTL

\* A closed experiment tells the truth about its candidates and its jobs, and an
\* open one has somebody who closes it.
THEOREM StatusIsAlwaysHonest == Spec => []StatusIsHonest
<1>1. IInv /\ PlanInv => StatusIsHonest
  <2> SUFFICES ASSUME IInv, PlanInv PROVE StatusIsHonest
    OBVIOUS
  <2>1. Truthful(jobs, row, crashes, faults) /\ Attended
    BY BusyParts
  <2> QED
    BY <2>1 DEF StatusIsHonest, Truthful, Attended, Running, Undisturbed
<1> QED
  BY PlanInvariant, <1>1, PTL

(***************************************************************************)
(* The verdicts come from the jobs.                                         *)
(***************************************************************************)
\* What the phases S of the candidate r reported, when res holds the results.
Total(res, r, S) ==
    [score |-> SumFunctionOnSet([p \in Phases |-> res[<<r, p>>].score], S),
     cost  |-> SumFunctionOnSet([p \in Phases |-> res[<<r, p>>].cost], S)]

Settled(w) == {r \in Runs : w.runs[r].status \in Terminal}

\* The verdicts of the record w are those of the jobs js with the results res,
\* after c crashes and f I/O errors.
Deserved(js, res, w, c, f) ==
    \A r \in Runs :
        /\ w.runs[r].status = "succeeded" =>
              /\ \A p \in Plan : js[<<r, p>>] = "succeeded"
              /\ w.runs[r].metrics = Total(res, r, Scoring)
        /\ w.runs[r].status = "cancelled" =>
              Folds = 0 /\ \E p \in Plan : js[<<r, p>>] = "cancelled"
        /\ c = 0 /\ f = 0 /\ w.runs[r].status = "failed" =>
              \E p \in Plan : js[<<r, p>>] \in {"failed", "cancelled"}

\* The progress of the record w counts them.
Counted(w, c) ==
    /\ w.completed <= Cardinality(Settled(w))
    /\ c = 0 => w.completed = Cardinality(Settled(w))

Merits(js, res, w, c, f) == Deserved(js, res, w, c, f) /\ Counted(w, c)

Before(p) == {q \in Scoring : q < p}
UpTo(p) == {q \in Scoring : q <= p}

\* What the coroutine has added up, obs, when it stands at the point n with the
\* record e: the scoring phases of its candidate that are over.
Tally(js, res, obs, e, n, f) ==
    Planned(n) =>
        /\ (n.at = "create" /\ n.phase # 1) \/ n.at \in {"record", "await"} =>
              obs = Total(res, n.run, Before(n.phase))
        /\ n.at = "decide" =>
              /\ e.runs[n.run].phases[n.phase] = "succeeded" =>
                    obs = Total(res, n.run, UpTo(n.phase))
              /\ e.runs[n.run].phases[n.phase] = "cancelled" =>
                    js[<<n.run, n.phase>>] = "cancelled"
              /\ f = 0 /\ e.runs[n.run].phases[n.phase] # "succeeded" =>
                    js[<<n.run, n.phase>>] \in {"failed", "cancelled"}

VerdictInv ==
    /\ Merits(jobs, result, row, crashes, faults)
    /\ Busy(pc) => Merits(jobs, result, live, crashes, faults)
    /\ Tally(jobs, result, observed, live, pc, faults)

LEMMA ScoringPhases ==
    /\ Scoring \subseteq Plan /\ IsFiniteSet(Scoring) /\ TEST \notin Scoring
    /\ \A p \in Plan : /\ UpTo(p) \subseteq Scoring /\ Before(p) \subseteq Scoring
                       /\ p \in Scoring => UpTo(p) = Before(p) \cup {p} /\ p \notin Before(p)
                       /\ p \notin Scoring => UpTo(p) = Before(p)
    /\ \A p \in Plan : p + 1 \in Plan => Before(p + 1) = UpTo(p)
    /\ UpTo(PlanLength) = Scoring /\ Before(1) = {}
<1>1. Scoring \subseteq Plan
  BY PlanFacts DEF Scoring, Plan
<1>2. PlanLength \in Nat /\ Plan = 1..PlanLength
  BY PlanFacts DEF Plan
<1>3. IsFiniteSet(Plan)
  BY <1>2, FS_Interval, 1 \in Int, PlanLength \in Int
<1>4. IsFiniteSet(Scoring) /\ TEST \notin Scoring
  BY <1>1, <1>3, FS_Subset, PlanFacts
<1>5. \A q \in Scoring : q \in Int /\ q >= 1 /\ q <= PlanLength
  BY <1>1, <1>2
<1>6. ASSUME NEW p \in Plan
      PROVE  /\ UpTo(p) \subseteq Scoring /\ Before(p) \subseteq Scoring
             /\ p \in Scoring => UpTo(p) = Before(p) \cup {p} /\ p \notin Before(p)
             /\ p \notin Scoring => UpTo(p) = Before(p)
             /\ Before(p + 1) = UpTo(p)
  BY <1>2, <1>5 DEF UpTo, Before
<1>7. UpTo(PlanLength) = Scoring /\ Before(1) = {}
  BY <1>5 DEF UpTo, Before
<1> QED
  BY <1>1, <1>4, <1>6, <1>7

LEMMA TotalOfNothing == \A res, r : Total(res, r, {}) = NoMetrics
BY SumEmpty DEF Total, NoMetrics

\* A total sees the results of its phases only.
LEMMA TotalKept ==
    ASSUME NEW a, NEW b, NEW r \in Runs, NEW S \in SUBSET Scoring,
           \A p \in S : a[<<r, p>>] = b[<<r, p>>]
    PROVE  Total(a, r, S) = Total(b, r, S)
<1>1. IsFiniteSet(S) /\ S \subseteq Phases
  BY ScoringPhases, PlanFacts, FS_Subset
<1> DEFINE as == [p \in Phases |-> a[<<r, p>>].score]
           bs == [p \in Phases |-> b[<<r, p>>].score]
           ac == [p \in Phases |-> a[<<r, p>>].cost]
           bc == [p \in Phases |-> b[<<r, p>>].cost]
<1>2. \A p \in S : as[p] = bs[p] /\ ac[p] = bc[p]
  BY <1>1
<1>3. Total(a, r, S) = [score |-> SumFunctionOnSet(as, S), cost |-> SumFunctionOnSet(ac, S)]
  BY DEF Total
<1>4. Total(b, r, S) = [score |-> SumFunctionOnSet(bs, S), cost |-> SumFunctionOnSet(bc, S)]
  BY DEF Total
<1> HIDE DEF as, bs, ac, bc
<1>5. SumFunctionOnSet(as, S) = SumFunctionOnSet(bs, S) /\ SumFunctionOnSet(ac, S) = SumFunctionOnSet(bc, S)
  BY <1>1, <1>2, SameSum
<1> QED
  BY <1>3, <1>4, <1>5

\* The next phase adds what its job reported.
LEMMA TotalAdds ==
    ASSUME NEW res \in [Jobs -> Metrics \cup {NoMetrics}], NEW r \in Runs,
           NEW S \in SUBSET Scoring, NEW p \in Scoring, p \notin S
    PROVE  Total(res, r, S \cup {p}) = Plus(Total(res, r, S), res[<<r, p>>])
<1>1. IsFiniteSet(S) /\ Scoring \subseteq Phases
  BY ScoringPhases, PlanFacts, FS_Subset
<1> DEFINE sc == [q \in Phases |-> res[<<r, q>>].score]
           co == [q \in Phases |-> res[<<r, q>>].cost]
<1>2. \A q \in Phases : res[<<r, q>>] \in [score : Int, cost : Int]
  BY PlanFacts, FreshType, ExperimentsAssumption
<1>3. \A q \in S \cup {p} : sc[q] \in Int /\ co[q] \in Int
  BY <1>1, <1>2
<1>4. sc[p] = res[<<r, p>>].score /\ co[p] = res[<<r, p>>].cost
  BY <1>1
<1>5. \A T : Total(res, r, T) = [score |-> SumFunctionOnSet(sc, T), cost |-> SumFunctionOnSet(co, T)]
  BY DEF Total
<1> HIDE DEF sc, co
<1>6. SumFunctionOnSet(sc, S \cup {p}) = SumFunctionOnSet(sc, S) + sc[p]
  BY <1>1, <1>3, SumAdds
<1>7. SumFunctionOnSet(co, S \cup {p}) = SumFunctionOnSet(co, S) + co[p]
  BY <1>1, <1>3, SumAdds
<1> QED
  BY <1>4, <1>5, <1>6, <1>7 DEF Plus

(* Merits and tallies that stand. *)

\* The jobs b, with the results y, are a later state of the jobs a with the
\* results x: a verdict on a job, and what a successful job reported, stand.
Stand(a, x, b, y) ==
    \A j \in Jobs : /\ a[j] \in Terminal => b[j] = a[j]
                    /\ a[j] = "succeeded" => y[j] = x[j]

LEMMA MeritsStand ==
    ASSUME NEW a, NEW x, NEW b, NEW y, Stand(a, x, b, y), NEW w,
           NEW c, NEW d, d = 0 => c = 0, NEW f, NEW g, g = 0 => f = 0,
           Merits(a, x, w, c, f)
    PROVE  Merits(b, y, w, d, g)
<1>1. Counted(w, d)
  BY DEF Merits, Counted
<1>2. ASSUME NEW r \in Runs, w.runs[r].status = "succeeded"
      PROVE  /\ \A p \in Plan : b[<<r, p>>] = "succeeded"
             /\ w.runs[r].metrics = Total(y, r, Scoring)
  <2>1. /\ \A p \in Plan : a[<<r, p>>] = "succeeded"
        /\ w.runs[r].metrics = Total(x, r, Scoring)
    BY <1>2 DEF Merits, Deserved
  <2>2. \A p \in Plan : b[<<r, p>>] = "succeeded" /\ x[<<r, p>>] = y[<<r, p>>]
    BY <2>1, PlanFacts DEF Stand, Terminal
  <2>3. Total(x, r, Scoring) = Total(y, r, Scoring)
    BY <2>2, ScoringPhases, TotalKept
  <2> QED
    BY <2>1, <2>2, <2>3
<1>3. ASSUME d = 0, g = 0, NEW r \in Runs, w.runs[r].status = "failed"
      PROVE  \E p \in Plan : b[<<r, p>>] \in {"failed", "cancelled"}
  <2>1. PICK p \in Plan : a[<<r, p>>] \in {"failed", "cancelled"}
    BY <1>3 DEF Merits, Deserved
  <2>2. b[<<r, p>>] = a[<<r, p>>]
    BY <2>1, PlanFacts DEF Stand, Terminal
  <2> QED
    BY <2>1, <2>2
<1>4. ASSUME NEW r \in Runs, w.runs[r].status = "cancelled"
      PROVE  Folds = 0 /\ \E p \in Plan : b[<<r, p>>] = "cancelled"
  <2>1. Folds = 0
    BY <1>4 DEF Merits, Deserved
  <2>2. PICK p \in Plan : a[<<r, p>>] = "cancelled"
    BY <1>4 DEF Merits, Deserved
  <2>3. b[<<r, p>>] = a[<<r, p>>]
    BY <2>2, PlanFacts DEF Stand, Terminal
  <2> QED
    BY <2>1, <2>2, <2>3
<1> QED
  BY <1>1, <1>2, <1>3, <1>4 DEF Merits, Deserved

\* Two records with the same progress and verdicts; an open candidate may be
\* queued in one and running in the other.
SameProgress(v, w) ==
    /\ w.completed = v.completed
    /\ SameVerdicts(v.runs, w.runs)
    /\ \A r \in Runs : w.runs[r].status = v.runs[r].status
                       \/ {v.runs[r].status, w.runs[r].status} \subseteq Open

LEMMA MeritsKept ==
    ASSUME NEW js, NEW res, NEW v, NEW w, NEW c, NEW f, SameProgress(v, w),
           Merits(js, res, v, c, f)
    PROVE  Merits(js, res, w, c, f)
<1>1. Settled(w) = Settled(v)
  BY DEF Settled, SameProgress, Open, Terminal
<1>2. Counted(w, c)
  BY <1>1 DEF Merits, Counted, SameProgress
<1>3. Deserved(js, res, w, c, f)
  BY DEF Merits, Deserved, SameProgress, SameVerdicts, Open
<1> QED
  BY <1>2, <1>3 DEF Merits

\* The tally of a coroutine that does not move, while its record may: the jobs it
\* has added up are over.
LEMMA TallyStands ==
    ASSUME NEW a, NEW x, NEW b, NEW y, Stand(a, x, b, y), NEW obs, NEW e,
           NEW n \in PcRecord, NEW f, NEW g, g = 0 => f = 0,
           NEW w, JobsAt(a, f, n), RecordAt(a, e, w, n), Position(e, n),
           Tally(a, x, obs, e, n, f)
    PROVE  Tally(b, y, obs, e, n, g)
<1> SUFFICES ASSUME Planned(n)
             PROVE  Tally(b, y, obs, e, n, g)
  BY DEF Tally
<1>1. n.run \in Runs /\ n.phase \in Plan /\ Plan \subseteq Nat
  BY PlanFacts DEF PcRecord, Planned, Phases
<1>2. \A q \in Plan : q < n.phase => a[<<n.run, q>>] = "succeeded"
  BY DEF JobsAt
<1>3. \A q \in Plan : a[<<n.run, q>>] = "succeeded" => x[<<n.run, q>>] = y[<<n.run, q>>]
  BY <1>1, PlanFacts DEF Stand
<1>4. Before(n.phase) \subseteq Scoring /\ UpTo(n.phase) \subseteq Scoring /\ Scoring \subseteq Plan
  BY <1>1, ScoringPhases
<1>5. Total(x, n.run, Before(n.phase)) = Total(y, n.run, Before(n.phase))
  <2>1. \A q \in Before(n.phase) : x[<<n.run, q>>] = y[<<n.run, q>>]
    BY <1>2, <1>3, <1>4 DEF Before
  <2> QED
    BY <1>1, <1>4, <2>1, TotalKept
<1>6. ASSUME n.at = "decide", e.runs[n.run].phases[n.phase] = "succeeded"
      PROVE  Total(x, n.run, UpTo(n.phase)) = Total(y, n.run, UpTo(n.phase))
  <2>1. a[<<n.run, n.phase>>] = "succeeded"
    BY <1>6 DEF RecordAt
  <2>2. \A q \in UpTo(n.phase) : q < n.phase \/ q = n.phase
    <3>1. \A q \in UpTo(n.phase) : q \in Nat /\ q <= n.phase
      BY <1>1, <1>4 DEF UpTo
    <3>2. n.phase \in Nat
      BY <1>1
    <3> QED
      BY <3>1, <3>2
  <2>3. \A q \in UpTo(n.phase) : x[<<n.run, q>>] = y[<<n.run, q>>]
    BY <1>1, <1>2, <1>3, <1>4, <2>1, <2>2
  <2> QED
    BY <1>1, <1>4, <2>3, TotalKept
<1>7. ASSUME n.at = "decide"
      PROVE  /\ e.runs[n.run].phases[n.phase] = "cancelled" =>
                   b[<<n.run, n.phase>>] = "cancelled"
             /\ g = 0 /\ e.runs[n.run].phases[n.phase] # "succeeded" =>
                   b[<<n.run, n.phase>>] \in {"failed", "cancelled"}
  <2>1. <<n.run, n.phase>> \in Jobs
    BY <1>1, PlanFacts
  <2>2. a[<<n.run, n.phase>>] \in Terminal => b[<<n.run, n.phase>>] = a[<<n.run, n.phase>>]
    BY <2>1 DEF Stand
  <2> QED
    BY <1>7, <2>2 DEF Tally, Terminal
<1> QED
  BY <1>5, <1>6, <1>7 DEF Tally

LEMMA VerdictParts ==
    ASSUME VerdictInv
    PROVE  /\ Merits(jobs, result, row, crashes, faults)
           /\ Busy(pc) => Merits(jobs, result, live, crashes, faults)
           /\ Tally(jobs, result, observed, live, pc, faults)
BY DEF VerdictInv

\* Where an exception of a write takes the coroutine, nothing is added up.
LEMMA HandlerTally ==
    ASSUME NEW js, NEW res, NEW obs, NEW e, NEW f, NEW n \in PcRecord
    PROVE  Tally(js, res, obs, e, Handler(n), f)
<1>1. Handler(n).at \in {"failing", "raised", "none"}
  BY DEF Handler, At, Nowhere
<1> QED
  BY <1>1 DEF Tally

\* A write of the record e before the point n.
LEMMA SaveVerdict ==
    ASSUME IInv, VerdictInv, NEW e, NEW n \in PcRecord, Save(e, n),
           Merits(jobs, result, e, crashes, faults),
           Tally(jobs, result, observed', e, n, faults),
           UNCHANGED <<jobs, result, crashes>>
    PROVE  VerdictInv'
<1>1. live' = e /\ (faults' = 0 => faults = 0)
  BY SaveCounts DEF IInv, Save
<1>2. Stand(jobs, result, jobs, result)
  BY DEF Stand
<1>3. /\ Merits(jobs, result, e, crashes, faults')
      /\ Merits(jobs, result, row, crashes, faults')
  BY <1>1, <1>2, MeritsStand, VerdictParts
<1>4. CASE row' = e /\ pc' = [n EXCEPT !.writing = TRUE] /\ UNCHANGED faults
  <2>1. pc'.at = n.at /\ pc'.run = n.run /\ pc'.phase = n.phase
    BY <1>4 DEF PcRecord
  <2>2. Tally(jobs, result, observed', e, pc', faults)
    BY <2>1 DEF Tally, Planned, InPhase
  <2> QED
    BY <1>3, <1>4, <2>2 DEF VerdictInv, Save
<1>5. CASE IOError /\ pc' = Handler(n) /\ UNCHANGED row
  <2>1. Tally(jobs, result, observed', e, pc', faults')
    BY <1>5, HandlerTally
  <2> QED
    BY <1>3, <1>5, <2>1 DEF VerdictInv, Save
<1> QED
  BY <1>4, <1>5 DEF Save

\* A write between two points of a phase.
LEMMA PhaseWriteVerdict ==
    ASSUME IInv, PlanInv, VerdictInv, InPhase(pc), pc.at # "raised",
           NEW e, SameProgress(live, e), NEW point \in {"await", "decide"},
           Save(e, At(point, pc.run, pc.phase)),
           Tally(jobs, result, observed', e, At(point, pc.run, pc.phase), faults),
           UNCHANGED <<jobs, result, crashes>>
    PROVE  VerdictInv'
<1> DEFINE n == At(point, pc.run, pc.phase)
<1>1. n \in PcRecord
  BY BusyParts DEF At, PcRecord, Points
<1>2. Merits(jobs, result, live, crashes, faults)
  BY VerdictParts DEF Busy
<1>3. Merits(jobs, result, e, crashes, faults)
  BY <1>2, MeritsKept
<1>4. Save(e, n) /\ Tally(jobs, result, observed', e, n, faults)
  OBVIOUS
<1> HIDE DEF n
<1> QED
  BY <1>1, <1>3, <1>4, SaveVerdict

\* The coroutine and the records stay, the jobs move on.
LEMMA RestVerdict ==
    ASSUME IInv, PlanInv, VerdictInv, Stand(jobs, result, jobs', result'),
           UNCHANGED <<live, observed, row, pc, crashes, faults>>
    PROVE  VerdictInv'
<1>1. /\ Merits(jobs', result', row, crashes, faults)
      /\ Busy(pc) => Merits(jobs', result', live, crashes, faults)
  BY VerdictParts, MeritsStand
<1>2. Tally(jobs', result', observed, live, pc, faults)
  BY VerdictParts, BusyParts, TallyStands
<1> QED
  BY <1>1, <1>2 DEF VerdictInv

LEMMA RecordJobVerdict == ASSUME IInv, PlanInv, VerdictInv, RecordJob PROVE VerdictInv'
<1>1. /\ pc.at = "record" /\ InPhase(pc) /\ UNCHANGED <<jobs, result, crashes, observed>>
      /\ Save(Recorded, At("await", pc.run, pc.phase))
  BY DEF RecordJob, Running, InPhase, untouched, kept
<1>2. /\ Recorded.completed = live.completed
      /\ \A q \in Runs : q # pc.run => Recorded.runs[q].status = live.runs[q].status
      /\ pc.phase = TEST => Recorded.runs[pc.run].status = live.runs[pc.run].status
      /\ pc.phase # TEST => Recorded.runs[pc.run].status = "running"
      /\ SameVerdicts(live.runs, Recorded.runs)
  BY <1>1, BusyParts, RecordedStep DEF CoreInv, Ranked
<1>3. pc.phase # TEST => live.runs[pc.run].status \in Open
  BY <1>1, BusyParts DEF Position, Runs
<1>4. SameProgress(live, Recorded)
  BY <1>2, <1>3 DEF SameProgress, Open
<1>5. Tally(jobs, result, observed, Recorded, At("await", pc.run, pc.phase), faults)
  BY <1>1, VerdictParts DEF Tally, Planned, InPhase, At
<1> QED
  BY <1>1, <1>4, <1>5, PhaseWriteVerdict

\* The end of a phase: a successful one has added what its job reported.
LEMMA PhaseEndsVerdict ==
    ASSUME IInv, PlanInv, VerdictInv, InPhase(pc), pc.at # "raised", NEW status \in Terminal,
           Save(SetPhase(status), At("decide", pc.run, pc.phase)),
           pc.phase # TEST /\ status = "succeeded" =>
              observed' = Total(result, pc.run, UpTo(pc.phase)),
           status = "cancelled" => jobs[job] = "cancelled",
           faults = 0 /\ status # "succeeded" => jobs[job] \in {"failed", "cancelled"},
           UNCHANGED <<jobs, result, crashes>>
    PROVE  VerdictInv'
<1>1. /\ SetPhase(status).completed = live.completed
      /\ \A q \in Runs : SetPhase(status).runs[q].status = live.runs[q].status
      /\ SetPhase(status).runs[pc.run].phases[pc.phase] = status
      /\ SameVerdicts(live.runs, SetPhase(status).runs)
  BY BusyParts, SetPhaseStep DEF CoreInv, Ranked
<1>2. SameProgress(live, SetPhase(status))
  BY <1>1 DEF SameProgress
<1>3. Tally(jobs, result, observed', SetPhase(status), At("decide", pc.run, pc.phase), faults)
  BY <1>1 DEF Tally, Planned, InPhase, At, job
<1> QED
  BY <1>2, <1>3, PhaseWriteVerdict

\* An exception inside _run_phase.
LEMMA RaiseVerdict ==
    ASSUME IInv, PlanInv, VerdictInv, InPhase(pc), IOError,
           pc' = [pc EXCEPT !.at = "failing"],
           UNCHANGED <<jobs, result, live, row, crashes>>
    PROVE  VerdictInv'
<1>1. Stand(jobs, result, jobs, result) /\ faults' # 0
  BY FaultCounts DEF Stand, IInv
<1>2. /\ Merits(jobs, result, row, crashes, faults')
      /\ Merits(jobs, result, live, crashes, faults')
  BY <1>1, VerdictParts, MeritsStand DEF Busy
<1>3. pc'.at = "failing"
  BY BusyParts DEF PcRecord
<1>4. Tally(jobs, result, observed', live, pc', faults')
  BY <1>3 DEF Tally
<1> QED
  BY <1>2, <1>4 DEF VerdictInv

LEMMA FailPhaseVerdict == ASSUME IInv, PlanInv, VerdictInv, FailPhase PROVE VerdictInv'
<1>1. /\ pc.at = "failing" /\ InPhase(pc) /\ UNCHANGED <<jobs, result, crashes>>
      /\ Save(SetPhase("failed"), At("decide", pc.run, pc.phase))
  BY DEF FailPhase, Running, InPhase, untouched, kept
<1>2. faults = 0 => jobs[job] = "cancelled"
  BY <1>1, BusyParts DEF JobsAt, job
<1> QED
  BY <1>1, <1>2, PhaseEndsVerdict DEF Terminal

LEMMA RunJobReturnsVerdict == ASSUME IInv, PlanInv, VerdictInv, RunJobReturns PROVE VerdictInv'
<1>1. /\ pc.at = "await" /\ InPhase(pc) /\ UNCHANGED <<jobs, result, crashes>>
      /\ jobs[job] \in Terminal
  BY DEF RunJobReturns, Running, InPhase, kept
<1>2. CASE /\ Save(SetPhase(jobs[job]), At("decide", pc.run, pc.phase))
           /\ observed' = ObservedAfter
  <2>1. ASSUME pc.phase # TEST, jobs[job] = "succeeded"
        PROVE  observed' = Total(result, pc.run, UpTo(pc.phase))
    <3>1. pc.run \in Runs /\ pc.phase \in Plan /\ result \in [Jobs -> Metrics \cup {NoMetrics}]
      BY <2>1, BusyParts DEF Phases, RestType
    <3>2. observed = Total(result, pc.run, Before(pc.phase))
      BY <1>1, <2>1, VerdictParts DEF Tally, Planned
    <3>3. CASE pc.phase \in Scoring
      <4>1. /\ UpTo(pc.phase) = Before(pc.phase) \cup {pc.phase}
            /\ pc.phase \notin Before(pc.phase) /\ Before(pc.phase) \in SUBSET Scoring
        BY <3>1, <3>3, ScoringPhases
      <4>2. Total(result, pc.run, UpTo(pc.phase)) = Plus(observed, result[<<pc.run, pc.phase>>])
        BY <3>1, <3>2, <3>3, <4>1, TotalAdds
      <4> QED
        BY <1>2, <2>1, <3>3, <4>2 DEF ObservedAfter, job
    <3>4. CASE pc.phase \notin Scoring
      BY <1>2, <3>1, <3>2, <3>4, ScoringPhases DEF ObservedAfter
    <3> QED
      BY <3>3, <3>4
  <2> QED
    BY <1>1, <1>2, <2>1, PhaseEndsVerdict DEF Terminal
<1>3. CASE IOError /\ pc' = [pc EXCEPT !.at = "failing"] /\ UNCHANGED <<live, row>>
  BY <1>1, <1>3, RaiseVerdict
<1> QED
  BY <1>2, <1>3 DEF RunJobReturns

LEMMA RunJobRaisesVerdict == ASSUME IInv, PlanInv, VerdictInv, RunJobRaises PROVE VerdictInv'
BY RaiseVerdict DEF RunJobRaises, Running, InPhase, untouched, kept, Contract!Release

LEMMA RunJobRefusedVerdict == ASSUME IInv, PlanInv, VerdictInv, RunJobRefused PROVE VerdictInv'
<1>1. /\ pc.at = "await" /\ pc' = [pc EXCEPT !.at = "failing"]
      /\ UNCHANGED <<jobs, result, live, observed, row, crashes, faults>>
  BY DEF RunJobRefused, Running, untouched, kept
<1>2. Busy(pc) /\ pc'.at = "failing"
  BY <1>1, BusyParts DEF Busy, InPhase, PcRecord
<1>3. Tally(jobs, result, observed, live, pc', faults)
  BY <1>2 DEF Tally
<1> QED
  BY <1>1, <1>2, <1>3, VerdictParts DEF VerdictInv

\* The next phase of the plan continues the tally.
LEMMA NextPhaseVerdict == ASSUME IInv, PlanInv, VerdictInv, NextPhase PROVE VerdictInv'
<1>1. /\ pc.at = "decide" /\ pc.phase \in 1..(PlanLength - 1) /\ PhaseSucceeded
      /\ pc' = At("create", pc.run, pc.phase + 1)
      /\ UNCHANGED <<jobs, result, observed, live, row, crashes, faults>>
  BY DEF NextPhase, Running, untouched, kept
<1>2. /\ pc.phase \in Plan /\ pc.phase + 1 \in Plan /\ pc.phase # TEST
  BY <1>1, PlanFacts DEF TEST, Plan
<1>3. observed = Total(result, pc.run, UpTo(pc.phase))
  BY <1>1, <1>2, VerdictParts DEF Tally, Planned, InPhase, PhaseSucceeded
<1>4. Before(pc.phase + 1) = UpTo(pc.phase)
  BY <1>2, ScoringPhases
<1>5. Tally(jobs, result, observed, live, pc', faults)
  BY <1>1, <1>3, <1>4 DEF Tally, At
<1>6. Busy(pc)
  BY <1>1 DEF Busy, InPhase
<1> QED
  BY <1>1, <1>5, <1>6, VerdictParts DEF VerdictInv

LEMMA TestReturnsVerdict == ASSUME IInv, PlanInv, VerdictInv, TestReturns PROVE VerdictInv'
<1>1. /\ pc.at = "decide" /\ pc' = [pc EXCEPT !.at = "conclude"]
      /\ UNCHANGED <<jobs, result, observed, live, row, crashes, faults>>
  BY DEF TestReturns, Running, untouched, kept
<1>2. Busy(pc) /\ pc'.at = "conclude"
  BY <1>1, BusyParts DEF Busy, InPhase, PcRecord
<1>3. Tally(jobs, result, observed, live, pc', faults)
  BY <1>2 DEF Tally
<1> QED
  BY <1>1, <1>2, <1>3, VerdictParts DEF VerdictInv

\* A record that ranks its candidates once more has the same progress.
LEMMA RankedProgress ==
    ASSUME NEW v \in Experiment, v.runs = Evaluated(v.runs), NEW w,
           w.completed = v.completed, w.runs = v.runs
    PROVE  SameProgress(v, w)
BY DEF SameProgress, SameVerdicts

LEMMA SelectVerdict == ASSUME IInv, PlanInv, VerdictInv, Select PROVE VerdictInv'
<1>1. /\ pc.at = "select" /\ live' = [live EXCEPT !.runs = Evaluated(@)]
      /\ UNCHANGED <<jobs, result, observed, row, crashes, faults>>
  BY DEF Select, Running, untouched, kept
<1>2. live \in Experiment /\ live.runs = Evaluated(live.runs)
  BY BusyParts DEF CoreInv, Ranked
<1>3. SameProgress(live, live')
  BY <1>1, <1>2, RankedProgress DEF Experiment
<1>4. Merits(jobs, result, live', crashes, faults)
  BY <1>1, <1>3, VerdictParts, MeritsKept DEF Busy
<1>5. ~Planned(pc')
  BY <1>1, BusyParts DEF Select, Planned, InPhase, At, PcRecord
<1>6. Tally(jobs, result, observed, live', pc', faults)
  BY <1>5 DEF Tally
<1> QED
  BY <1>1, <1>4, <1>6, VerdictParts DEF VerdictInv

LEMMA ConcludeVerdict == ASSUME IInv, PlanInv, VerdictInv, Conclude PROVE VerdictInv'
<1> DEFINE e == [live EXCEPT !.status = FinalStatus, !.runs = Evaluated(@)]
<1>1. /\ pc.at = "conclude" /\ Save(e, Nowhere)
      /\ UNCHANGED <<jobs, result, observed, crashes>>
  BY DEF Conclude, Running, untouched, kept
<1>2. live \in Experiment /\ live.runs = Evaluated(live.runs)
  BY BusyParts DEF CoreInv, Ranked
<1>a. e.runs = live.runs /\ e.completed = live.completed
  BY <1>2 DEF Experiment
<1> HIDE DEF e
<1>3. SameProgress(live, e)
  BY <1>2, <1>a, RankedProgress
<1>4. Merits(jobs, result, e, crashes, faults)
  BY <1>1, <1>3, VerdictParts, MeritsKept DEF Busy
<1>5. Tally(jobs, result, observed', e, Nowhere, faults) /\ Nowhere \in PcRecord
  BY NowhereIsIdle, FreshType DEF Tally
<1> QED
  BY <1>1, <1>4, <1>5, SaveVerdict

\* A record without a verdict deserves it.
LEMMA FreshMerits ==
    ASSUME NEW js, NEW res, NEW w, NEW c, NEW f, w.completed = 0,
           \A r \in Runs : w.runs[r].status = "queued"
    PROVE  Merits(js, res, w, c, f)
<1>1. Settled(w) = {}
  BY DEF Settled, Terminal
<1>2. Cardinality(Settled(w)) = 0
  BY <1>1, FS_EmptySet
<1> QED
  BY <1>2 DEF Merits, Deserved, Counted

LEMMA FreshRecord ==
    /\ NoExperiment.completed = 0 /\ Queued.completed = 0
    /\ \A r \in Runs : /\ NoExperiment.runs[r].status = "queued"
                       /\ Queued.runs[r].status = "queued"
BY DEF NoExperiment, Queued, Fresh

LEMMA CreateVerdict == ASSUME IInv, PlanInv, VerdictInv, Create PROVE VerdictInv'
<1> DEFINE n == At("launched", 1, 1)
<1>1. Save(Queued, n) /\ UNCHANGED <<jobs, result, observed, crashes>>
  BY DEF Create, Queued, untouched, kept
<1>2. n \in PcRecord /\ ~Planned(n)
  BY PlanFacts DEF At, PcRecord, Points, Planned, InPhase, Runs
<1>3. Merits(jobs, result, Queued, crashes, faults)
  BY FreshMerits, FreshRecord
<1>4. Tally(jobs, result, observed', Queued, n, faults)
  BY <1>2 DEF Tally
<1> HIDE DEF n
<1> QED
  BY <1>1, <1>2, <1>3, <1>4, SaveVerdict

LEMMA BeginVerdict == ASSUME IInv, PlanInv, VerdictInv, Begin PROVE VerdictInv'
<1> DEFINE e == [row EXCEPT !.status = "running"]
           n == At("create", 1, 1)
<1>1. row = Queued /\ Save(e, n) /\ UNCHANGED <<jobs, result, observed, crashes>>
  BY DEF Begin, Running, IInv, LaunchedIsQueued, untouched, kept
<1>2. n \in PcRecord /\ n.at = "create" /\ n.phase = 1
  BY PlanFacts DEF At, PcRecord, Points, Runs
<1>3. e.completed = 0 /\ \A r \in Runs : e.runs[r].status = "queued"
  BY <1>1, FreshType, FreshRecord DEF Experiment
<1> HIDE DEF e, n
<1>4. Merits(jobs, result, e, crashes, faults)
  BY <1>3, FreshMerits
<1>5. Tally(jobs, result, observed', e, n, faults)
  BY <1>2 DEF Tally
<1> QED
  BY <1>1, <1>2, <1>4, <1>5, SaveVerdict

\* The first job of a candidate begins an empty tally.
LEMMA CreateJobVerdict == ASSUME IInv, PlanInv, VerdictInv, CreateJob PROVE VerdictInv'
<1>1. /\ pc.at = "create" /\ InPhase(pc) /\ observed' = ObservedBefore
      /\ UNCHANGED <<result, live, row, crashes>>
  BY DEF CreateJob, Running, InPhase, kept
<1>2. CASE IOError /\ pc' = [pc EXCEPT !.at = "failing"] /\ UNCHANGED jobs
  BY <1>1, <1>2, RaiseVerdict
<1>3. CASE Contract!Submit({job}) /\ pc' = [pc EXCEPT !.at = "record"] /\ UNCHANGED faults
  <2>1. /\ pc'.at = "record" /\ pc'.run = pc.run /\ pc'.phase = pc.phase
        /\ (Planned(pc') <=> Planned(pc)) /\ pc' \in PcRecord
    BY <1>1, <1>3, BusyParts DEF PcRecord, Planned, InPhase, Points
  <2>2. Stand(jobs, result, jobs', result')
    BY <1>1, <1>3 DEF Stand, Terminal, Contract!Submit
  <2>3. Planned(pc) => observed' = Total(result, pc.run, Before(pc.phase))
    <3>1. CASE pc.phase = 1
      BY <1>1, <3>1, ScoringPhases, TotalOfNothing DEF ObservedBefore
    <3>2. CASE pc.phase # 1
      BY <1>1, <3>2, VerdictParts DEF ObservedBefore, Tally
    <3> QED
      BY <3>1, <3>2
  <2>4. /\ Merits(jobs', result', row, crashes, faults)
        /\ Merits(jobs', result', live, crashes, faults)
    BY <1>1, <2>2, VerdictParts, MeritsStand DEF Busy
  <2>5. Tally(jobs', result', observed', live, pc', faults)
    BY <1>1, <2>1, <2>3 DEF Tally
  <2> QED
    BY <1>1, <1>3, <2>4, <2>5 DEF VerdictInv
<1> QED
  BY <1>2, <1>3 DEF CreateJob

LEMMA WriteFileVerdict == ASSUME IInv, PlanInv, VerdictInv, WriteFile PROVE VerdictInv'
<1>1. UNCHANGED <<jobs, result, live, observed, row, crashes>> /\ TypeOK
  BY BusyParts DEF WriteFile
<1>2. CASE pc' = [pc EXCEPT !.writing = FALSE] /\ UNCHANGED faults
  <2>1. pc'.at = pc.at /\ pc'.run = pc.run /\ pc'.phase = pc.phase
    BY <1>2, BusyParts DEF PcRecord
  <2>2. Tally(jobs, result, observed, live, pc', faults) /\ (Busy(pc') <=> Busy(pc))
    BY <2>1, VerdictParts DEF Tally, Planned, Busy, InPhase
  <2> QED
    BY <1>1, <1>2, <2>2, VerdictParts DEF VerdictInv
<1>3. CASE IOError /\ pc' = Handler(pc)
  <2>1. Stand(jobs, result, jobs, result) /\ faults' # 0
    BY <1>1, <1>3, FaultCounts DEF Stand
  <2>2. Busy(pc') => Busy(pc)
    BY <1>3 DEF Handler, Busy, InPhase, At, Nowhere
  <2>3. /\ Merits(jobs, result, row, crashes, faults')
        /\ Busy(pc) => Merits(jobs, result, live, crashes, faults')
    BY <2>1, VerdictParts, MeritsStand
  <2>4. Tally(jobs, result, observed, live, pc', faults')
    BY <1>3, BusyParts, HandlerTally
  <2> QED
    BY <1>1, <2>2, <2>3, <2>4 DEF VerdictInv
<1> QED
  BY <1>2, <1>3 DEF WriteFile

\* Only a job without a verdict gets one, with its result.
LEMMA SubsystemVerdict ==
    ASSUME IInv, PlanInv, VerdictInv, JobStarts \/ JobFinishes \/ CancelJob \/ ReconcileJobs
    PROVE  VerdictInv'
<1>1. TypeOK /\ job \in Jobs
  BY BusyParts, CurrentJob
<1>2. UNCHANGED <<live, observed, row, pc, crashes, faults>>
  BY DEF JobStarts, JobFinishes, CancelJob, ReconcileJobs, untouched, kept
<1>3. Stand(jobs, result, jobs', result')
  <2>1. CASE JobFinishes
    <3>1. Advanced(jobs, jobs') /\ jobs[job] \notin Terminal
      BY <1>1, <2>1, JobsAdvance
         DEF JobFinishes, Contract!Finish, Terminal
    <3>2. \A j \in Jobs : j # job => result'[j] = result[j]
      BY <1>1, <2>1 DEF JobFinishes, TypeOK
    <3> QED
      BY <3>1, <3>2 DEF Stand, Advanced, Terminal
  <2>2. CASE JobStarts \/ CancelJob \/ ReconcileJobs
    <3>1. Advanced(jobs, jobs')
      <4>1. CASE UNCHANGED jobs
        BY <4>1, Unmoved
      <4>2. CASE ~UNCHANGED jobs
        BY <1>1, <2>2, <4>2, JobsAdvance DEF JobStarts, CancelJob, ReconcileJobs
      <4> QED
        BY <4>1, <4>2
    <3>2. result' = result
      BY <2>2 DEF JobStarts, CancelJob, ReconcileJobs, untouched, kept
    <3> QED
      BY <3>1, <3>2 DEF Stand, Advanced, Terminal
  <2> QED
    BY <2>1, <2>2
<1> QED
  BY <1>2, <1>3, RestVerdict

LEMMA CrashVerdict == ASSUME IInv, PlanInv, VerdictInv, Crash PROVE VerdictInv'
<1>1. /\ UNCHANGED <<jobs, result, row, faults>> /\ crashes' # 0 /\ pc' = Nowhere
  BY DEF Crash, IInv, TypeOK
<1>2. Stand(jobs, result, jobs, result)
  BY DEF Stand
<1>3. Merits(jobs, result, row, crashes', faults)
  BY <1>1, <1>2, VerdictParts, MeritsStand
<1> QED
  BY <1>1, <1>3, NowhereIsIdle DEF VerdictInv, Tally

\* An interrupted experiment gives no success away.
LEMMA ReconcileExperimentVerdict ==
    ASSUME IInv, PlanInv, VerdictInv, ReconcileExperiment PROVE VerdictInv'
<1>1. /\ server = "experiments" /\ UNCHANGED <<jobs, result, observed, crashes, faults>>
  BY DEF ReconcileExperiment
<1>2. crashes # 0 /\ row \in Experiment
  BY <1>1, BusyParts DEF Attended, CoreInv
<1>3. CASE Abandoned
  <2>1. row' = Interrupted(row) /\ pc' = [Nowhere EXCEPT !.writing = TRUE]
    BY <1>3 DEF ReconcileExperiment
  <2>2. ~Busy(pc') /\ ~Planned(pc')
    BY <2>1 DEF Nowhere, At, Busy, Planned, InPhase
  <2>3. /\ row'.completed = row.completed
        /\ \A r \in Runs : /\ row'.runs[r].metrics = row.runs[r].metrics
                           /\ row'.runs[r].status = IF row.runs[r].status \in Open THEN "failed"
                                                    ELSE row.runs[r].status
    <3> DEFINE table == [r \in Runs |-> IF row.runs[r].status \in Open
                                       THEN [row.runs[r] EXCEPT !.status = "failed"]
                                       ELSE row.runs[r]]
    <3>1. row' = [row EXCEPT !.status = "failed", !.runs = table]
      BY <2>1 DEF Interrupted
    <3>2. row.runs \in [Runs -> Candidate]
      BY <1>2 DEF Experiment
    <3>3. \A r \in Runs : /\ table[r].metrics = row.runs[r].metrics
                          /\ table[r].status = IF row.runs[r].status \in Open THEN "failed"
                                               ELSE row.runs[r].status
      BY <3>2 DEF Candidate
    <3> HIDE DEF table
    <3>4. row'.completed = row.completed /\ row'.runs = table
      BY <1>2, <3>1 DEF Experiment
    <3> QED
      BY <3>3, <3>4
  <2>4. Settled(row) \subseteq Settled(row') /\ IsFiniteSet(Settled(row'))
    BY <2>3, RunsFinite, FS_Subset DEF Settled, Open, Terminal
  <2>5. /\ Cardinality(Settled(row)) <= Cardinality(Settled(row'))
        /\ Cardinality(Settled(row)) \in Nat /\ Cardinality(Settled(row')) \in Nat
    BY <2>4, FS_Subset, FS_CardinalityType
  <2>6. row.completed \in Nat /\ row.completed <= Cardinality(Settled(row))
    BY <1>2, VerdictParts, RunsFinite DEF Experiment, Merits, Counted
  <2>7. row'.completed <= Cardinality(Settled(row'))
    BY <2>3, <2>5, <2>6
  <2>8. Deserved(jobs, result, row', crashes, faults)
    BY <1>2, <2>3, VerdictParts DEF Merits, Deserved, Open
  <2> QED
    BY <1>1, <1>2, <2>2, <2>7, <2>8 DEF VerdictInv, Merits, Counted, Tally
<1>4. CASE ~Abandoned
  BY <1>1, <1>4, VerdictParts DEF ReconcileExperiment, VerdictInv
<1> QED
  BY <1>3, <1>4

\* What a verdict changes in the table of candidates.
LEMMA ProgressedRuns ==
    ASSUME live \in Experiment, observed \in [score : Int, cost : Int],
           pc \in PcRecord, Verdict \in Terminal
    PROVE  \A r \in Runs :
              /\ Progressed.runs[r].status = IF r = pc.run THEN Verdict ELSE live.runs[r].status
              /\ Progressed.runs[r].metrics =
                    IF r = pc.run /\ Verdict = "succeeded" THEN observed
                    ELSE live.runs[r].metrics
<1>1. live.runs \in [Runs -> Candidate] /\ live.runs[pc.run] \in Candidate /\ pc.run \in Runs
  BY DEF Experiment, PcRecord
<1>2. /\ Scored \in Candidate /\ Scored.status = Verdict
      /\ Scored.metrics = IF Verdict = "succeeded" THEN observed
                          ELSE live.runs[pc.run].metrics
  <2> HIDE DEF Verdict
  <2> QED
    BY <1>1 DEF Scored, Candidate
<1> DEFINE table == [live.runs EXCEPT ![pc.run] = Scored]
<1>3. /\ table \in [Runs -> Candidate]
      /\ table[pc.run] = Scored
      /\ \A r \in Runs : r # pc.run => table[r] = live.runs[r]
  BY <1>1, <1>2
<1>4. Progressed.runs = Evaluated(table)
  BY <1>1 DEF Progressed, Experiment
<1> HIDE DEF table
<1>5. \A r \in Runs : /\ Progressed.runs[r].status = table[r].status
                      /\ Progressed.runs[r].metrics = table[r].metrics
  BY <1>3, <1>4, EvaluatedType DEF SameVerdicts
<1> QED
  BY <1>2, <1>3, <1>5

\* The verdict adds one to the progress and to the candidates that have one, and
\* is that of the jobs.
LEMMA ScoreCandidateVerdict ==
    ASSUME IInv, PlanInv, VerdictInv, ScoreCandidate PROVE VerdictInv'
<1>1. /\ pc.at \in {"decide", "raised"} /\ pc.phase # TEST
      /\ pc.at = "decide" /\ PhaseSucceeded => pc.phase = PlanLength
      /\ UNCHANGED <<jobs, result, observed, crashes>>
      /\ Save(Progressed, AfterCandidate)
  BY BusyParts DEF ScoreCandidate, Running, Position, untouched, kept
<1>2. /\ pc \in PcRecord /\ pc.run \in Runs /\ pc.phase \in Plan
      /\ Position(live, pc) /\ JobsAt(jobs, faults, pc) /\ RecordAt(jobs, live, row, pc)
      /\ live \in Experiment /\ observed \in [score : Int, cost : Int]
      /\ Planned(pc) /\ Busy(pc) /\ InPhase(pc)
  BY <1>1, BusyParts DEF CoreInv, RestType, Phases, Planned, Busy, InPhase
<1>3. /\ Merits(jobs, result, live, crashes, faults)
      /\ Tally(jobs, result, observed, live, pc, faults)
  BY <1>2, VerdictParts
<1>4. Verdict \in Terminal
  BY <1>1, <1>2 DEF Verdict, Position, Terminal
<1>5. ASSUME Verdict = "succeeded"
      PROVE  /\ \A p \in Plan : jobs[<<pc.run, p>>] = "succeeded"
             /\ observed = Total(result, pc.run, Scoring)
  <2>1. pc.at = "decide" /\ PhaseSucceeded /\ pc.phase = PlanLength
    BY <1>1, <1>5 DEF Verdict, PhaseSucceeded
  <2>2. jobs[<<pc.run, pc.phase>>] = "succeeded"
    BY <1>2, <2>1 DEF RecordAt, PhaseSucceeded
  <2>3. \A p \in Plan : p < pc.phase \/ p = pc.phase
    BY <1>2, <2>1, PlanFacts DEF Plan
  <2>4. \A p \in Plan : jobs[<<pc.run, p>>] = "succeeded"
    BY <1>2, <2>2, <2>3 DEF JobsAt
  <2>5. observed = Total(result, pc.run, UpTo(pc.phase))
    BY <1>2, <1>3, <2>1 DEF Tally, PhaseSucceeded
  <2> QED
    BY <2>1, <2>4, <2>5, ScoringPhases
<1>6. ASSUME Verdict # "succeeded", faults = 0
      PROVE  jobs[<<pc.run, pc.phase>>] \in {"failed", "cancelled"}
  <2>1. pc.at = "decide"
    BY <1>1, <1>2, <1>6 DEF JobsAt
  <2>2. ~PhaseSucceeded
    BY <1>6, <2>1 DEF Verdict, PhaseSucceeded
  <2> QED
    BY <1>2, <1>3, <1>6, <2>1, <2>2 DEF Tally, PhaseSucceeded
<1>a. ASSUME Verdict = "cancelled"
      PROVE  Folds = 0 /\ jobs[<<pc.run, pc.phase>>] = "cancelled"
  <2>1. /\ pc.at = "decide" /\ live.runs[pc.run].phases[pc.phase] = "cancelled"
        /\ ~(Folds > 0)
    BY <1>1, <1>a DEF Verdict, PhaseSucceeded
  <2>2. Folds = 0
    BY <2>1, ExperimentsAssumption
  <2> QED
    BY <1>2, <1>3, <2>1, <2>2 DEF Tally
<1> DEFINE e == Progressed
           n == AfterCandidate
<1>7. \A r \in Runs :
         /\ e.runs[r].status = IF r = pc.run THEN Verdict ELSE live.runs[r].status
         /\ e.runs[r].metrics = IF r = pc.run /\ Verdict = "succeeded" THEN observed
                                ELSE live.runs[r].metrics
  BY <1>2, <1>4, ProgressedRuns
<1>8. e.completed = live.completed + 1 /\ live.completed = pc.run - 1
  BY <1>1, <1>2, ProgressedStep DEF Position, Runs
<1>9. n \in PcRecord /\ n.at \in {"create", "select"} /\ (n.at = "create" => n.phase = 1)
  BY <1>2, PlanFacts DEF AfterCandidate, At, PcRecord, Points, Runs
<1>10. Save(e, n)
  BY <1>1
<1> HIDE DEF e, n
<1>11. Deserved(jobs, result, e, crashes, faults)
  <2> SUFFICES ASSUME NEW r \in Runs
               PROVE  /\ e.runs[r].status = "succeeded" =>
                            /\ \A p \in Plan : jobs[<<r, p>>] = "succeeded"
                            /\ e.runs[r].metrics = Total(result, r, Scoring)
                      /\ e.runs[r].status = "cancelled" =>
                            Folds = 0 /\ \E p \in Plan : jobs[<<r, p>>] = "cancelled"
                      /\ crashes = 0 /\ faults = 0 /\ e.runs[r].status = "failed"
                         => \E p \in Plan : jobs[<<r, p>>] \in {"failed", "cancelled"}
    BY DEF Deserved
  <2>1. CASE r = pc.run
    BY <1>2, <1>5, <1>6, <1>7, <1>a, <2>1
  <2>2. CASE r # pc.run
    BY <1>3, <1>7, <2>2 DEF Merits, Deserved
  <2> QED
    BY <2>1, <2>2
<1>12. Counted(e, crashes)
  <2>0. pc.run >= pc.run
    <3>1. pc.run \in Nat
      BY <1>2, PlanFacts
    <3> QED
      BY <3>1
  <2>1. live.runs[pc.run].status \notin Terminal
    BY <1>1, <1>2, <2>0 DEF Position, Open, Terminal
  <2>2. Settled(e) = Settled(live) \cup {pc.run} /\ pc.run \notin Settled(live)
    BY <1>2, <1>4, <1>7, <2>1 DEF Settled
  <2>3. IsFiniteSet(Settled(live))
    BY RunsFinite, FS_Subset DEF Settled
  <2>4. /\ Cardinality(Settled(e)) = Cardinality(Settled(live)) + 1
        /\ Cardinality(Settled(live)) \in Nat
    BY <2>2, <2>3, FS_AddElement, FS_CardinalityType
  <2>5. live.completed \in Nat
    BY <1>2, RunsFinite DEF Experiment
  <2> QED
    BY <1>3, <1>8, <2>4, <2>5 DEF Merits, Counted
<1>13. Tally(jobs, result, observed', e, n, faults)
  BY <1>9 DEF Tally, Planned, InPhase
<1> QED
  BY <1>1, <1>9, <1>10, <1>11, <1>12, <1>13, SaveVerdict DEF Merits

LEMMA InitVerdict == Init => VerdictInv
<1> SUFFICES ASSUME Init PROVE VerdictInv
  OBVIOUS
<1>1. row = NoExperiment /\ pc = Nowhere
  BY DEF Init
<1>2. Merits(jobs, result, row, crashes, faults)
  BY <1>1, FreshMerits, FreshRecord
<1> QED
  BY <1>1, <1>2, NowhereIsIdle DEF VerdictInv, Tally

LEMMA NextVerdict == IInv /\ PlanInv /\ VerdictInv /\ [Next]_vars => VerdictInv'
<1> SUFFICES ASSUME IInv, PlanInv, VerdictInv, [Next]_vars PROVE VerdictInv'
  OBVIOUS
<1>1. CASE UNCHANGED vars
  <2>1. Stand(jobs, result, jobs', result')
    BY <1>1 DEF vars, Stand
  <2> QED
    BY <1>1, <2>1, RestVerdict DEF vars
<1>2. CASE Coroutine
  BY <1>2, BeginVerdict, CreateJobVerdict, RecordJobVerdict, RunJobReturnsVerdict,
     RunJobRefusedVerdict, FailPhaseVerdict, NextPhaseVerdict, ScoreCandidateVerdict, SelectVerdict,
     TestReturnsVerdict, ConcludeVerdict, WriteFileVerdict
     DEF Coroutine
<1>3. CASE Executor \/ CancelJob \/ ReconcileJobs
  BY <1>3, SubsystemVerdict DEF Executor
<1>4. CASE Create \/ RunJobRaises
  BY <1>4, CreateVerdict, RunJobRaisesVerdict
<1>5. CASE Crash \/ ReconcileExperiment
  BY <1>5, CrashVerdict, ReconcileExperimentVerdict
<1>6. CASE Restart
  <2>1. /\ UNCHANGED <<jobs, result, live, observed, row, pc, crashes, faults>>
        /\ Stand(jobs, result, jobs', result')
    BY <1>6 DEF Restart, Stand
  <2> QED
    BY <2>1, RestVerdict
<1> QED
  BY <1>1, <1>2, <1>3, <1>4, <1>5, <1>6 DEF Next

LEMMA VerdictInvariant == Spec => [](IInv /\ PlanInv /\ VerdictInv)
<1>1. Init => VerdictInv
  BY InitVerdict
<1>2. IInv /\ PlanInv /\ VerdictInv /\ [Next]_vars => VerdictInv'
  BY NextVerdict
<1> QED
  BY PlanInvariant, <1>1, <1>2, PTL DEF Spec

\* The persisted verdict of a candidate is the one of its jobs, with the sum of
\* the metrics that exactly its own scoring phases reported, and the progress is
\* the number of candidates with a verdict.  A crash, an I/O error or the
\* cancellation of a job that has not started may make a candidate fail; none of
\* them makes one succeed, or be cancelled when no job of it was.
THEOREM VerdictsAlwaysComeFromJobs == Spec => []VerdictsComeFromJobs
<1>1. IInv /\ VerdictInv => VerdictsComeFromJobs
  <2> SUFFICES ASSUME IInv, VerdictInv PROVE VerdictsComeFromJobs
    OBVIOUS
  <2>1. Deserved(jobs, result, row, crashes, faults) /\ Counted(row, crashes)
    BY VerdictParts DEF Merits
  <2>2. \A r \in Runs : Reported(r) = Total(result, r, Scoring)
    BY DEF Reported, Total
  <2> QED
    BY <2>1, <2>2 DEF VerdictsComeFromJobs, Deserved, Counted, Settled, JobsOf, Undisturbed
<1> QED
  BY VerdictInvariant, <1>1, PTL

(***************************************************************************)
(* The windows: every walk-forward, of whatever length, is cut without gap  *)
(* or overlap.                                                              *)
(***************************************************************************)
\* The windows follow from the segments, and those from their index.
Progress ==
    \/ total = 0 /\ segments = <<>> /\ windows = <<>>
    \/ /\ folds \in 2..5 /\ total \in Int /\ total >= folds + 1
       /\ segments \in Seq([first : Int, last : Int])
       /\ Len(segments) <= folds + 1
       /\ \A i \in 1..Len(segments) : segments[i] = Segment(total, folds + 1, i - 1)
       /\ \/ windows = <<>>
          \/ Len(segments) = folds + 1 /\ windows = [i \in 1..folds |-> Window(i)]

LEMMA CutsAreIntegers ==
  ASSUME NEW length \in Int, NEW count \in 3..6, NEW index \in 0..6
  PROVE  FirstDay(length, count, index) \in Int /\ LastDay(length, count, index) \in Int
<1>1. length * index \in Int /\ length * (index + 1) \in Int /\ count \in Nat \ {0}
  OBVIOUS
<1> QED
  BY <1>1 DEF FirstDay, LastDay

\* No segment is empty: the product is linear once the two small numbers are known.
LEMMA SegmentsAreNotEmpty ==
  ASSUME NEW length \in Int, NEW count \in 3..6, NEW index \in 0..(count - 1), length >= count
  PROVE  FirstDay(length, count, index) <= LastDay(length, count, index)
<1>1. CASE count = 3
  <2>1. index = 0 \/ index = 1 \/ index = 2
    BY <1>1
  <2> QED
    BY <1>1, <2>1 DEF FirstDay, LastDay
<1>2. CASE count = 4
  <2>1. index = 0 \/ index = 1 \/ index = 2 \/ index = 3
    BY <1>2
  <2> QED
    BY <1>2, <2>1 DEF FirstDay, LastDay
<1>3. CASE count = 5
  <2>1. index = 0 \/ index = 1 \/ index = 2 \/ index = 3 \/ index = 4
    BY <1>3
  <2> QED
    BY <1>3, <2>1 DEF FirstDay, LastDay
<1>4. CASE count = 6
  <2>1. index = 0 \/ index = 1 \/ index = 2 \/ index = 3 \/ index = 4 \/ index = 5
    BY <1>4
  <2> QED
    BY <1>4, <2>1 DEF FirstDay, LastDay
<1> QED
  BY <1>1, <1>2, <1>3, <1>4

LEMMA SegmentsMeet ==
  ASSUME NEW length \in Int, NEW count \in 3..6, NEW index \in 0..(count - 1)
  PROVE  FirstDay(length, count, index + 1) = LastDay(length, count, index) + 1
<1>1. (length * (index + 1)) \div count \in Int
  <2>1. length * (index + 1) \in Int /\ count \in Nat \ {0}
    OBVIOUS
  <2> QED
    BY <2>1
<1> QED
  BY <1>1 DEF FirstDay, LastDay

LEMMA SegmentsSpan ==
  ASSUME NEW length \in Int, NEW count \in 3..6
  PROVE  FirstDay(length, count, 0) = 0 /\ LastDay(length, count, count - 1) = length - 1
<1>1. count = 3 \/ count = 4 \/ count = 5 \/ count = 6
  OBVIOUS
<1> QED
  BY <1>1 DEF FirstDay, LastDay

LEMMA ProgressIsKept ==
  ASSUME Lengths \subseteq Int, Progress, [WindowsNext]_windowVars
  PROVE  Progress'
<1>1. ASSUME NEW length \in Lengths, NEW count \in 2..5, Call(length, count)
      PROVE  Progress'
  <2>1. /\ total = 0 /\ segments = <<>> /\ windows = <<>>
        /\ length \in Int /\ length >= count + 1
        /\ total' = length /\ folds' = count /\ segments' = <<>> /\ windows' = <<>>
    BY <1>1 DEF Call, Progress
  <2>2. segments' \in Seq([first : Int, last : Int]) /\ Len(segments') = 0
    BY <2>1
  <2> QED
    BY <2>1, <2>2 DEF Progress
<1>2. CASE Cut
  <2>1. total # 0 /\ Len(segments) \in 0..folds /\ folds + 1 \in 3..6 /\ folds \in 2..5
    BY <1>2 DEF Cut, Progress
  <2> DEFINE new == Segment(total, folds + 1, Len(segments))
  <2>2. new \in [first : Int, last : Int]
    <3>1. Len(segments) \in 0..6
      <4>1. \A n \in 2..5 : 0..n \subseteq 0..6
        OBVIOUS
      <4> QED
        BY <2>1, <4>1
    <3>2. total \in Int
      BY <2>1 DEF Progress
    <3> QED
      BY <2>1, <3>1, <3>2, CutsAreIntegers DEF Segment
  <2>3. /\ segments \in Seq([first : Int, last : Int])
        /\ segments' = Append(segments, new)
        /\ UNCHANGED <<total, folds, windows>>
    BY <1>2, <2>1 DEF Cut, Progress
  <2>4. /\ segments' \in Seq([first : Int, last : Int])
        /\ Len(segments') = Len(segments) + 1
        /\ \A i \in 1..Len(segments) : segments'[i] = segments[i]
        /\ segments'[Len(segments) + 1] = new
    <3> HIDE DEF new
    <3> QED
      BY <2>2, <2>3
  <2>5. \A i \in 1..Len(segments') : segments'[i] = Segment(total, folds + 1, i - 1)'
    <3> SUFFICES ASSUME NEW i \in 1..Len(segments')
                 PROVE  segments'[i] = Segment(total, folds + 1, i - 1)
      BY <2>3 DEF Segment, FirstDay, LastDay
    <3>1. CASE i = Len(segments) + 1
      <4>1. i - 1 = Len(segments)
        BY <2>1, <3>1
      <4> QED
        BY <2>4, <3>1, <4>1
    <3>2. CASE i \in 1..Len(segments)
      BY <2>1, <2>4, <3>2 DEF Progress
    <3> QED
      BY <2>1, <2>4, <3>1, <3>2
  <2>6. windows = <<>>
    BY <2>1 DEF Progress
  <2> QED
    BY <2>1, <2>3, <2>4, <2>5, <2>6 DEF Progress
<1>3. CASE Return
  BY <1>3 DEF Return, Progress, Window, Segment, FirstDay, LastDay
<1>4. CASE UNCHANGED windowVars
  BY <1>4 DEF windowVars, Progress, Window, Segment, FirstDay, LastDay
<1> QED
  BY <1>1, <1>2, <1>3, <1>4 DEF WindowsNext

LEMMA ProgressTiles ==
  ASSUME Progress
  PROVE  WindowsTile
<1> SUFFICES ASSUME windows # <<>>, NEW i \in 1..folds
             PROVE  LET w == windows[i] IN
                    /\ w.train.first = 0 /\ w.train.first <= w.train.last
                    /\ w.validation.first = w.train.last + 1
                    /\ w.validation.first <= w.validation.last
                    /\ w.validation.last =
                        IF i = folds THEN total - 1 ELSE windows[i + 1].train.last
  BY DEF WindowsTile
<1> DEFINE count == folds + 1
<1>1. /\ folds \in 2..5 /\ total \in Int /\ total >= count /\ Len(segments) = count
      /\ windows = [k \in 1..folds |-> Window(k)]
      /\ \A k \in 1..count : segments[k] = Segment(total, count, k - 1)
  BY DEF Progress
<1>2. count \in 3..6 /\ i \in 1..(count - 1) /\ 1 \in 1..count /\ i + 1 \in 1..count
  BY <1>1
<1>3. /\ windows[i].train.first = FirstDay(total, count, 0)
      /\ windows[i].train.last = LastDay(total, count, i - 1)
      /\ windows[i].validation.first = FirstDay(total, count, i)
      /\ windows[i].validation.last = LastDay(total, count, i)
  <2>1. /\ segments[1] = Segment(total, count, 0)
        /\ segments[i] = Segment(total, count, i - 1)
        /\ segments[i + 1] = Segment(total, count, i)
    BY <1>1, <1>2
  <2> QED
    BY <1>1, <2>1 DEF Window, Segment
<1>4. FirstDay(total, count, i) = LastDay(total, count, i - 1) + 1
  <2>1. i - 1 \in 0..(count - 1) /\ (i - 1) + 1 = i
    BY <1>2
  <2> QED
    BY <1>1, <1>2, <2>1, SegmentsMeet
<1>5. /\ FirstDay(total, count, 0) = 0 /\ LastDay(total, count, count - 1) = total - 1
  BY <1>1, <1>2, SegmentsSpan
<1>6. FirstDay(total, count, i) <= LastDay(total, count, i)
  BY <1>1, <1>2, SegmentsAreNotEmpty
<1>7. 0 <= LastDay(total, count, i - 1)
  <2> DEFINE first(k) == FirstDay(total, count, k)
             upTo(k) == LastDay(total, count, k)
  <2>1. ASSUME NEW k \in 0..(count - 1)
        PROVE  /\ first(k) \in Int /\ upTo(k) \in Int
               /\ first(k) <= upTo(k) /\ first(k + 1) = upTo(k) + 1
    <3>1. k \in 0..6
      BY <1>2
    <3>2. first(k) \in Int /\ upTo(k) \in Int
      BY <1>1, <1>2, <3>1, CutsAreIntegers
    <3>3. first(k) <= upTo(k)
      BY <1>1, <1>2, SegmentsAreNotEmpty
    <3>4. first(k + 1) = upTo(k) + 1
      BY <1>1, <1>2, SegmentsMeet
    <3> QED
      BY <3>2, <3>3, <3>4
  <2>2. first(0) = 0
    BY <1>5
  <2> HIDE DEF first, upTo
  <2>3. 0 \in 0..(count - 1) /\ upTo(0) >= 0
    BY <1>2, <2>1, <2>2
  <2>4. 1 \in 0..(count - 1) /\ upTo(1) >= 0
    <3>1. first(0 + 1) = upTo(0) + 1 /\ upTo(0) \in Int
      BY <2>1, <2>3
    <3> QED
      BY <1>2, <2>1, <2>3, <3>1
  <2>5. 2 \in 0..(count - 1) /\ upTo(2) >= 0
    <3>1. first(1 + 1) = upTo(1) + 1 /\ upTo(1) \in Int
      BY <2>1, <2>4
    <3> QED
      BY <1>2, <2>1, <2>4, <3>1
  <2>6. count > 3 => 3 \in 0..(count - 1) /\ upTo(3) >= 0
    <3>1. first(2 + 1) = upTo(2) + 1 /\ upTo(2) \in Int
      BY <2>1, <2>5
    <3> QED
      BY <1>2, <2>1, <2>5, <3>1
  <2>7. count > 4 => 4 \in 0..(count - 1) /\ upTo(4) >= 0
    <3>1. count > 4 => first(3 + 1) = upTo(3) + 1 /\ upTo(3) \in Int
      BY <1>2, <2>1, <2>6
    <3> QED
      BY <1>2, <2>1, <2>6, <3>1
  <2>8. upTo(i - 1) >= 0
    BY <1>1, <1>2, <2>3, <2>4, <2>5, <2>6, <2>7
  <2> QED
    BY <2>8 DEF upTo
<1>8. CASE i = folds
  BY <1>1, <1>3, <1>4, <1>5, <1>6, <1>7, <1>8
<1>9. CASE i # folds
  <2>1. i + 1 \in 1..folds /\ segments[i + 1] = Segment(total, count, i)
    BY <1>1, <1>2, <1>9
  <2>2. windows[i + 1].train.last = LastDay(total, count, i)
    BY <1>1, <2>1 DEF Window, Segment
  <2> QED
    BY <1>3, <1>4, <1>5, <1>6, <1>7, <1>9, <2>2
<1> QED
  BY <1>8, <1>9

\* The windows that build_walk_forward_windows returns tile the period, for every
\* number of days: training ends on the day before validation begins.
THEOREM WindowsAlwaysTile ==
  ASSUME Lengths \subseteq Int
  PROVE  WindowsSpec => []WindowsTile
<1>1. WindowsInit => Progress
  BY DEF WindowsInit, Progress
<1>2. Progress /\ [WindowsNext]_windowVars => Progress'
  BY ProgressIsKept
<1>3. Progress => WindowsTile
  BY ProgressTiles
<1> QED
  BY <1>1, <1>2, <1>3, PTL DEF WindowsSpec

(***************************************************************************)
(* The cash pool of a portfolio.                                            *)
(***************************************************************************)
\* A symbol is at its target, or below it for want of cash.
Fulfilled(s) == held[s] = target[s] \/ (held[s] < target[s] /\ Cost(s, 1) > cash)

\* The trades k of the rebalancing are made, the sales and then the purchases.
Made(k) ==
    /\ Len(agenda) = 2 * Len(Order) - k
    /\ \A j \in 1..Len(agenda) : agenda[j] = SellsThenBuys[k + j]
    /\ \A i \in 1..Len(Order) : i <= k => held[Order[i]] <= target[Order[i]]
    /\ \A i \in 1..Len(Order) : Len(Order) + i <= k => Fulfilled(Order[i])

PoolInv ==
    /\ PoolTypeOK
    /\ open \in Opens \cup {[s \in Symbols |-> 0]}
    /\ \E k \in 0..(2 * Len(Order)) : Made(k)

\* A day's trades: every sale, then every purchase.
LEMMA TheProgram ==
    ASSUME PortfolioAssumption
    PROVE  /\ Len(Order) \in Nat /\ \A i \in 1..Len(Order) : Order[i] \in Symbols
           /\ SellsThenBuys \in Seq(Trade) /\ Len(SellsThenBuys) = 2 * Len(Order)
           /\ \A i \in 1..Len(Order) : /\ SellsThenBuys[i] = <<"sell", Order[i]>>
                                      /\ SellsThenBuys[Len(Order) + i] = <<"buy", Order[i]>>
<1> DEFINE n == Len(Order)
<1>1. n \in Nat /\ \A i \in 1..n : Order[i] \in Symbols
  BY DEF PortfolioAssumption
<1>2. /\ All("sell") \in Seq(Trade) /\ Len(All("sell")) = n
      /\ All("buy") \in Seq(Trade) /\ Len(All("buy")) = n
  BY <1>1 DEF All, Trade
<1>3. \A i \in 1..n : All("sell")[i] = <<"sell", Order[i]>> /\ All("buy")[i] = <<"buy", Order[i]>>
  BY <1>1 DEF All
<1> HIDE DEF n
<1> DEFINE x == All("sell")
           y == All("buy")
<1>4. /\ x \in Seq(Trade) /\ Len(x) = n /\ y \in Seq(Trade) /\ Len(y) = n
      /\ SellsThenBuys = x \o y
  BY <1>2 DEF SellsThenBuys
<1>5. /\ SellsThenBuys \in Seq(Trade) /\ Len(SellsThenBuys) = n + n
      /\ \A i \in 1..n : SellsThenBuys[i] = x[i] /\ SellsThenBuys[n + i] = y[i]
  <2> HIDE DEF x, y
  <2>0. x \o y \in Seq(Trade) /\ Len(x \o y) = Len(x) + Len(y)
    BY ONLY <1>4, ConcatProperties
  <2>1. x \o y \in Seq(Trade) /\ Len(x \o y) = n + n
    BY ONLY <1>4, <2>0
  <2>2. ASSUME NEW i \in 1..n PROVE (x \o y)[i] = x[i] /\ (x \o y)[n + i] = y[i]
    BY <1>1, <1>4, ConcatProperties
  <2> QED
    BY <1>4, <2>1, <2>2
<1> QED
  BY <1>1, <1>3, <1>5 DEF n

\* The commission of q shares is that of one share q times, or the minimum.
LEMMA FeeOfShares ==
    ASSUME PortfolioAssumption, open \in Opens \cup {[s \in Symbols |-> 0]}, NEW s \in Symbols
    PROVE  /\ PurchasePrice(s) \in Nat
           /\ \E e \in Nat : \A q \in Nat : Fee(PurchasePrice(s) * q) = Larger(MinCommission, e * q)
<1>1. /\ CommissionBps \in Nat /\ SlippageBps \in 0..10000
      /\ \A prices \in Opens : prices[s] \in Nat
  BY DEF PortfolioAssumption
<1>2. open[s] \in Nat /\ open[s] * (10000 + SlippageBps) \in Nat
  BY <1>1
<1>3. PurchasePrice(s) \in Nat
  <2> DEFINE v == open[s] * (10000 + SlippageBps)
  <2>1. v \in Nat
    BY <1>2
  <2> HIDE DEF v
  <2>2. v \div 10000 \in Nat
    BY <2>1
  <2> QED
    BY <2>2 DEF v, PurchasePrice
<1>4. PurchasePrice(s) * CommissionBps \in Nat /\ (PurchasePrice(s) * CommissionBps) % 10000 = 0
  <2>1. PurchasePrice(s) * CommissionBps \in Nat
    BY <1>1, <1>3
  <2>2. CASE open \in Opens
    <3> DEFINE up == 10000 + SlippageBps
    <3>1. WholeUnits /\ up \in {10000 - SlippageBps, up} /\ PurchasePrice(s) = (open[s] * up) \div 10000
      BY DEF PortfolioAssumption, PurchasePrice
    <3>2. \A prices \in Opens, t \in Symbols, slipped \in {10000 - SlippageBps, up} :
            (((prices[t] * slipped) \div 10000) * CommissionBps) % 10000 = 0
      BY ONLY <3>1 DEF WholeUnits
    <3> HIDE DEF up
    <3>3. (((open[s] * up) \div 10000) * CommissionBps) % 10000 = 0
      BY ONLY <2>2, <3>1, <3>2, s \in Symbols
    <3>4. (PurchasePrice(s) * CommissionBps) % 10000 = 0
      BY ONLY <3>1, <3>3
    <3> QED
      BY ONLY <2>1, <3>4
  <2>3. CASE open = [t \in Symbols |-> 0]
    <3>1. open[s] * (10000 + SlippageBps) = 0
      BY <1>1, <2>3
    <3>2. PurchasePrice(s) = 0
      BY <3>1 DEF PurchasePrice
    <3>3. PurchasePrice(s) * CommissionBps = 0
      BY <1>1, <3>2
    <3> QED
      BY <3>3
  <2> QED
    BY <2>2, <2>3
<1> DEFINE p == PurchasePrice(s)
           w == p * CommissionBps
           e == w \div 10000
<1>5. w \in Nat /\ w % 10000 = 0 /\ p \in Nat
  BY <1>3, <1>4
<1>6. e \in Nat /\ w = 10000 * e
  <2> HIDE DEF w
  <2> QED
    BY <1>5
<1>7. ASSUME NEW q \in Nat PROVE Fee(p * q) = Larger(MinCommission, e * q)
  <2>1. (p * q) * CommissionBps = w * q
    BY <1>1, <1>5
  <2> HIDE DEF p, w, e
  <2>2. w * q = 10000 * (e * q) /\ e * q \in Nat
    BY <1>6
  <2> DEFINE m == e * q
  <2>3. m \in Nat /\ (p * q) * CommissionBps = 10000 * m
    BY <2>1, <2>2
  <2> HIDE DEF m
  <2>4. ((p * q) * CommissionBps) \div 10000 = m
    BY <2>3
  <2> QED
    BY <2>4 DEF Fee, m
<1>8. e \in Nat /\ \A q \in Nat : Fee(p * q) = Larger(MinCommission, e * q)
  BY <1>6, <1>7
<1> HIDE DEF e
<1>9. \E c \in Nat : \A q \in Nat : Fee(p * q) = Larger(MinCommission, c * q)
  BY <1>8
<1> QED
  BY <1>3, <1>9 DEF p

\* Two purchases of a symbol never cost less than one of as many shares.
LEMMA CostsAdd ==
    ASSUME PortfolioAssumption, open \in Opens \cup {[s \in Symbols |-> 0]}, NEW s \in Symbols
    PROVE  \A q \in Nat : /\ Cost(s, q) \in Nat
                          /\ Cost(s, q + 1) <= Cost(s, q) + Cost(s, 1)
<1>1. PICK e \in Nat : \A q \in Nat : Fee(PurchasePrice(s) * q) = Larger(MinCommission, e * q)
  BY FeeOfShares
<1>2. PurchasePrice(s) \in Nat /\ MinCommission \in Nat
  <2>1. PurchasePrice(s) \in Nat
    BY FeeOfShares
  <2> QED
    BY <2>1 DEF PortfolioAssumption
<1> DEFINE p == PurchasePrice(s)
<1>3. \A q \in Nat : Cost(s, q) = p * q + Larger(MinCommission, e * q)
  BY <1>1 DEF Cost
<1> HIDE DEF p
<1>4. p \in Nat
  BY <1>2 DEF p
<1> TAKE q \in Nat
<1>5. /\ Cost(s, q) = p * q + Larger(MinCommission, e * q)
      /\ Cost(s, q + 1) = p * (q + 1) + Larger(MinCommission, e * (q + 1))
      /\ Cost(s, 1) = p * 1 + Larger(MinCommission, e * 1)
  BY <1>3
<1>6. /\ p * (q + 1) = p * q + p /\ p * 1 = p /\ p * q \in Nat
      /\ e * (q + 1) = e * q + e /\ e * 1 = e /\ e * q \in Nat
  BY <1>4
<1> DEFINE a == p * q
           f == e * q
<1>7. /\ Cost(s, q) = a + Larger(MinCommission, f)
      /\ Cost(s, q + 1) = a + p + Larger(MinCommission, f + e)
      /\ Cost(s, 1) = p + Larger(MinCommission, e)
      /\ a \in Nat /\ f \in Nat
  BY <1>5, <1>6
<1> HIDE DEF a, f
<1> QED
  BY <1>2, <1>4, <1>7 DEF Larger

LEMMA PoolStarts == ASSUME PortfolioAssumption, PoolInit PROVE PoolInv
<1>1. Len(Order) \in Nat /\ \A i \in 1..Len(Order) : Order[i] \in Symbols
  BY TheProgram
<1>2. Made(2 * Len(Order))
  BY <1>1 DEF PoolInit, Made, Fulfilled
<1>3. 2 * Len(Order) \in 0..(2 * Len(Order))
  BY <1>1
<1>4. PoolTypeOK
  BY DEF PoolInit, PoolTypeOK, PortfolioAssumption
<1> QED
  BY <1>2, <1>3, <1>4 DEF PoolInv, PoolInit

LEMMA HoldKeeps ==
    ASSUME PortfolioAssumption, PoolInv, NEW p \in {0, 1}, Hold(p)
    PROVE  PoolInv'
<1>1. PICK k \in 0..(2 * Len(Order)) : Made(k)
  BY DEF PoolInv
<1>2. Made(k)'
  BY <1>1 DEF Made, Fulfilled, Hold, Cost, Fee, PurchasePrice
<1>3. PoolTypeOK'
  BY DEF PoolInv, PoolTypeOK, Hold, PortfolioAssumption
<1> QED
  BY <1>2, <1>3 DEF PoolInv, Hold

LEMMA RebalanceKeeps ==
    ASSUME PortfolioAssumption, PoolInv, NEW p \in {0, 1}, NEW prices \in Opens, Rebalance(p, prices)
    PROVE  PoolInv'
<1>1. /\ Len(Order) \in Nat /\ SellsThenBuys \in Seq(Trade)
      /\ Len(SellsThenBuys) = 2 * Len(Order)
  BY TheProgram
<1>2. Made(0)'
  BY <1>1 DEF Made, Rebalance
<1>3. target' \in [Symbols -> Nat]
  <2>1. Worth(prices) \in Int
    <3> DEFINE f == [s \in Symbols |-> held[s] * prices[s]]
    <3>1. IsFiniteSet(DOMAIN f) /\ \A s \in DOMAIN f : f[s] \in Int
      BY DEF PortfolioAssumption, PoolInv, PoolTypeOK
    <3>2. SumFunctionOnSet(f, DOMAIN f) \in Int
      <4> HIDE DEF f
      <4> QED
        BY <3>1, SumType
    <3> QED
      BY <3>2 DEF Worth, SumFunction, PoolInv, PoolTypeOK
  <2>2. ASSUME NEW s \in Symbols
        PROVE  Larger(0, (Worth(prices) * Weight[s]) \div (TotalWeight * prices[s])) \in Nat
    <3> DEFINE a == Worth(prices) * Weight[s]
               b == TotalWeight * prices[s]
    <3>1. Weight[s] \in Nat /\ TotalWeight \in Nat \ {0} /\ prices[s] \in Nat \ {0}
      BY DEF PortfolioAssumption
    <3>2. a \in Int /\ b \in Nat /\ b > 0
      BY <2>1, <3>1
    <3> HIDE DEF a, b
    <3>3. a \div b \in Int
      BY <3>2
    <3> QED
      BY <3>3 DEF Larger, a, b
  <2> QED
    BY <2>2 DEF Rebalance, Targets
<1>4. PoolTypeOK'
  <2>1. open' \in [Symbols -> Nat]
    BY DEF PortfolioAssumption, Rebalance
  <2>2. day' \in 0..MaxDays
    BY DEF PoolInv, PoolTypeOK, Rebalance, PortfolioAssumption
  <2> QED
    BY <1>1, <1>3, <2>1, <2>2 DEF PoolInv, PoolTypeOK, Rebalance
<1>5. open' \in Opens
  BY DEF Rebalance
<1> QED
  BY <1>1, <1>2, <1>4, <1>5 DEF PoolInv

\* The trade that comes next.
LEMMA NextTrade ==
    ASSUME PortfolioAssumption, PoolTypeOK, NEW k \in 0..(2 * Len(Order)), Made(k),
           NEW kind \in {"sell", "buy"}, NEW s \in Symbols, agenda # <<>>, Head(agenda) = <<kind, s>>
    PROVE  /\ k + 1 \in 0..(2 * Len(Order)) /\ Tail(agenda) \in Seq(Trade)
           /\ Len(Tail(agenda)) = 2 * Len(Order) - (k + 1)
           /\ \A j \in 1..Len(Tail(agenda)) : Tail(agenda)[j] = SellsThenBuys[(k + 1) + j]
           /\ kind = "sell" => k + 1 \in 1..Len(Order) /\ s = Order[k + 1]
           /\ kind = "buy" => k + 1 - Len(Order) \in 1..Len(Order) /\ s = Order[k + 1 - Len(Order)]
<1>1. /\ Len(Order) \in Nat /\ Len(SellsThenBuys) = 2 * Len(Order)
      /\ \A i \in 1..Len(Order) : /\ SellsThenBuys[i] = <<"sell", Order[i]>>
                                 /\ SellsThenBuys[Len(Order) + i] = <<"buy", Order[i]>>
  BY TheProgram
<1>2. agenda \in Seq(Trade) /\ Len(agenda) \in Nat /\ Len(agenda) > 0 /\ Head(agenda) = agenda[1]
  BY DEF PoolTypeOK
<1>3. /\ Len(agenda) = 2 * Len(Order) - k
      /\ \A j \in 1..Len(agenda) : agenda[j] = SellsThenBuys[k + j]
  BY DEF Made
<1>4. /\ Tail(agenda) \in Seq(Trade) /\ Len(Tail(agenda)) = Len(agenda) - 1
      /\ \A j \in 1..Len(Tail(agenda)) : Tail(agenda)[j] = agenda[j + 1]
  BY <1>2
<1>5. <<kind, s>> = SellsThenBuys[k + 1]
  BY <1>2, <1>3
<1>6. CASE k + 1 <= Len(Order)
  <2>1. SellsThenBuys[k + 1] = <<"sell", Order[k + 1]>>
    BY <1>1, <1>6
  <2> QED
    BY <1>1, <1>2, <1>3, <1>4, <1>5, <1>6, <2>1
<1>7. CASE k + 1 > Len(Order)
  <2> DEFINE i == k + 1 - Len(Order)
  <2>1. i \in 1..Len(Order) /\ Len(Order) + i = k + 1
    BY <1>1, <1>2, <1>3, <1>7
  <2>2. SellsThenBuys[k + 1] = <<"buy", Order[i]>>
    BY <1>1, <2>1
  <2> QED
    BY <1>1, <1>2, <1>3, <1>4, <1>5, <2>1, <2>2
<1>8. k + 1 <= Len(Order) \/ k + 1 > Len(Order)
  BY <1>1
<1> QED
  BY <1>6, <1>7, <1>8

LEMMA SellKeeps ==
    ASSUME PortfolioAssumption, PoolInv, NEW s \in Symbols, Sell(s)
    PROVE  PoolInv'
<1>1. PICK k \in 0..(2 * Len(Order)) : Made(k)
  BY DEF PoolInv
<1>2. PoolTypeOK /\ agenda # <<>> /\ Head(agenda) = <<"sell", s>> /\ agenda' = Tail(agenda)
  BY DEF Sell, PoolInv
<1>3. /\ k + 1 \in 1..Len(Order) /\ s = Order[k + 1]
      /\ k + 1 \in 0..(2 * Len(Order)) /\ Tail(agenda) \in Seq(Trade)
      /\ Len(Tail(agenda)) = 2 * Len(Order) - (k + 1)
      /\ \A j \in 1..Len(Tail(agenda)) : Tail(agenda)[j] = SellsThenBuys[(k + 1) + j]
  BY <1>1, <1>2, NextTrade
<1>4. held \in [Symbols -> Nat] /\ target \in [Symbols -> Nat] /\ cash \in Int /\ open[s] \in Nat
  BY <1>2 DEF PoolTypeOK
<1>5. /\ held' \in [Symbols -> Nat] /\ held'[s] <= target[s]
      /\ \A t \in Symbols \ {s} : held'[t] = held[t]
  BY <1>4 DEF Sell
<1>6. cash' \in Int
  <2>1. SalePrice(s) \in Int
    <3> DEFINE v == open[s] * (10000 - SlippageBps)
    <3>1. v \in Int
      BY <1>4 DEF PortfolioAssumption
    <3> HIDE DEF v
    <3>2. v \div 10000 \in Int
      BY <3>1
    <3> QED
      BY <3>2 DEF SalePrice, v
  <2>2. ASSUME NEW v \in Int PROVE Fee(v) \in Int
    <3> DEFINE w == v * CommissionBps
    <3>1. w \in Int /\ MinCommission \in Int
      BY DEF PortfolioAssumption
    <3> HIDE DEF w
    <3>2. w \div 10000 \in Int
      BY <3>1
    <3> QED
      BY <3>1, <3>2 DEF Fee, Larger, w
  <2> DEFINE proceeds == SalePrice(s) * (held[s] - target[s])
  <2>3. proceeds \in Int
    BY <1>4, <2>1
  <2>4. cash' = cash \/ cash' = cash + proceeds - Fee(proceeds)
    BY DEF Sell
  <2> HIDE DEF proceeds
  <2>5. Fee(proceeds) \in Int
    BY <2>2, <2>3
  <2> QED
    BY <1>4, <2>3, <2>4, <2>5
<1>7. Made(k + 1)'
  <2>1. ASSUME NEW i \in 1..Len(Order), i <= k + 1 PROVE held'[Order[i]] <= target[Order[i]]
    <3>1. Order[i] \in Symbols
      BY TheProgram
    <3>2. CASE i = k + 1
      BY <1>3, <1>5, <3>2
    <3>3. CASE i # k + 1
      <4>1. held[Order[i]] <= target[Order[i]]
        <5>1. i <= k
          BY <2>1, <3>3
        <5> QED
          BY <1>1, <5>1 DEF Made
      <4> QED
        BY <1>5, <3>1, <4>1
    <3> QED
      BY <3>2, <3>3
  <2>2. \A i \in 1..Len(Order) : ~(Len(Order) + i <= k + 1)
    BY <1>3
  <2> QED
    BY <1>2, <1>3, <2>1, <2>2 DEF Made, Sell
<1>8. PoolTypeOK'
  BY <1>2, <1>3, <1>5, <1>6 DEF PoolTypeOK, Sell
<1> QED
  BY <1>3, <1>7, <1>8 DEF PoolInv, Sell

LEMMA BuyKeeps ==
    ASSUME PortfolioAssumption, PoolInv, NEW s \in Symbols, Buy(s)
    PROVE  PoolInv'
<1>1. PICK k \in 0..(2 * Len(Order)) : Made(k)
  BY DEF PoolInv
<1>2. PoolTypeOK /\ agenda # <<>> /\ Head(agenda) = <<"buy", s>> /\ agenda' = Tail(agenda)
  BY DEF Buy, PoolInv
<1>3. /\ k + 1 - Len(Order) \in 1..Len(Order) /\ s = Order[k + 1 - Len(Order)]
      /\ k + 1 \in 0..(2 * Len(Order)) /\ Tail(agenda) \in Seq(Trade)
      /\ Len(Tail(agenda)) = 2 * Len(Order) - (k + 1)
      /\ \A j \in 1..Len(Tail(agenda)) : Tail(agenda)[j] = SellsThenBuys[(k + 1) + j]
  BY <1>1, <1>2, NextTrade
<1>4. held \in [Symbols -> Nat] /\ target \in [Symbols -> Nat] /\ cash \in Int
  BY <1>2 DEF PoolTypeOK
<1>5. \A t \in Symbols, q \in Nat : /\ Cost(t, q) \in Nat
                                    /\ Cost(t, q + 1) <= Cost(t, q) + Cost(t, 1)
                                    /\ Cost(t, q)' = Cost(t, q)
  <2> TAKE t \in Symbols, q \in Nat
  <2>1. Cost(t, q) \in Nat /\ Cost(t, q + 1) <= Cost(t, q) + Cost(t, 1)
    BY CostsAdd DEF PoolInv
  <2>2. Cost(t, q)' = Cost(t, q)
    BY DEF Buy, Cost, Fee, PurchasePrice
  <2> QED
    BY <2>1, <2>2
<1>6. \A i \in 1..Len(Order) : Order[i] \in Symbols /\ held[Order[i]] <= target[Order[i]]
  <2> TAKE i \in 1..Len(Order)
  <2>1. Len(Order) \in Nat /\ Order[i] \in Symbols
    BY TheProgram
  <2>2. i <= k
    BY <1>3, <2>1
  <2> QED
    BY <1>1, <2>1, <2>2 DEF Made
<1>7. /\ held' \in [Symbols -> Nat] /\ cash' \in Int /\ cash' <= cash
      /\ \A t \in Symbols \ {s} : held'[t] = held[t]
      /\ held'[s] = target[s] \/ (held'[s] < target[s] /\ Cost(s, 1) > cash')
  <2>1. held[s] <= target[s] /\ held[s] \in Nat /\ target[s] \in Nat
    BY <1>3, <1>4, <1>6
  <2>2. CASE Affordable(s) = {} /\ UNCHANGED <<cash, held>>
    <3>1. held[s] < target[s] => 1 \in 1..(target[s] - held[s])
      BY <2>1
    <3>2. held[s] < target[s] => ~(Cost(s, 1) <= cash)
      BY <2>2, <3>1 DEF Affordable
    <3>3. Cost(s, 1) \in Nat
      BY <1>5
    <3> QED
      BY <1>4, <2>1, <2>2, <3>2, <3>3
  <2>3. ASSUME NEW q \in Affordable(s), \A more \in Affordable(s) : more <= q,
               cash' = cash - Cost(s, q), held' = [held EXCEPT ![s] = @ + q]
        PROVE  /\ held' \in [Symbols -> Nat] /\ cash' \in Int /\ cash' <= cash
               /\ \A t \in Symbols \ {s} : held'[t] = held[t]
               /\ held'[s] = target[s] \/ (held'[s] < target[s] /\ Cost(s, 1) > cash')
    <3>1. q \in 1..(target[s] - held[s]) /\ q \in Nat
      BY <2>1, <2>3 DEF Affordable
    <3>2. /\ held' \in [Symbols -> Nat] /\ \A t \in Symbols \ {s} : held'[t] = held[t]
          /\ held'[s] = held[s] + q
      BY <1>4, <2>3, <3>1
    <3>3. /\ Cost(s, q) \in Nat /\ Cost(s, 1) \in Nat /\ Cost(s, q + 1) \in Nat
          /\ Cost(s, q + 1) <= Cost(s, q) + Cost(s, 1)
      BY <1>5, <3>1
    <3>4. q + 1 \in 1..(target[s] - held[s]) => Cost(s, q + 1) > cash
      <4>1. q + 1 \notin Affordable(s)
        BY <2>3, <3>1
      <4> QED
        BY <1>4, <3>3, <4>1 DEF Affordable
    <3>5. cash' \in Int /\ cash' <= cash
      BY <1>4, <2>3, <3>3
    <3>6. held'[s] <= target[s] /\ (held'[s] < target[s] => q + 1 \in 1..(target[s] - held[s]))
      BY <2>1, <3>1, <3>2
    <3>7. held'[s] = target[s] \/ (held'[s] < target[s] /\ Cost(s, 1) > cash')
      <4>1. held'[s] < target[s] \/ held'[s] = target[s]
        BY <2>1, <3>1, <3>2, <3>6
      <4> QED
        BY <1>4, <2>3, <3>3, <3>4, <3>6, <4>1
    <3> QED
      BY <3>2, <3>5, <3>7
  <2> QED
    BY <2>2, <2>3 DEF Buy
<1>8. Made(k + 1)'
  <2>1. ASSUME NEW i \in 1..Len(Order)
        PROVE  /\ held'[Order[i]] <= target[Order[i]]
               /\ Len(Order) + i <= k + 1 => Fulfilled(Order[i])'
    <3>1. Order[i] \in Symbols /\ held[Order[i]] <= target[Order[i]]
      BY <1>6
    <3>2. Cost(Order[i], 1)' = Cost(Order[i], 1) /\ Cost(Order[i], 1) \in Nat /\ target' = target
      BY <1>5, <3>1 DEF Buy
    <3>3. CASE Order[i] = s
      BY <1>4, <1>7, <3>1, <3>2, <3>3 DEF Fulfilled
    <3>4. CASE Order[i] # s
      <4>1. held'[Order[i]] = held[Order[i]]
        BY <1>7, <3>1, <3>4
      <4>2. Len(Order) + i <= k + 1 => Fulfilled(Order[i])
        <5>1. Len(Order) + i = k + 1 => i = k + 1 - Len(Order)
          BY <1>3
        <5>2. Len(Order) + i <= k + 1 => Len(Order) + i <= k
          BY <1>3, <3>4, <5>1
        <5> QED
          BY <1>1, <5>2 DEF Made
      <4> QED
        BY <1>4, <1>7, <3>1, <3>2, <4>1, <4>2 DEF Fulfilled
    <3> QED
      BY <3>3, <3>4
  <2> QED
    BY <1>2, <1>3, <2>1 DEF Made, Buy
<1>9. PoolTypeOK'
  BY <1>2, <1>3, <1>7 DEF PoolTypeOK, Buy
<1> QED
  BY <1>3, <1>8, <1>9 DEF PoolInv, Buy

\* Whatever the prices, the weights, the commissions and the number of symbols,
\* no rebalancing leaves a symbol above its target, and one below it only when the cash
\* left does not pay for one more share (_rebalance).
THEOREM RebalancesAlwaysSettle ==
    ASSUME PortfolioAssumption
    PROVE  PoolSpec => []RebalancesSettle
<1>1. PoolInit => PoolInv
  BY PoolStarts
<1>2. PoolInv /\ [PoolNext]_pool => PoolInv'
  <2> SUFFICES ASSUME PoolInv, [PoolNext]_pool PROVE PoolInv'
    OBVIOUS
  <2>1. CASE PoolNext
    BY <2>1, HoldKeeps, RebalanceKeeps, SellKeeps, BuyKeeps DEF PoolNext
  <2>2. CASE UNCHANGED pool
    <3>1. PICK k \in 0..(2 * Len(Order)) : Made(k)
      BY DEF PoolInv
    <3>2. Made(k)'
      BY <2>2, <3>1 DEF pool, Made, Fulfilled, Cost, Fee, PurchasePrice
    <3> QED
      BY <2>2, <3>2 DEF pool, PoolInv, PoolTypeOK
  <2> QED
    BY <2>1, <2>2
<1>3. PoolInv => RebalancesSettle
  <2> SUFFICES ASSUME PoolInv, agenda = <<>>, NEW s \in Symbols PROVE Fulfilled(s)
    BY DEF RebalancesSettle, Fulfilled
  <2>1. PICK k \in 0..(2 * Len(Order)) : Made(k)
    BY DEF PoolInv
  <2>2. k = 2 * Len(Order) /\ Len(Order) \in Nat
    BY <2>1, TheProgram DEF Made
  <2>3. PICK i \in 1..Len(Order) : Order[i] = s
    BY DEF PortfolioAssumption, Range
  <2> QED
    BY <2>1, <2>2, <2>3 DEF Made
<1> QED
  BY <1>1, <1>2, <1>3, PTL DEF PoolSpec
====
