---- MODULE WalkForward ----
(***************************************************************************)
(* The windows of a walk-forward experiment (experiments.py,                *)
(* build_walk_forward_windows): the period of a backtest is cut into one    *)
(* segment more than there are folds, and each fold is trained on all that  *)
(* precedes its validation segment.  Days are numbered from the start.      *)
(***************************************************************************)
EXTENDS Integers, Sequences

CONSTANT Lengths   \* lengths of periods, in days

VARIABLES
    total,      \* total_days, 0 before the call
    folds,
    segments,   \* cut so far
    windows     \* what is returned

windowVars == <<total, folds, segments, windows>>

WindowsInit == total = 0 /\ folds = 0 /\ segments = <<>> /\ windows = <<>>

\* Other numbers of folds and shorter periods are refused.
Call(length, count) ==
    /\ total = 0
    /\ count \in 2..5 /\ length >= count + 1
    /\ total' = length /\ folds' = count
    /\ UNCHANGED <<segments, windows>>

\* Mutant: the end of a segment is not taken back by a day.
CutAtTheCut(length, count, index) == (length * (index + 1)) \div count

LastDay(length, count, index) == (length * (index + 1)) \div count - 1

FirstDay(length, count, index) == (length * index) \div count

Segment(length, count, index) ==
    [first |-> FirstDay(length, count, index), last |-> LastDay(length, count, index)]

Cut ==
    /\ total > 0 /\ Len(segments) < folds + 1
    /\ segments' = Append(segments, Segment(total, folds + 1, Len(segments)))
    /\ UNCHANGED <<total, folds, windows>>

Window(i) ==
    [train |-> [first |-> segments[1].first, last |-> segments[i].last],
     validation |-> segments[i + 1]]

Return ==
    /\ total > 0 /\ Len(segments) = folds + 1 /\ windows = <<>>
    /\ windows' = [i \in 1..folds |-> Window(i)]
    /\ UNCHANGED <<total, folds, segments>>

WindowsNext == (\E length \in Lengths, count \in 2..5 : Call(length, count)) \/ Cut \/ Return

WindowsSpec == WindowsInit /\ [][WindowsNext]_windowVars

-----------------------------------------------------------------------------

\* For every length of the period and number of folds: the training window
\* begins with the period and ends on the day before its validation window, no
\* window is empty, each fold validates on what the next one trains on in
\* addition, and the last one ends with the period (build_walk_forward_windows).
WindowsTile ==
    windows # <<>> => \A i \in 1..folds :
        LET w == windows[i] IN
        /\ w.train.first = 0 /\ w.train.first <= w.train.last
        /\ w.validation.first = w.train.last + 1
        /\ w.validation.first <= w.validation.last
        /\ w.validation.last = IF i = folds THEN total - 1 ELSE windows[i + 1].train.last
====
