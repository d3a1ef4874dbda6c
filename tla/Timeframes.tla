---- MODULE Timeframes ----
(***************************************************************************)
(* Bars of longer periods, built from the driver bars of a backtest as they *)
(* come in (timeframes.py, IncrementalBarSeries; context.py, bars_for).     *)
(*                                                                          *)
(* A series is extended only when the strategy asks for it, by every driver *)
(* bar since it last did.  Intraday periods are cut from the first driver   *)
(* bar of each day, whose minute is remembered when any intraday series     *)
(* first comes across the day.                                              *)
(*                                                                          *)
(* A driver bar has one price; turnover is summed like volume, the rates    *)
(* are functions of the prices: both are left out.                          *)
(***************************************************************************)
EXTENDS Integers, Sequences, FiniteSetsExt, SequencesExt

CONSTANTS
    Base,       \* bar type of the driver
    BarTypes,   \* the bar types a strategy asks for
    Minutes,    \* [intraday bar types -> minutes], in a unit of the instance
    Moments,    \* <<day, minute>> of the driver bars that may come
    Prices,
    MaxBars,    \* bound on the driver bars
    NoType, NoMinute

ASSUME SeriesAssumption ==
    /\ BarTypes \subseteq DOMAIN Minutes \cup {"K_DAY", "K_WEEK"} /\ NoType \notin BarTypes
    /\ \A t \in DOMAIN Minutes : Minutes[t] \in Nat \ {0}
    /\ Moments \subseteq Int \X Int /\ \A at \in Moments : at[2] # NoMinute
    /\ Prices \subseteq Nat \ {0} /\ MaxBars \in Nat

VARIABLES
    bars,        \* driver bars up to the current index
    series,      \* _series
    processed,   \* _processed: how many driver bars a series is made from
    anchors,     \* _day_anchors
    asked        \* the series values() is extending

barVars == <<bars, series, processed, anchors, asked>>

Days == {at[1] : at \in Moments}

SeriesInit ==
    /\ bars = <<>>
    /\ series = [t \in BarTypes |-> <<>>]
    /\ processed = [t \in BarTypes |-> 0]
    /\ anchors = [d \in Days |-> NoMinute]
    /\ asked = NoType

-----------------------------------------------------------------------------

CanDerive(t) ==
    \/ t = Base \/ t = "K_WEEK"
    \/ t = "K_DAY" /\ Base # "K_WEEK"
    \/ /\ {Base, t} \subseteq DOMAIN Minutes
       /\ Minutes[t] >= Minutes[Base] /\ Minutes[t] % Minutes[Base] = 0

Later(d, m, bar) == d > bar.day \/ (d = bar.day /\ m > bar.minute)

\* The engine moves on to the next driver bar.
Advance(d, m, p) ==
    /\ asked = NoType /\ Len(bars) < MaxBars
    /\ bars # <<>> => Later(d, m, Last(bars))
    /\ bars' = Append(bars, [day |-> d, minute |-> m, price |-> p])
    /\ UNCHANGED <<series, processed, anchors, asked>>

Values(t) ==
    /\ asked = NoType /\ CanDerive(t)
    /\ processed[t] < Len(bars)
    /\ asked' = t
    /\ UNCHANGED <<bars, series, processed, anchors>>

\* Mutant: only the current bar is looked at.
LatestBar(t) == Len(bars)

FirstUnread(t) == processed[t] + 1

\* setdefault: the minute of the first bar met on that day.
Anchored(d, m) == IF anchors[d] = NoMinute THEN [anchors EXCEPT ![d] = m] ELSE anchors

Monday(d) == d - (d % 7)

\* The bucket of a moment, for intraday periods from the anchor of its day.
Bucket(t, d, m, anchor) ==
    CASE t = "K_DAY" -> <<d, 0>>
      [] t = "K_WEEK" -> <<Monday(d), 0>>
      [] OTHER -> <<d, anchor + ((m - anchor) \div Minutes[t]) * Minutes[t]>>

Opened(bucket, bar, lastClose) ==
    [at |-> bucket, open |-> bar.price, high |-> bar.price, low |-> bar.price,
     close |-> bar.price, volume |-> 1, last |-> lastClose]

Extended(merged, bar) ==
    [at |-> merged.at, open |-> merged.open, high |-> Max({merged.high, bar.price}),
     low |-> Min({merged.low, bar.price}), close |-> bar.price,
     volume |-> merged.volume + 1, last |-> merged.last]

\* _append, once for every driver bar the series does not have.
AppendBar ==
    /\ asked # NoType
    /\ LET t == asked
           bar == bars[FirstUnread(t)]
           known == IF t \in DOMAIN Minutes THEN Anchored(bar.day, bar.minute) ELSE anchors
           bucket == Bucket(t, bar.day, bar.minute, known[bar.day])
           done == FirstUnread(t)
       IN /\ anchors' = known
          /\ series' = [series EXCEPT ![t] =
                IF @ # <<>> /\ Last(@).at = bucket
                THEN Front(@) \o <<Extended(Last(@), bar)>>
                ELSE Append(@, Opened(bucket, bar, IF @ = <<>> THEN 0 ELSE Last(@).close))]
          /\ processed' = [processed EXCEPT ![t] = done]
          /\ asked' = IF done = Len(bars) THEN NoType ELSE t
    /\ UNCHANGED bars

SeriesNext ==
    \/ \E at \in Moments, p \in Prices : Advance(at[1], at[2], p)
    \/ \E t \in BarTypes : Values(t)
    \/ AppendBar

SeriesSpec == SeriesInit /\ [][SeriesNext]_barVars

-----------------------------------------------------------------------------
(* The reference: bars aggregated in one go *)

DayStart(i) == bars[Min({j \in 1..i : bars[j].day = bars[i].day})].minute

BucketOf(t, i) == Bucket(t, bars[i].day, bars[i].minute, DayStart(i))

\* The k-th smallest element of a set of numbers.
Nth(S, k) == CHOOSE i \in S : Cardinality({j \in S : j <= i}) = k

\* The bars that open a bucket, the bars of a bucket, and what they make.
Openers(t, n) == {i \in 1..n : \A j \in 1..(i - 1) : BucketOf(t, j) # BucketOf(t, i)}

Members(t, n, i) == {j \in 1..n : BucketOf(t, j) = BucketOf(t, i)}

Merged(t, n, i) ==
    LET member == Members(t, n, i)
        price == {bars[j].price : j \in member}
    IN [at |-> BucketOf(t, i), open |-> bars[i].price,
        high |-> Max(price), low |-> Min(price),
        close |-> bars[Max(member)].price, volume |-> Cardinality(member),
        last |-> IF i = 1 THEN 0 ELSE bars[i - 1].price]

Aggregate(t, n) ==
    [k \in 1..Cardinality(Openers(t, n)) |-> Merged(t, n, Nth(Openers(t, n), k))]

\* Whenever and however often a strategy asks for its series, each of them is
\* the aggregation of exactly the driver bars up to its last question: no bar is
\* missing, none counts twice, and none is cut from another moment of the day
\* because of what was asked for before (IncrementalBarSeries).
SeriesAreAggregates ==
    asked = NoType => \A t \in BarTypes : series[t] = Aggregate(t, processed[t])
====
