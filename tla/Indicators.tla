---- MODULE Indicators ----
(***************************************************************************)
(* What a strategy is told about its bars: the readers and indicators of    *)
(* futu.py and stock_indicators.py, and the language that strategies write  *)
(* indicators of their own in (custom_indicators.py), over the series of    *)
(* Timeframes.                                                              *)
(*                                                                          *)
(* `select' counts bars from the last one, which is still growing.  Averages *)
(* are fractions. Indicators that need a square root are left out, and so are *)
(* RSI, KDJ, SAR, ATR and VWAP.                                             *)
(***************************************************************************)
EXTENDS Timeframes

CONSTANTS
    NaN,
    Selects, Periods,   \* the arguments of the instance
    Averages,           \* <<5, 10, 20, 60>> in the code
    Fast, Slow, Signal, \* 12, 26 and 9 by default
    RunLength, Back     \* 9 and 4 in the code

Fractions == [num : Int, den : Nat \ {0}]

ASSUME IndicatorsAssumption ==
    /\ Selects \subseteq Nat \ {0} /\ Periods \subseteq Nat \ {0}
    /\ Averages \in Seq(Nat \ {0}) /\ Len(Averages) > 1
    /\ {Fast, Slow, Signal, RunLength} \subseteq Nat \ {0} /\ Back \in Nat
    /\ NaN \notin Fractions

LastOf(values, n) == SubSeq(values, Len(values) - n + 1, Len(values))

Field(some, f) == [i \in DOMAIN some |-> some[i][f]]

Lowest(f) ==
    LET common == Max({k \in 1..f.den : f.den % k = 0 /\ f.num % k = 0})
    IN [num |-> f.num \div common, den |-> f.den \div common]

Mean(values) == [num |-> FoldSeq(+, 0, values), den |-> Len(values)]

Exact(values) == [i \in DOMAIN values |-> Mean(<<values[i]>>)]

\* Comparisons with what is not a number are false.
Exceeds(a, b) == a # NaN /\ b # NaN /\ a.num * b.den > b.num * a.den

Reaches(a, b) == a # NaN /\ b # NaN /\ a.num * b.den >= b.num * a.den

Plus(a, b) == Lowest([num |-> a.num * b.den + b.num * a.den, den |-> a.den * b.den])

Minus(a, b) == Plus(a, [b EXCEPT !.num = -@])

Average(values) ==
    LET total == FoldSeq(Plus, [num |-> 0, den |-> 1], values)
    IN IF \E i \in DOMAIN values : values[i] = NaN THEN NaN
       ELSE Lowest([total EXCEPT !.den = @ * Len(values)])

\* One step of an exponential average: 2 / (n + 1) of the new value.
Smoothed(n, previous, value) ==
    IF NaN \in {previous, value} THEN NaN
    ELSE Plus([num |-> 2 * value.num, den |-> (n + 1) * value.den],
              [num |-> (n - 1) * previous.num, den |-> (n + 1) * previous.den])

-----------------------------------------------------------------------------
(* futu.py and stock_indicators.py *)

\* Every reader checks the period, then extends the series to the current bar.
Readable(t) == asked = NoType /\ CanDerive(t) /\ processed[t] = Len(bars)

Upto(t, select) == SubSeq(series[t], 1, Len(series[t]) - select + 1)

\* bar_open, bar_high, bar_low, bar_close, bar_volume
BarFields == {"open", "high", "low", "close", "volume"}

BarValue(t, f, select) ==
    IF Len(series[t]) < select THEN NaN ELSE series[t][Len(series[t]) - select + 1][f]

\* Mutant: the windows overlap.
CustomEndByOne(t, n, select) == Len(series[t]) - (select - 1)

CustomEnd(t, n, select) == Len(series[t]) - (select - 1) * n

\* bar_custom: n bars of the series as one.
BarCustom(t, f, n, select) ==
    LET end == CustomEnd(t, n, select)
        window == SubSeq(series[t], end - n + 1, end)
        values == {window[i][f] : i \in 1..n}
    IN IF end < n THEN NaN ELSE
       CASE f = "open" -> window[1].open
         [] f = "high" -> Max(values)
         [] f = "low" -> Min(values)
         [] f = "close" -> Last(window).close
         [] f = "volume" -> FoldSeq(+, 0, Field(window, f))

\* BarDataType.CHG
CustomChange(t, n, select) ==
    LET end == CustomEnd(t, n, select)
    IN IF end < n \/ series[t][end - n + 1].last = 0 THEN NaN
       ELSE series[t][end].close - series[t][end - n + 1].last

MovingAverage(values, n) == IF Len(values) < n THEN NaN ELSE Mean(LastOf(values, n))

Closes(t, select) == Field(Upto(t, select), "close")

Crosses(nowA, nowB, beforeA, beforeB, above) ==
    IF above THEN Exceeds(nowA, nowB) /\ Reaches(beforeB, beforeA)
    ELSE Exceeds(nowB, nowA) /\ Reaches(beforeA, beforeB)

\* boll_mid; the outer bands need a square root.
Middle(t, n, select) == MovingAverage(Closes(t, select), n)

\* The price crosses a band between the bar before the selected one and it; `band'
\* is a function of the selected bar.
CrossesBand(t, select, band, above) ==
    LET price(of) == Mean(LastOf(Closes(t, of), 1))
    IN /\ Closes(t, select + 1) # <<>>
       /\ Crosses(price(select), band[select], price(select + 1), band[select + 1], above)

CrossesMiddle(t, n, select, above) ==
    CrossesBand(t, select, [s \in {select, select + 1} |-> Middle(t, n, s)], above)

\* The exponential averages of futu.py: from the first value on that has one, and
\* aligned with the values.
EmaSeries(values, n) ==
    FoldLeft(LAMBDA done, v : Append(done, Smoothed(n, Last(done), v)),
             <<Average(SubSeq(values, 1, n))>>, SubSeq(values, n + 1, Len(values)))

FullEma(values, n) ==
    LET ema[i \in DOMAIN values] ==
            IF i < n THEN NaN
            ELSE IF i = n THEN Average(SubSeq(values, 1, n))
            ELSE Smoothed(n, ema[i - 1], values[i])
    IN ema

\* The one of stock_indicators.py keeps the last value only.
Ema(values, n) ==
    IF Len(values) < n THEN NaN
    ELSE FoldLeft(LAMBDA average, v : Smoothed(n, average, v),
                  Average(SubSeq(values, 1, n)), SubSeq(values, n + 1, Len(values)))

Difference(a, b) == IF NaN \in {a, b} THEN NaN ELSE Minus(a, b)

\* The lines of a MACD: the difference of two averages and its own average.
Macd(t, select) ==
    LET closes == Exact(Closes(t, select))
        fast == FullEma(closes, Fast)
        slow == FullEma(closes, Slow)
        finite == {i \in DOMAIN closes : Difference(fast[i], slow[i]) # NaN}
        difs == [k \in 1..Cardinality(finite) |->
                    Difference(fast[Nth(finite, k)], slow[Nth(finite, k)])]
    IN IF Len(closes) < Slow + Signal - 1 \/ Len(difs) < Signal
       THEN [dif |-> NaN, dea |-> NaN]
       ELSE [dif |-> Last(difs), dea |-> Last(EmaSeries(difs, Signal))]

MacdCrosses(t, select, above) ==
    LET now == Macd(t, select)
        before == Macd(t, select + 1)
    IN Crosses(now.dif, now.dea, before.dif, before.dea, above)

\* stock_indicators.py asks for no more bars than the difference needs.
MacdDif(t, select) ==
    LET closes == Exact(Closes(t, select))
    IN Difference(Ema(closes, Fast), Ema(closes, Slow))

InOrder(values, descending) ==
    /\ \A i \in DOMAIN values : values[i] # NaN
    /\ \A i \in 1..(Len(values) - 1) :
          IF descending THEN Exceeds(values[i], values[i + 1])
          ELSE Exceeds(values[i + 1], values[i])

Alignment(t, select, descending) ==
    InOrder([i \in DOMAIN Averages |-> MovingAverage(Closes(t, select), Averages[i])],
            descending)

NineStructure(t, select, up) ==
    LET closes == Closes(t, select)
        at(offset) == closes[Len(closes) - offset + 1]
    IN /\ Len(closes) >= RunLength + Back
       /\ \A o \in 1..RunLength :
             IF up THEN at(o) > at(o + Back) ELSE at(o) < at(o + Back)

-----------------------------------------------------------------------------
(* custom_indicators.py: every function maps a series to a series *)

Environment(t, f, select) ==
    Field(SubSeq(series[t], 1, Max({0, Len(series[t]) - select + 1})), f)

RollingWindow(values, n, i) == SubSeq(values, i - n + 1, i)

Rolling(Op(_), values, n) ==
    [i \in DOMAIN values |-> IF i < n THEN NaN ELSE Op(RollingWindow(values, n, i))]

MA(values, n) == Rolling(Mean, values, n)

HHV(values, n) == Rolling(LAMBDA w : Max({w[i] : i \in DOMAIN w}), values, n)

LLV(values, n) == Rolling(LAMBDA w : Min({w[i] : i \in DOMAIN w}), values, n)

SUM(values, n) == Rolling(LAMBDA w : FoldSeq(+, 0, w), values, n)

REF(values, n) == [i \in 1..n |-> NaN] \o SubSeq(values, 1, Max({0, Len(values) - n}))

\* The loop of FullEma again.
EMA(values, n) == FullEma(values, n)

CROSS(a, b) ==
    [i \in 1..Max({1, Len(a)}) |->
        i > 1 /\ Exceeds(a[i], b[i]) /\ Reaches(b[i - 1], a[i - 1])]

-----------------------------------------------------------------------------

\* What a strategy reads of the select-th last bar and of the bars before it is
\* made from the driver bars up to the end of that bar and from no later one: once
\* the next bar has begun the answer never changes again (_bars, _values,
\* _bar_value, IncrementalBarSeries).
AnswersEndAtTheirBar ==
    \A t \in BarTypes, select \in Selects : Readable(t) =>
        LET all == Aggregate(t, Len(bars))
            k == Len(all) - select + 1
            history == Aggregate(t, Max({i \in DOMAIN bars : BucketOf(t, i) = all[k].at}))
        IN IF k < 1 THEN Upto(t, select) = <<>> /\ BarValue(t, "close", select) = NaN
           ELSE /\ Upto(t, select) = history
                /\ \A f \in BarFields : BarValue(t, f, select) = Last(history)[f]

\* A custom bar of n bars is what the driver bars of all its bars make, whatever
\* the gaps between them, and the windows of two selects share no bar (bar_custom).
CustomBarsAreMerged ==
    \A t \in BarTypes, n \in Periods, select \in Selects : Readable(t) =>
        LET all == Aggregate(t, Len(bars))
            last == Len(all) - (select - 1) * n
            member == {i \in DOMAIN bars :
                         BucketOf(t, i) \in {all[k].at : k \in (last - n + 1)..last}}
            price == {bars[i].price : i \in member}
            custom(f) == BarCustom(t, f, n, select)
        IN IF last < n THEN custom("close") = NaN
           ELSE /\ custom("open") = bars[Min(member)].price
                /\ custom("high") = Max(price) /\ custom("low") = Min(price)
                /\ custom("close") = bars[Max(member)].price
                /\ custom("volume") = Cardinality(member)
                /\ CustomChange(t, n, select) =
                      IF Min(member) = 1 THEN NaN
                      ELSE bars[Max(member)].price - bars[Min(member) - 1].price

\* An indicator written in the custom language gives the answer of the built-in
\* one, on the first bars too, where one of them works with what is not a number
\* and the other with lengths.
LanguagesAgree ==
    \A t \in BarTypes, select \in Selects :
        Readable(t) /\ Closes(t, select) # <<>> =>
        LET closes == Environment(t, "close", select)
            exact == Exact(closes)
            ago == REF(exact, Back)
            falling == [i \in DOMAIN Averages |-> Last(MA(closes, Averages[i]))]
        IN /\ \A n \in Periods :
                 /\ CrossesMiddle(t, n, select, TRUE) = Last(CROSS(exact, MA(closes, n)))
                 /\ CrossesMiddle(t, n, select, FALSE) = Last(CROSS(MA(closes, n), exact))
                 /\ Last(HHV(Environment(t, "high", 1), n)) = BarCustom(t, "high", n, 1)
                 /\ Last(LLV(Environment(t, "low", 1), n)) = BarCustom(t, "low", n, 1)
                 /\ Last(SUM(Environment(t, "volume", 1), n)) = BarCustom(t, "volume", n, 1)
           /\ MacdDif(t, select) = Difference(Last(EMA(exact, Fast)), Last(EMA(exact, Slow)))
           /\ Macd(t, select).dif \in {NaN, MacdDif(t, select)}
           /\ Alignment(t, select, TRUE) =
                 \A i \in 1..(Len(falling) - 1) : Exceeds(falling[i], falling[i + 1])
           /\ NineStructure(t, select, TRUE) =
                 \A o \in 1..RunLength :
                    /\ o <= Len(closes) /\ Len(closes) >= Back
                    /\ Exceeds(exact[Len(closes) - o + 1], ago[Len(closes) - o + 1])

\* Crosses tell on which side a line is: one that crossed above and has not been
\* seen to cross below since is not below now, although each answer looks at two
\* bars only and none is given where a value is missing (_cross, _price_band_cross,
\* is_macd_golden_cross).
CrossesTellTheSide ==
    \A t \in BarTypes, select \in Selects : Readable(t) =>
        /\ \A n \in Periods :
              /\ CrossesMiddle(t, n, select, TRUE)
              /\ \A later \in 1..(select - 1) : ~CrossesMiddle(t, n, later, FALSE)
              => Reaches(Mean(LastOf(Closes(t, 1), 1)), Middle(t, n, 1))
        /\ /\ MacdCrosses(t, select, TRUE)
           /\ \A later \in 1..(select - 1) : ~MacdCrosses(t, later, FALSE)
           => Reaches(Macd(t, 1).dif, Macd(t, 1).dea)

\* The answers a strategy gets on a bar are those of its history up to that bar.
AnswersAreHistory ==
    /\ SeriesAreAggregates /\ AnswersEndAtTheirBar
    /\ CustomBarsAreMerged /\ LanguagesAgree /\ CrossesTellTheSide
====
