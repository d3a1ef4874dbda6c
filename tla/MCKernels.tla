---- MODULE MCKernels ----
(* Four small algorithms of the backend, each explored on its own. *)
EXTENDS Portfolio, WalkForward, EventStream, Indicators, TLC

VARIABLE subject

ASSUME PoolAssumption == PortfolioAssumption

KernelsInit ==
    /\ subject \in {"portfolio", "timeframes", "windows", "events"}
    /\ PoolInit /\ SeriesInit /\ WindowsInit /\ EventsInit

PoolStep == subject = "portfolio" /\ PoolNext /\ UNCHANGED <<subject, barVars, windowVars, eventVars>>
BarStep == subject = "timeframes" /\ SeriesNext /\ UNCHANGED <<subject, pool, windowVars, eventVars>>
WindowStep == subject = "windows" /\ WindowsNext /\ UNCHANGED <<subject, pool, barVars, eventVars>>
EventStep == subject = "events" /\ EventsNext /\ UNCHANGED <<subject, pool, barVars, windowVars>>

KernelsNext == PoolStep \/ BarStep \/ WindowStep \/ EventStep

KernelsSpec == KernelsInit /\ [][KernelsNext]_<<subject, pool, barVars, windowVars, eventVars>>

-----------------------------------------------------------------------------

TwoSymbols == {"A", "B"}
AThenB == <<"A", "B">>
TwoToOne == [s \in TwoSymbols |-> IF s = "A" THEN 2 ELSE 1]
TwoOpens == [TwoSymbols -> {100, 200, 400}]
Hours == [K_60M |-> 1, K_120M |-> 2, K_180M |-> 3]
Types == {"K_120M", "K_180M", "K_WEEK"}
SixMoments == {<<5, 2>>, <<6, 0>>, <<6, 1>>, <<6, 2>>, <<7, 1>>, <<7, 2>>}
OneTwo == <<1, 2>>
ListenerSymmetry == Permutations(Listeners)
====
