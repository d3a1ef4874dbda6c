---- MODULE MCStrategyRepository ----
EXTENDS StrategyRepository, TLC
CONSTANTS a, b, broken

\* One text that can be imported, one that mixes sessions, one that is no strategy.
MCSources == {a, b, broken}
MCValid == {a, b}
MCSessionTypes == [s \in MCSources |-> IF s = b THEN {"RTH", "ALL"} ELSE {}]

\* Clients and import requests may be exchanged.
RequestSymmetry == Permutations(Clients) \cup Permutations(Importers)
====
