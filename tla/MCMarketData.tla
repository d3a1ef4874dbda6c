---- MODULE MCMarketData ----
EXTENDS MarketData, TLC

\* Jobs that make the very same request may be exchanged.
RequestSymmetry == Permutations(Refreshing) \cup Permutations(Jobs \ Refreshing)
====
