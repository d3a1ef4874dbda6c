---- MODULE MCExperiments ----
(* Small instances of Experiments. *)
EXTENDS Experiments

\* Better score at a higher cost, an equal score at a lower cost, and a score
\* that the cost constraint rejects.
Tradeoffs ==
    {[score |-> 1, cost |-> 1], [score |-> 2, cost |-> 1], [score |-> 2, cost |-> 2],
     [score |-> 3, cost |-> 3]}

TwoLevels == {[score |-> 1, cost |-> 1], [score |-> 2, cost |-> 2]}
====
