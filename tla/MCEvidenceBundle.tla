---- MODULE MCEvidenceBundle ----
EXTENDS EvidenceBundle, TLC

\* The ids of imports may be exchanged, and those of the originals.
IdSymmetry == Permutations(Originals) \cup Permutations(Imports)
====
