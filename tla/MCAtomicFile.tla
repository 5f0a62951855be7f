----------------------------- MODULE MCAtomicFile -----------------------------
(* Two writers with two contents race over a history of up to four files:  *)
(* an old file, one that is in flight on each side and one after a crash.  *)
EXTENDS AtomicFile, TLC

Symmetry == Permutations(Writers) \cup Permutations(Data)
===============================================================================
