----------------------------- MODULE MCHostFetch -----------------------------
(* The unit's fetch, one by hand, a config command and a foreign write. *)
EXTENDS HostFetch, TLC

HostLimit == [fetch |-> 1, config |-> 1, service |-> 2, write |-> 1, failure |-> 1]
HandLimit == [fetch |-> 1, config |-> 0, service |-> 1, write |-> 0, failure |-> 0]

Symmetry == Permutations(Procs) \cup Permutations(Keys) \cup Permutations(Values)
==============================================================================
