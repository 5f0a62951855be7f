----------------------------- MODULE MCCredStore -----------------------------
(* How many counted commands, failures and losses a run of CredStore sees. *)
EXTENDS CredStore

Bounds(command, failure, loss) ==
    [command |-> command, failure |-> failure, loss |-> loss]

(* init, three commands of which two may overlap, one killed half-way and  *)
(* a lost file to restore.                                                 *)
StoreLimit == Bounds(4, 1, 1)
==============================================================================
