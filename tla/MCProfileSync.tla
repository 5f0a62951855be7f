---------------------------- MODULE MCProfileSync ----------------------------
(* Small instances of ProfileSync for TLC: the budgets of each run.         *)
EXTENDS ProfileSync, TLC

Budgets(command, edit, external, failure, lost, crash) ==
    [b \in Budget |-> CASE b = "command"  -> command  [] b = "edit"  -> edit
                        [] b = "external" -> external [] b = "failure" -> failure
                        [] b = "lost"     -> lost     [] b = "crash" -> crash]

SingleLimit   == Budgets(4, 2, 0, 1, 0, 0)
RaceLimit     == Budgets(3, 1, 1, 1, 1, 1)
RetryLimit    == Budgets(2, 2, 0, 0, 1, 1)
MeantimeLimit == Budgets(2, 1, 1, 0, 0, 0)
PullLimit     == Budgets(3, 1, 0, 0, 0, 0)

Symmetry == Permutations(Procs) \cup Permutations(Keys) \cup Permutations(Values)
              \cup Permutations(Users) \cup Permutations(Secrets)

(* One value is stored for each user, plain for one, sealed for the others.*)
AKey  == CHOOSE k \in Keys : TRUE
AUser == CHOOSE u \in Users : TRUE
MCRetryInit ==
    LET v == CHOOSE x \in Values : TRUE
        s == CHOOSE x \in Secrets : TRUE
    IN  Init /\ server = [u \in Users |-> [k \in Keys |->
                    IF k # AKey THEN None ELSE IF u = AUser THEN PlainOf(v) ELSE Seal(v, s, 0)]]
MCRetrySpec == MCRetryInit /\ RetrySteps
=============================================================================
