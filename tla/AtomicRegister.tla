---------------------------- MODULE AtomicRegister ----------------------------
(***************************************************************************)
(* What securestore.WriteFileAtomic promises its callers (the comment at   *)
(* pkg/securestore/files.go:76): a file that is replaced as a whole, at    *)
(* one instant.  A write that reports success survives a power loss; one   *)
(* that reports an error, or never returns, either took effect or did not. *)
(***************************************************************************)
EXTENDS Naturals, Sequences

CONSTANTS Writers, Data

VARIABLES
    log,        \* the contents the file has had, newest last
    stable,     \* how many of them a power loss cannot take back
    rooted,     \* the directory itself survives a power loss
    job,        \* job[w]: what w writes and where it is in the log
    acked       \* the newest entry of the log a writer got a success for

vars == <<log, stable, rooted, job, acked>>

Jobs == [busy : {TRUE}, data : Data, at : Nat]
Done == [busy |-> FALSE]

Init ==
    /\ log \in {<<>>} \cup {<<d>> : d \in Data}
    /\ stable = Len(log)
    /\ rooted \in BOOLEAN
    /\ job = [w \in Writers |-> Done]
    /\ acked = 0

Begin(w) ==
    /\ job[w] = Done
    /\ \E d \in Data : job' = [job EXCEPT ![w] = [busy |-> TRUE, data |-> d, at |-> 0]]
    /\ UNCHANGED <<log, stable, rooted, acked>>

Commit(w) ==
    /\ job[w].busy /\ job[w].at = 0
    /\ log' = Append(log, job[w].data)
    /\ job' = [job EXCEPT ![w].at = Len(log) + 1]
    /\ UNCHANGED <<stable, rooted, acked>>

(* Success is reported for an entry that is stable.                        *)
Succeed(w) ==
    /\ job[w].busy /\ job[w].at # 0
    /\ stable' \in stable..Len(log) /\ job[w].at <= stable'
    /\ acked' = IF job[w].at > acked THEN job[w].at ELSE acked
    /\ job' = [job EXCEPT ![w] = Done]
    /\ UNCHANGED <<log, rooted>>

Fail(w) ==
    /\ job[w].busy
    /\ job' = [job EXCEPT ![w] = Done]
    /\ UNCHANGED <<log, stable, rooted, acked>>

(* A power loss takes back some of the newest entries, none that is        *)
(* stable; or all there is, if the directory was new.                      *)
PowerLoss ==
    /\ job' = [w \in Writers |-> Done]
    /\ \/ \E n \in stable..Len(log) :
             /\ log' = [i \in 1..n |-> log[i]]
             /\ stable' = n
             /\ rooted' = TRUE
             /\ UNCHANGED acked
       \/ /\ ~rooted
          /\ log' = <<>> /\ stable' = 0 /\ acked' = 0
          /\ UNCHANGED rooted

Next == PowerLoss \/ \E w \in Writers : Begin(w) \/ Commit(w) \/ Succeed(w) \/ Fail(w)

Spec == Init /\ [][Next]_vars
===============================================================================
