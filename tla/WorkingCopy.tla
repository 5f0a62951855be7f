----------------------------- MODULE WorkingCopy -----------------------------
(***************************************************************************)
(* What the profile commands promise a single admin: for every user a      *)
(* working copy of the values on the server (the comment on Profile at     *)
(* pkg/profiles/profile.go:27).  A copy is checked out as a whole, edited, *)
(* and pushed one changed key at a time: a key that is new to the server   *)
(* is sealed, any other keeps its mode.                                    *)
(***************************************************************************)
CONSTANTS Users, Keys, Text, Stored, None

VARIABLES
    server,     \* server[u][k]: the stored value, or None
    copy        \* copy[u][k]: the plaintext in the working copy; None: no copy

vars == <<server, copy>>

Plain(there) == [k \in Keys |-> IF there[k] = None THEN None ELSE there[k].val]

Differs(u, k) == copy[u] # None /\ copy[u][k] # Plain(server[u])[k]

Init ==
    /\ server \in [Users -> [Keys -> Stored \cup {None}]]
    /\ copy = [u \in Users |-> None]

Checkout(u) ==
    /\ copy' = [copy EXCEPT ![u] = Plain(server[u])]
    /\ UNCHANGED server

Edit(u) ==
    /\ copy[u] # None
    /\ \E values \in [Keys -> Text \cup {None}] : copy' = [copy EXCEPT ![u] = values]
    /\ UNCHANGED server

PushUnset(u, k) ==
    /\ Differs(u, k) /\ copy[u][k] = None
    /\ server' = [server EXCEPT ![u][k] = None]
    /\ UNCHANGED copy

Sealed(stored) == stored = None \/ stored.enc # None

PushSet(u, k) ==
    LET stored == server'[u][k]
    IN  /\ Differs(u, k) /\ copy[u][k] # None
        /\ server' = [server EXCEPT ![u][k] = stored]
        /\ stored \in Stored
        /\ stored.val = copy[u][k]
        /\ (stored.enc # None) = Sealed(server[u][k])
        /\ UNCHANGED copy

Next == \E u \in Users : \/ Checkout(u) \/ Edit(u)
                         \/ \E k \in Keys : PushUnset(u, k) \/ PushSet(u, k)

Spec == Init /\ [][Next]_vars
===============================================================================
