----------------------------- MODULE ProfileSync -----------------------------
(***************************************************************************)
(* The admin workflow of kilovault: `profiles pull`, `edit`, `push` and    *)
(* `new` (cmd/kilovault/profiles.go, edit.go, pkg/profiles/profile.go).    *)
(* Each running command is a process with its own memory.  Processes share *)
(* the vault server, the profile files and the secrets of the credential   *)
(* store, and take no lock on any of them: one action is one RPC, one file *)
(* read or write, or one answer of the user, and anything may come between *)
(* two actions of a process.                                               *)
(***************************************************************************)
EXTENDS Naturals, FiniteSets

CONSTANTS
    Procs,      \* command-line processes
    Users,      \* vault users; each has at most one local profile
    Keys,       \* key names
    Values,     \* non-empty plaintext values
    Secrets,    \* E2E secrets
    Empty,      \* the empty plaintext, which the server answers for no key
    None,       \* absent: no key, no file, no secret, no user
    Limit       \* how often each kind of event in Budget may happen

Budget == {"command", "edit", "external", "failure", "lost", "crash"}

Text == Values \cup {Empty}

(* A value as the server stores it: `enc` is the secret it is encrypted    *)
(* under, or None for plaintext.  The nonce makes two encryptions of one   *)
(* text differ.                                                            *)
Stored == [val : Text, enc : Secrets \cup {None}, nonce : Nat]

(* One key as of the last sync.  `remote` stands for the SHA-256 of the    *)
(* stored value, which is taken to be free of collisions.                  *)
KeyState == [value : Text, remote : Stored, encrypted : BOOLEAN]

Profile == [values : [Keys -> Text \cup {None}],
            base   : [Keys -> KeyState \cup {None}]]

ASSUME NoneAssumption ==
    /\ None \notin Procs \cup Users \cup Secrets \cup Text
    /\ None \notin Stored \cup KeyState \cup Profile \cup [Keys -> Text \cup {None}]

ASSUME LimitAssumption == Limit \in [Budget -> Nat]

-----------------------------------------------------------------------------
(* Values on the server.                                                   *)

PlainOf(v) == [val |-> v, enc |-> None, nonce |-> 0]

Seal(v, s, n) == [val |-> v, enc |-> s, nonce |-> n]

IsEncrypted(stored) == stored.enc # None

(* vault.admin.get of a key that is not there answers an empty value.      *)
Got(stored) == IF stored = None THEN PlainOf(Empty) ELSE stored

(* Profiles.                                                               *)

NewProfile == [values |-> [k \in Keys |-> None], base |-> [k \in Keys |-> None]]

Added(prof)    == {k \in Keys : prof.values[k] # None /\ prof.base[k] = None}
Modified(prof) == {k \in Keys : /\ prof.values[k] # None
                                /\ prof.base[k] # None
                                /\ prof.base[k].value # prof.values[k]}
Deleted(prof)  == {k \in Keys : prof.values[k] = None /\ prof.base[k] # None}
Changed(prof)  == Added(prof) \cup Modified(prof) \cup Deleted(prof)

(* What pull makes of the stored values it fetched.                        *)
StateWithoutRemote(stored) == [value     |-> stored.val,
                               remote    |-> None,
                               encrypted |-> IsEncrypted(stored)]
StateOf(stored) == [value     |-> stored.val,
                    remote    |-> stored,
                    encrypted |-> IsEncrypted(stored)]

Pulled(got) ==
    [values |-> [k \in Keys |-> IF got[k] = None THEN None ELSE got[k].val],
     base   |-> [k \in Keys |-> IF got[k] = None THEN None ELSE StateOf(got[k])]]

(* What push records of a change the server has taken.                     *)
SyncedHashesPlain(v, stored, encrypt) ==
    [value |-> v, remote |-> PlainOf(v), encrypted |-> encrypt]
Synced(v, stored, encrypt) ==
    [value |-> v, remote |-> stored, encrypted |-> encrypt]

NeedsSecret(prof) ==
    \/ Added(prof) # {}
    \/ \E k \in Modified(prof) : prof.base[k].encrypted

(* New keys are always encrypted; existing keys keep their mode.           *)
EncryptsOnlySynced(prof, k) == prof.base[k] # None /\ prof.base[k].encrypted
EncryptsOnPush(prof, k) == prof.base[k] = None \/ prof.base[k].encrypted

-----------------------------------------------------------------------------
VARIABLES
    server,     \* server[u][k]: the stored value, or None
    file,       \* file[u]: the profile file on disk, or None
    secrets,    \* secrets[u]: the secret in the credential store, or None
    nonce,      \* the last nonce used
    proc,       \* proc[p]: the memory of process p
    spent       \* how much of each budget is used up

vars == <<server, file, secrets, nonce, proc, spent>>

Commands == {"pull", "push", "edit", "new"}

(* The memory of a process.  `touched` is a history variable no guard      *)
(* reads: the keys that others wrote on the server since the last time the *)
(* process read them.                                                      *)
ProcState ==
    [pc       : {"idle", "list", "next", "fetch", "build", "editLoad",
                 "editList", "editReload", "editor", "select", "plan",
                 "checkList", "check", "apply", "saveFailed",
                 "newExists", "newList", "newSave"},
     cmd      : Commands,
     force    : BOOLEAN,
     known    : [Users -> Secrets \cup {None}],  \* the opened credential store
     listed   : [Users -> SUBSET Keys],          \* pull: keys still to pull
     todo     : SUBSET Users,                    \* push: users still to plan
     cur      : Users \cup {None},               \* user being worked on
     keys     : SUBSET Keys,                     \* keys still to read
     got      : [Keys -> Stored \cup {None}],    \* pull: what was read
     plan     : [Users -> Profile \cup {None}],  \* profiles loaded to push or edit
     conflict : BOOLEAN,
     touched  : SUBSET (Users \X Keys)]

Idle == [pc |-> "idle", cmd |-> "pull", force |-> FALSE,
         known |-> [u \in Users |-> None], listed |-> [u \in Users |-> {}],
         todo |-> {}, cur |-> None, keys |-> {},
         got |-> [k \in Keys |-> None], plan |-> [u \in Users |-> None],
         conflict |-> FALSE, touched |-> {}]

(* The server may already hold keys, and the store secrets, from before.   *)
Init ==
    /\ server \in [Users -> [Keys -> {None} \cup {PlainOf(v) : v \in Values}
                        \cup {Seal(v, s, 0) : v \in Values, s \in Secrets}]]
    /\ file = [u \in Users |-> None]
    /\ secrets \in [Users -> Secrets \cup {None}]
    /\ nonce = 0
    /\ proc = [p \in Procs |-> Idle]
    /\ spent = [b \in Budget |-> 0]

-----------------------------------------------------------------------------
(* Steps of a process.                                                     *)

Spend(b) == /\ spent[b] < Limit[b]
            /\ spent' = [spent EXCEPT ![b] = @ + 1]

Step(p, me) == proc' = [proc EXCEPT ![p] = me]

End(p) == Step(p, Idle)

(* A write of p to the server: every other running process may now hold a  *)
(* value that is out of date.                                              *)
Write(p, u, k, stored, me) ==
    /\ server' = [server EXCEPT ![u][k] = stored]
    /\ proc' = [q \in Procs |->
                  IF q = p THEN me
                  ELSE IF proc[q].pc = "idle" THEN proc[q]
                  ELSE [proc[q] EXCEPT !.touched = @ \cup {<<u, k>>}]]

OnServer(u) == {k \in Keys : server[u][k] # None}

FirstStep == [pull |-> "list", push |-> "select", edit |-> "editLoad", new |-> "newExists"]

(* Every command first opens the whole credential store; `only` is its -u. *)
Start(p) ==
    /\ proc[p].pc = "idle"
    /\ Spend("command")
    /\ \E c \in Commands, only \in Users \cup {None}, f \in BOOLEAN :
          /\ c \in {"edit", "new"} => only # None /\ ~f
          /\ Step(p, [Idle EXCEPT !.pc = FirstStep[c], !.cmd = c, !.force = f,
                                  !.cur = only, !.known = secrets])
    /\ UNCHANGED <<server, file, secrets, nonce>>

-----------------------------------------------------------------------------
(* pull                                                                    *)

PullList(p) ==
    LET me     == proc[p]
        listed == [u \in Users |-> IF me.cur \in {None, u} THEN OnServer(u) ELSE {}]
    IN  /\ me.pc = "list"
        /\ IF me.cur # None /\ listed[me.cur] = {}
             THEN End(p)
             ELSE Step(p, [me EXCEPT !.pc = "next", !.listed = listed, !.cur = None])
        /\ UNCHANGED <<server, file, secrets, nonce, spent>>

(* A profile with unpushed changes is left alone without --force.          *)
KeepsNothing(me, u) == FALSE
KeepsLocal(me, u) == file[u] # None /\ ~me.force /\ Changed(file[u]) # {}

PullNext(p) ==
    LET me == proc[p]
    IN  /\ me.pc = "next"
        /\ \E u \in Users :
              /\ me.listed[u] # {}
              /\ IF KeepsLocal(me, u)
                   THEN Step(p, [me EXCEPT !.listed[u] = {}])
                   ELSE Step(p, [me EXCEPT !.pc = "fetch", !.cur = u,
                                           !.keys = me.listed[u], !.listed[u] = {}])
        /\ UNCHANGED <<server, file, secrets, nonce, spent>>

PullEnds(p) ==
    /\ proc[p].pc = "next"
    /\ \A u \in Users : proc[p].listed[u] = {}
    /\ End(p)
    /\ UNCHANGED <<server, file, secrets, nonce, spent>>

FetchKey(p) ==
    LET me == proc[p]
    IN  /\ me.pc = "fetch"
        /\ \E k \in me.keys :
              Step(p, [me EXCEPT !.keys = @ \ {k},
                                 !.got[k] = Got(server[me.cur][k]),
                                 !.pc = IF me.keys = {k} THEN "build" ELSE "fetch"])
        /\ UNCHANGED <<server, file, secrets, nonce, spent>>

Encrypted(got) == {k \in Keys : got[k] # None /\ IsEncrypted(got[k])}

(* Leave the user out: pull goes on with the next one, edit gives up.      *)
SkipUser(p) ==
    IF proc[p].cmd = "pull"
      THEN Step(p, [proc[p] EXCEPT !.pc = "next", !.cur = None, !.got = Idle.got])
      ELSE End(p)

AskWithoutSaving(p) ==
    LET me == proc[p]
    IN  /\ me.pc = "build"
        /\ Encrypted(me.got) # {} /\ me.known[me.cur] = None
        /\ \E k \in Encrypted(me.got) :
              Step(p, [me EXCEPT !.known[me.cur] = me.got[k].enc])
        /\ UNCHANGED <<server, file, secrets, nonce, spent>>

(* askSecret: a secret that opens one of the values is kept and saved with *)
(* the whole store as this process opened it.                              *)
AskSecret(p) ==
    LET me == proc[p]
    IN  /\ me.pc = "build"
        /\ Encrypted(me.got) # {} /\ me.known[me.cur] = None
        /\ \E k \in Encrypted(me.got) :
              LET known == [me.known EXCEPT ![me.cur] = me.got[k].enc]
              IN  /\ secrets' = known
                  /\ Step(p, [me EXCEPT !.known = known])
        /\ UNCHANGED <<server, file, nonce, spent>>

(* No terminal, no answer, a wrong answer, or a secret that opens only     *)
(* some of the values.                                                     *)
PullSkips(p) ==
    LET me == proc[p]
    IN  /\ me.pc = "build"
        /\ \E k \in Encrypted(me.got) : me.got[k].enc # me.known[me.cur]
        /\ SkipUser(p)
        /\ UNCHANGED <<server, file, secrets, nonce, spent>>

PullSave(p) ==
    LET me == proc[p]
    IN  /\ me.pc = "build"
        /\ \A k \in Encrypted(me.got) : me.got[k].enc = me.known[me.cur]
        /\ file' = [file EXCEPT ![me.cur] = Pulled(me.got)]
        /\ IF me.cmd = "pull"
             THEN SkipUser(p)
             ELSE Step(p, [me EXCEPT !.pc = "editReload", !.got = Idle.got])
        /\ UNCHANGED <<server, secrets, nonce, spent>>

-----------------------------------------------------------------------------
(* edit                                                                    *)

(* Unpushed changes are edited as they are, otherwise the server is pulled *)
(* first.                                                                  *)
EditLoad(p) ==
    LET me == proc[p]
    IN  /\ me.pc = "editLoad"
        /\ IF file[me.cur] # None /\ Changed(file[me.cur]) # {}
             THEN Step(p, [me EXCEPT !.pc = "editor", !.plan[me.cur] = file[me.cur]])
             ELSE Step(p, [me EXCEPT !.pc = "editList"])
        /\ UNCHANGED <<server, file, secrets, nonce, spent>>

EditList(p) ==
    LET me == proc[p]
    IN  /\ me.pc = "editList"
        /\ IF OnServer(me.cur) # {}
             THEN Step(p, [me EXCEPT !.pc = "fetch", !.keys = OnServer(me.cur)])
             ELSE Step(p, [me EXCEPT !.pc = "editReload"])
        /\ UNCHANGED <<server, file, secrets, nonce, spent>>

EditReload(p) ==
    LET me == proc[p]
    IN  /\ me.pc = "editReload"
        /\ IF file[me.cur] = None
             THEN End(p)
             ELSE Step(p, [me EXCEPT !.pc = "editor", !.plan[me.cur] = file[me.cur]])
        /\ UNCHANGED <<server, file, secrets, nonce, spent>>

(* The editor closes on a document whose text has changed, the values      *)
(* perhaps not; it holds no empty value.  The whole profile as it was      *)
(* loaded is saved with those values.  Pushing asks first and starts from  *)
(* the file.                                                               *)
EditSave(p) ==
    LET me == proc[p]
    IN  /\ me.pc = "editor"
        /\ Spend("edit")
        /\ \E values \in [Keys -> Values \cup {None}], push \in BOOLEAN :
              LET prof == [me.plan[me.cur] EXCEPT !.values = values]
              IN  /\ push => Changed(prof) # {}
                  /\ file' = [file EXCEPT ![me.cur] = prof]
                  /\ IF push
                       THEN Step(p, [me EXCEPT !.pc = "plan", !.todo = {me.cur},
                                               !.cur = None, !.plan = Idle.plan])
                       ELSE End(p)
        /\ UNCHANGED <<server, secrets, nonce>>

(* The document was left as it was, or given up.                           *)
EditQuits(p) ==
    /\ proc[p].pc = "editor"
    /\ End(p)
    /\ UNCHANGED <<server, file, secrets, nonce, spent>>

-----------------------------------------------------------------------------
(* push                                                                    *)

PushSelect(p) ==
    LET me    == proc[p]
        local == {u \in Users : file[u] # None /\ me.cur \in {None, u}}
    IN  /\ me.pc = "select"
        /\ IF local = {}
             THEN End(p)
             ELSE Step(p, [me EXCEPT !.pc = "plan", !.todo = local, !.cur = None])
        /\ UNCHANGED <<server, file, secrets, nonce, spent>>

(* Load the next profile; one change that needs a secret nobody has stops  *)
(* the push.                                                               *)
PushLoad(p) ==
    LET me == proc[p]
    IN  /\ me.pc = "plan"
        /\ \E u \in me.todo :
             IF Changed(file[u]) = {}
               THEN Step(p, [me EXCEPT !.todo = @ \ {u}])
             ELSE IF NeedsSecret(file[u]) /\ me.known[u] = None
               THEN End(p)
             ELSE Step(p, [me EXCEPT !.pc = "checkList", !.todo = @ \ {u},
                                     !.cur = u, !.plan[u] = file[u]])
        /\ UNCHANGED <<server, file, secrets, nonce, spent>>

(* Conflicts that the list of the keys on the server shows.                *)
ModifiedConflicts(prof, there) == Modified(prof) \ there
ListConflicts(prof, there) == (Added(prof) \cap there) \cup (Modified(prof) \ there)

(* The keys both sides have are compared one by one.                       *)
PushCheckList(p) ==
    LET me    == proc[p]
        u     == me.cur
        prof  == me.plan[u]
        there == OnServer(u)
        keys  == (Modified(prof) \cup Deleted(prof)) \cap there
    IN  /\ me.pc = "checkList"
        /\ Step(p, [me EXCEPT
             !.keys = keys,
             !.pc = IF keys = {} THEN "plan" ELSE "check",
             !.conflict = @ \/ ListConflicts(prof, there) # {},
             !.touched = @ \ ({u} \X (Changed(prof) \ keys))])
        /\ UNCHANGED <<server, file, secrets, nonce, spent>>

RemoteChanged(prof, u, k) == Got(server[u][k]) # prof.base[k].remote

PushCheckKey(p) ==
    LET me == proc[p]
        u  == me.cur
    IN  /\ me.pc = "check"
        /\ \E k \in me.keys :
              Step(p, [me EXCEPT
                !.keys = @ \ {k},
                !.pc = IF me.keys = {k} THEN "plan" ELSE "check",
                !.conflict = @ \/ RemoteChanged(me.plan[u], u, k),
                !.touched = @ \ {<<u, k>>}])
        /\ UNCHANGED <<server, file, secrets, nonce, spent>>

Planned(me) == {u \in Users : me.plan[u] # None}

RefusedAlways(me) == me.conflict
Refused(me) == me.conflict /\ ~me.force

(* Nothing to push, a conflict, or the user says no.                       *)
PushStops(p) ==
    LET me == proc[p]
    IN  /\ me.pc = "plan" /\ me.todo = {}
        /\ \/ Planned(me) = {}
           \/ Refused(me)
           \/ me.cmd = "push"
        /\ End(p)
        /\ UNCHANGED <<server, file, secrets, nonce, spent>>

(* The user has confirmed: the first planned user is applied.              *)
PushConfirmed(p) ==
    LET me == proc[p]
    IN  /\ me.pc = "plan" /\ me.todo = {}
        /\ ~Refused(me)
        /\ \E u \in Planned(me) :
              Step(p, [me EXCEPT !.pc = "apply", !.cur = u])
        /\ UNCHANGED <<server, file, secrets, nonce, spent>>

(* One change reaches the server.  When the answer is lost the process     *)
(* takes it for a failure and does not record it.  The change is recorded  *)
(* as synced, so the changes still to apply are those of the profile.      *)
Applied(p, k, stored, state, lost) ==
    LET me == proc[p]
        u  == me.cur
    IN  IF lost
          THEN /\ Spend("lost")
               /\ Write(p, u, k, stored, [me EXCEPT !.pc = "saveFailed"])
          ELSE /\ Write(p, u, k, stored, [me EXCEPT !.plan[u].base[k] = state])
               /\ UNCHANGED spent

ApplyDelete(p) ==
    LET me == proc[p]
    IN  /\ me.pc = "apply"
        /\ \E k \in Deleted(me.plan[me.cur]), lost \in BOOLEAN :
              Applied(p, k, None, None, lost)
        /\ UNCHANGED <<file, secrets, nonce>>

ApplySet(p) ==
    LET me   == proc[p]
        prof == me.plan[me.cur]
    IN  /\ me.pc = "apply"
        /\ \E k \in Added(prof) \cup Modified(prof), lost \in BOOLEAN :
             LET encrypt == EncryptsOnPush(prof, k)
                 v       == prof.values[k]
                 stored  == IF encrypt THEN Seal(v, me.known[me.cur], nonce + 1)
                                       ELSE PlainOf(v)
             IN  /\ Applied(p, k, stored, Synced(v, stored, encrypt), lost)
                 /\ nonce' = IF encrypt THEN nonce + 1 ELSE nonce
        /\ UNCHANGED <<file, secrets>>

(* The profile as it was loaded, with what was applied, replaces the file, *)
(* after a failure too.                                                    *)
ToSaveOnSuccess(me) == IF me.pc = "saveFailed" THEN file[me.cur] ELSE me.plan[me.cur]
ToSave(me) == me.plan[me.cur]

(* After a failure the users not reached yet are left alone.               *)
PushSave(p) ==
    LET me   == proc[p]
        rest == Planned(me) \ {me.cur}
    IN  /\ \/ me.pc = "apply" /\ Changed(me.plan[me.cur]) = {}
           \/ me.pc = "saveFailed"
        /\ file' = [file EXCEPT ![me.cur] = ToSave(me)]
        /\ IF me.pc = "saveFailed" \/ rest = {}
             THEN End(p)
             ELSE \E u \in rest :
                    Step(p, [me EXCEPT !.plan[me.cur] = None, !.cur = u])
        /\ UNCHANGED <<server, secrets, nonce, spent>>

-----------------------------------------------------------------------------
(* new                                                                     *)

NewExists(p) ==
    LET me == proc[p]
    IN  /\ me.pc = "newExists"
        /\ IF file[me.cur] # None
             THEN End(p)
             ELSE Step(p, [me EXCEPT !.pc = "newList"])
        /\ UNCHANGED <<server, file, secrets, nonce, spent>>

(* A user without keys gets a secret, saved with the whole store.          *)
NewList(p) ==
    LET me == proc[p]
    IN  /\ me.pc = "newList"
        /\ IF OnServer(me.cur) # {}
             THEN End(p) /\ UNCHANGED secrets
           ELSE IF me.known[me.cur] # None
             THEN Step(p, [me EXCEPT !.pc = "newSave"]) /\ UNCHANGED secrets
           ELSE \E s \in Secrets :
                  LET known == [me.known EXCEPT ![me.cur] = s]
                  IN  /\ secrets' = known
                      /\ Step(p, [me EXCEPT !.pc = "newSave", !.known = known])
        /\ UNCHANGED <<server, file, nonce, spent>>

NewSave(p) ==
    LET me == proc[p]
    IN  /\ me.pc = "newSave"
        /\ file' = [file EXCEPT ![me.cur] = NewProfile]
        /\ End(p)
        /\ UNCHANGED <<server, secrets, nonce, spent>>

-----------------------------------------------------------------------------
(* Failures and the rest of the world.                                     *)

(* An RPC fails without effect.  Commands stop; a push saves first.        *)
RpcFails(p) ==
    LET me == proc[p]
    IN  /\ Spend("failure")
        /\ \/ /\ me.pc \in {"list", "fetch", "editList", "checkList", "check", "newList"}
              /\ End(p)
           \/ /\ me.pc = "apply" /\ Changed(me.plan[me.cur]) # {}
              /\ Step(p, [me EXCEPT !.pc = "saveFailed"])
        /\ UNCHANGED <<server, file, secrets, nonce>>

(* The process is killed, or cannot save a file.                           *)
Crash(p) ==
    /\ proc[p].pc # "idle"
    /\ Spend("crash")
    /\ End(p)
    /\ UNCHANGED <<server, file, secrets, nonce>>

(* A host or another admin sets or deletes a key.                          *)
ExternalWrite ==
    /\ Spend("external")
    /\ \E u \in Users, k \in Keys,
          stored \in {None} \cup {PlainOf(v) : v \in Values}
                       \cup {Seal(v, s, nonce + 1) : v \in Values, s \in Secrets} :
          /\ stored # server[u][k]
          /\ Write(None, u, k, stored, Idle)
    /\ nonce' = nonce + 1
    /\ UNCHANGED <<file, secrets>>

Work(p) ==
    \/ PullList(p) \/ PullNext(p) \/ PullEnds(p) \/ FetchKey(p)
    \/ AskSecret(p) \/ PullSkips(p) \/ PullSave(p)
    \/ EditLoad(p) \/ EditList(p) \/ EditReload(p) \/ EditSave(p) \/ EditQuits(p)
    \/ PushSelect(p) \/ PushLoad(p) \/ PushCheckList(p) \/ PushCheckKey(p)
    \/ PushStops(p) \/ PushConfirmed(p) \/ ApplyDelete(p) \/ ApplySet(p) \/ PushSave(p)
    \/ NewExists(p) \/ NewList(p) \/ NewSave(p)

Next ==
    \/ \E p \in Procs : Start(p) \/ Work(p) \/ RpcFails(p) \/ Crash(p)
    \/ ExternalWrite

Spec == Init /\ [][Next]_vars

-----------------------------------------------------------------------------
(* Properties.                                                             *)

(* Every variable keeps its type: what pull and push record is complete.   *)
TypeOK ==
    /\ server \in [Users -> [Keys -> Stored \cup {None}]]
    /\ file \in [Users -> Profile \cup {None}]
    /\ secrets \in [Users -> Secrets \cup {None}]
    /\ nonce \in Nat
    /\ proc \in [Procs -> ProcState]
    /\ spent \in [Budget -> Nat]

(* p takes this step (a write by another process only adds to `touched`).  *)
Acts(p) == [proc'[p] EXCEPT !.touched = {}] # [proc[p] EXCEPT !.touched = {}]

Sound(prof) ==
    \A k \in Keys : prof.base[k] # None => prof.base[k] = StateOf(prof.base[k].remote)

(* Whatever order commands, failures and foreign writes come in, every     *)
(* last-synced state on disk is one stored value seen from three sides:    *)
(* its plaintext, its hash and its mode.  push compares hashes, encrypts   *)
(* by mode and finds changes by plaintext, so they must never drift apart. *)
BaseConsistent == \A u \in Users : file[u] # None => Sound(file[u])

(* The server still holds what the profile was last synced with, or the    *)
(* key is gone that push is about to delete.                               *)
Agrees(prof, u, k) ==
    \/ prof.base[k] = None /\ server[u][k] = None
    \/ prof.base[k] # None /\ Got(server[u][k]) = prof.base[k].remote
    \/ k \in Deleted(prof) /\ server[u][k] = None

(* When an unforced push writes, every change of every user it planned has *)
(* been compared with the server, and what it is about to overwrite is     *)
(* what was last synced, but for keys others wrote after the comparison.   *)
(* So a conflict of one user leaves the others unpushed.                   *)
PushIsChecked ==
    \A p \in Procs :
        proc[p].pc = "apply" /\ ~proc[p].force =>
            \A u \in Planned(proc[p]) : \A k \in Changed(proc[p].plan[u]) :
                <<u, k>> \in proc[p].touched \/ Agrees(proc[p].plan[u], u, k)

(* A push stores plaintext only where the server holds plaintext: a key    *)
(* that is new on the server is always encrypted, and a ciphertext becomes *)
(* plaintext only under --force or after a foreign write in the meantime.  *)
(* The exception is a key that was deleted while a pull was reading it,    *)
(* and again while the push was: both see the empty value of no key.       *)
PushKeepsSecrecy ==
    [][\A p \in Procs, u \in Users, k \in Keys :
          /\ Acts(p) /\ proc[p].pc = "apply"
          /\ server'[u][k] # server[u][k] /\ server'[u][k] # None
          /\ ~IsEncrypted(server'[u][k])
          => \/ proc[p].force \/ <<u, k>> \in proc[p].touched
             \/ server[u][k] # None /\ ~IsEncrypted(server[u][k])
             \/ server[u][k] = None /\ proc[p].plan[u].base[k] = StateOf(PlainOf(Empty))]_vars

(* Only the editor and `pull --force` replace a value that has an unpushed *)
(* edit: a pull, a push or a `new` in between never loses one.  This needs *)
(* the commands to run one at a time.                                      *)
EditsKept ==
    [][\A p \in Procs, u \in Users :
          /\ Acts(p) /\ file'[u] # file[u] /\ file[u] # None
          /\ proc[p].pc # "editor"
          /\ ~(proc[p].pc = "build" /\ proc[p].force)
          => \A k \in Changed(file[u]) : file'[u].values[k] = file[u].values[k]]_vars

AllIdle == \A p \in Procs : proc[p].pc = "idle"

(* With no foreign writer, between commands every last-synced state is the *)
(* server's: a push that fails half-way has recorded exactly what it did,  *)
(* so that the next diff and push continue from there.                     *)
AppliedIsRecorded ==
    AllIdle => \A u \in Users, k \in Keys :
        file[u] # None =>
            server[u][k] = IF file[u].base[k] = None THEN None ELSE file[u].base[k].remote

(* What a profile holds encrypted, the credential store can decrypt:       *)
(* commands that learn or generate a secret save it before they rely on it.*)
SecretsSuffice ==
    \A u \in Users, k \in Keys :
        /\ file[u] # None
        /\ file[u].base[k] # None
        /\ file[u].base[k].encrypted
        => secrets[u] = file[u].base[k].remote.enc

-----------------------------------------------------------------------------
(* The profile files implement WorkingCopy when commands run one at a time *)
(* and nobody else writes: whatever is pulled, created, edited or pushed,  *)
(* in one command or several, with RPCs that fail half-way, the server     *)
(* changes only where a file differs from it, to what the file says, and   *)
(* a file changes only by an edit or to exactly what the server holds.     *)
Copies == [u \in Users |-> IF file[u] = None THEN None ELSE file[u].values]

Copy == INSTANCE WorkingCopy WITH copy <- Copies

IsWorkingCopy == Copy!Spec

-----------------------------------------------------------------------------
(* What the README says and several processes or a foreign writer refute.  *)

(* README.md:519: push refuses if a key also changed on the server in the  *)
(* meantime, so that it never overwrites a value it was not synced with.   *)
PushOverwritesOnlySynced ==
    [][\A p \in Procs, u \in Users, k \in Keys :
          /\ Acts(p) /\ proc[p].pc = "apply" /\ ~proc[p].force
          /\ server'[u][k] # server[u][k]
          => Agrees(proc[p].plan[u], u, k)]_vars

(* README.md:526: pull never overwrites unpushed edits without --force.    *)
PullKeepsEdits ==
    [][\A p \in Procs, u \in Users :
          /\ Acts(p) /\ file'[u] # file[u] /\ file[u] # None
          /\ proc[p].cmd = "pull" /\ proc[p].pc = "build" /\ ~proc[p].force
          => Changed(file[u]) = {}]_vars

-----------------------------------------------------------------------------
(* A user who keeps retrying `push --force` and keeps saying yes.          *)

RetryPush(p) ==
    /\ proc[p].pc = "idle"
    /\ Step(p, [Idle EXCEPT !.pc = "select", !.cmd = "push", !.force = TRUE,
                            !.known = secrets])
    /\ UNCHANGED <<server, file, secrets, nonce, spent>>

RetrySteps ==
    /\ [][Next \/ \E p \in Procs : RetryPush(p)]_vars
    /\ \A p \in Procs : /\ WF_vars(Work(p)) /\ WF_vars(RetryPush(p))
                        /\ SF_vars(PushConfirmed(p))

(* Once failures, crashes, edits and foreign writes are over, retried      *)
(* forced pushes of all profiles get every local change to the server,     *)
(* whatever half-applied pushes came before, unless a change of some user  *)
(* needs a secret that the credential store does not have: that one stops  *)
(* the push of all users, before anything is sent (PushLoad).              *)
RetriedPushConverges ==
    <>[](\/ \A u \in Users : file[u] # None => Changed(file[u]) = {}
         \/ \E u \in Users : file[u] # None /\ NeedsSecret(file[u]) /\ secrets[u] = None)
=============================================================================
