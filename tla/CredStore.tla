------------------------------ MODULE CredStore ------------------------------
(***************************************************************************)
(* The credential store and the unlock session: `init`, `credentials ...`, *)
(* `unlock` and `lock` (cmd/kilovault/credentials.go, session.go), over    *)
(* pkg/credentials and pkg/session.  The store is one file that every      *)
(* command opens as a whole and saves as a whole; the session is one key   *)
(* in the user's kernel keyring.  Commands take no lock.  A save is the    *)
(* atomic write of module AtomicFile.                                      *)
(***************************************************************************)
EXTENDS Naturals, FiniteSets

CONSTANTS
    Procs,      \* command-line processes
    Passwords,  \* master passwords
    Entries,    \* the admin tokens and E2E secrets a store may hold
    AdminToken, \* the one `init` asks for
    Secrets,    \* what an entry may be
    None,       \* absent
    Limit       \* how often each kind of event in Budget may happen

Budget == {"command", "failure", "loss"}

(* The key a store file opens with: a password and a salt.                 *)
Key == [pw : Passwords, salt : Nat]

(* What is sealed in the file.  The data key is random; profile files are  *)
(* sealed under it.                                                        *)
Payload == [dataKey : Nat, entries : [Entries -> Secrets \cup {None}], backedUp : BOOLEAN]

Store == [key : Key, payload : Payload]

ASSUME EntriesAssumption == AdminToken \in Entries /\ None \notin Secrets
ASSUME NoneAssumption == None \notin Key \cup Payload \cup Store
ASSUME LimitAssumption == Limit \in [Budget -> Nat]

VARIABLES
    file,       \* credentials.enc: a store, or None
    session,    \* the key in the keyring, or None
    backups,    \* the payloads of the backup files, sealed on their own
    fresh,      \* the last random salt or data key drawn
    proc,       \* proc[p]: the memory of process p
    overlapped, \* history: two commands have run at the same time
    spent       \* how much of each budget is used up

vars == <<file, session, backups, fresh, proc, overlapped, spent>>

FirstStep == [init   |-> "begin", restore |-> "begin", set  |-> "open", remove |-> "open",
              passwd |-> "open",  backup  |-> "open",  show |-> "open",
              unlock |-> "open",  lock |-> "clear"]
Commands == DOMAIN FirstStep

ProcState ==
    [pc    : {"idle", "open", "tryKey", "drop", "password", "opened", "record",
              "clear", "link", "begin", "create", "createSave", "token"},
     cmd   : Commands,
     sess  : Key \cup {None},       \* the session it loaded
     store : Store \cup {None},     \* the store it opened or is creating
     from  : Payload \cup {None}]   \* restore: the backup it opened

Idle == [pc |-> "idle", cmd |-> "show", sess |-> None, store |-> None, from |-> None]

Init ==
    /\ file = None /\ session = None /\ backups = {} /\ fresh = 0
    /\ proc = [p \in Procs |-> Idle]
    /\ overlapped = FALSE
    /\ spent = [b \in Budget |-> 0]

-----------------------------------------------------------------------------
Spend(b) == /\ spent[b] < Limit[b]
            /\ spent' = [spent EXCEPT ![b] = @ + 1]

Step(p, me) == proc' = [proc EXCEPT ![p] = me]
Goto(p, pc) == Step(p, [proc[p] EXCEPT !.pc = pc])
End(p) == Step(p, Idle)

Running == {p \in Procs : proc[p].pc # "idle"}

(* `show` stands for every command that only reads the store; it is not    *)
(* counted.                                                                *)
Start(p) ==
    /\ proc[p].pc = "idle"
    /\ \E c \in Commands :
          /\ IF c = "show" THEN UNCHANGED spent ELSE Spend("command")
          /\ Step(p, [Idle EXCEPT !.pc = FirstStep[c], !.cmd = c])
    /\ overlapped' = (overlapped \/ Running # {})
    /\ UNCHANGED <<file, session, backups, fresh>>

-----------------------------------------------------------------------------
(* openStore: the session's key first, then the password; unlock always    *)
(* asks for the password.                                                  *)

LoadSession(p) ==
    /\ proc[p].pc = "open"
    /\ IF file = None
         THEN End(p)
       ELSE IF session = None \/ proc[p].cmd = "unlock"
         THEN Goto(p, "password")
       ELSE Step(p, [proc[p] EXCEPT !.pc = "tryKey", !.sess = session])
    /\ UNCHANGED <<file, session, backups, fresh, overlapped, spent>>

KeepsStaleKey(p) ==
    /\ proc[p].pc = "tryKey"
    /\ IF file # None /\ file.key = proc[p].sess
         THEN Step(p, [proc[p] EXCEPT !.pc = "opened", !.store = file])
         ELSE Goto(p, "password")
    /\ UNCHANGED <<file, session, backups, fresh, overlapped, spent>>
TryKey(p) ==
    /\ proc[p].pc = "tryKey"
    /\ IF file = None
         THEN End(p)
       ELSE IF file.key = proc[p].sess
         THEN Step(p, [proc[p] EXCEPT !.pc = "opened", !.store = file])
       ELSE Goto(p, "drop")
    /\ UNCHANGED <<file, session, backups, fresh, overlapped, spent>>

(* The key did not open the store: the session is cleared, whatever it     *)
(* holds by now.                                                           *)
DropSession(p) ==
    /\ proc[p].pc = "drop"
    /\ session' = None
    /\ Goto(p, "password")
    /\ UNCHANGED <<file, backups, fresh, overlapped, spent>>

(* The right password opens the store as it is on disk now.                *)
Password(p) ==
    /\ proc[p].pc = "password"
    /\ \/ End(p)
       \/ /\ file # None
          /\ Step(p, [proc[p] EXCEPT !.store = file,
                        !.pc = IF proc[p].cmd = "unlock" THEN "clear" ELSE "opened"])
    /\ UNCHANGED <<file, session, backups, fresh, overlapped, spent>>

-----------------------------------------------------------------------------
(* What is done with an opened store.                                      *)

Opened(p, c) == proc[p].pc = "opened" /\ proc[p].cmd = c

(* A reading command is done; another one is given up at a prompt, or a    *)
(* check fails.                                                            *)
Leave(p) ==
    /\ proc[p].pc = "opened"
    /\ End(p)
    /\ UNCHANGED <<file, session, backups, fresh, overlapped, spent>>

WithEntry(store, e, v) == [store EXCEPT !.payload.entries[e] = v]

(* set-token, set-secret, and the secrets that `profiles` learns or makes. *)
Set(p) ==
    /\ Opened(p, "set")
    /\ \E e \in Entries, v \in Secrets : file' = WithEntry(proc[p].store, e, v)
    /\ End(p)
    /\ UNCHANGED <<session, backups, fresh, overlapped, spent>>

Remove(p) ==
    /\ Opened(p, "remove")
    /\ \E e \in Entries \ {AdminToken} :
          /\ proc[p].store.payload.entries[e] # None
          /\ file' = WithEntry(proc[p].store, e, None)
    /\ End(p)
    /\ UNCHANGED <<session, backups, fresh, overlapped, spent>>

(* A new key under a fresh salt; the data key stays.                       *)
RekeyedAll(store, key) ==
    [key |-> key, payload |-> [store.payload EXCEPT !.dataKey = key.salt]]
Rekeyed(store, key) == [store EXCEPT !.key = key]

(* The session goes after the save.                                        *)
ChangePassword(p) ==
    /\ Opened(p, "passwd")
    /\ fresh' = fresh + 1
    /\ \E pw \in Passwords :
          file' = Rekeyed(proc[p].store, [pw |-> pw, salt |-> fresh'])
    /\ Goto(p, "clear")
    /\ UNCHANGED <<session, backups, overlapped, spent>>

(* The backup holds the payload as it was opened, marked as backed up.     *)
RecordsFirst(p) ==
    LET marked == [proc[p].store EXCEPT !.payload.backedUp = TRUE]
    IN  /\ Opened(p, "backup")
        /\ file' = marked
        /\ Step(p, [proc[p] EXCEPT !.pc = "record", !.store = marked])
        /\ UNCHANGED <<session, backups, fresh, overlapped, spent>>
WriteBackup(p) ==
    LET marked == [proc[p].store EXCEPT !.payload.backedUp = TRUE]
    IN  /\ Opened(p, "backup")
        /\ backups' = backups \cup {marked.payload}
        /\ Step(p, [proc[p] EXCEPT !.pc = "record", !.store = marked])
        /\ UNCHANGED <<file, session, fresh, overlapped, spent>>

RecordBackup(p) ==
    /\ proc[p].pc = "record"
    /\ file' = proc[p].store
    /\ End(p)
    /\ UNCHANGED <<session, backups, fresh, overlapped, spent>>

-----------------------------------------------------------------------------
(* The session.                                                            *)

ClearsForLock(p) ==
    /\ proc[p].pc = "clear"
    /\ session' = IF proc[p].cmd = "passwd" THEN session ELSE None
    /\ IF proc[p].cmd = "unlock" THEN Goto(p, "link") ELSE End(p)
    /\ UNCHANGED <<file, backups, fresh, overlapped, spent>>
Clear(p) ==
    /\ proc[p].pc = "clear"
    /\ session' = None
    /\ IF proc[p].cmd = "unlock" THEN Goto(p, "link") ELSE End(p)
    /\ UNCHANGED <<file, backups, fresh, overlapped, spent>>

(* unlock links the key of the store it opened into the user's keyring,    *)
(* in place of any other session.                                          *)
Link(p) ==
    /\ proc[p].pc = "link"
    /\ session' = proc[p].store.key
    /\ End(p)
    /\ UNCHANGED <<file, backups, fresh, overlapped, spent>>

Expire ==
    /\ session # None
    /\ session' = None
    /\ UNCHANGED <<file, backups, fresh, proc, overlapped, spent>>

-----------------------------------------------------------------------------
(* init and restore.                                                       *)

Begin(p) ==
    /\ proc[p].pc = "begin"
    /\ \/ End(p)
       \/ /\ file = None
          /\ IF proc[p].cmd = "init"
               THEN Goto(p, "create")
               ELSE \E b \in backups : Step(p, [proc[p] EXCEPT !.pc = "create", !.from = b])
    /\ UNCHANGED <<file, session, backups, fresh, overlapped, spent>>

NoEntries == [e \in Entries |-> None]

RestoresOnly(me, dataKey) == me.from
FirstPayload(me, dataKey) ==
    IF me.cmd = "init"
      THEN [dataKey |-> dataKey, entries |-> NoEntries, backedUp |-> FALSE]
      ELSE me.from

(* Create and CreateFromBackup check again that there is no file, then     *)
(* derive the key.                                                         *)
Create(p) ==
    /\ proc[p].pc = "create"
    /\ fresh' = fresh + 1
    /\ IF file # None
         THEN End(p)
         ELSE \E pw \in Passwords :
                Step(p, [proc[p] EXCEPT !.pc = "createSave",
                           !.store = [key     |-> [pw |-> pw, salt |-> fresh'],
                                      payload |-> FirstPayload(proc[p], fresh')]])
    /\ UNCHANGED <<file, session, backups, overlapped, spent>>

CreateSave(p) ==
    /\ proc[p].pc = "createSave"
    /\ file' = proc[p].store
    /\ IF proc[p].cmd = "init" THEN Goto(p, "token") ELSE End(p)
    /\ UNCHANGED <<session, backups, fresh, overlapped, spent>>

(* init saves the new store a second time, with the admin token.           *)
SaveToken(p) ==
    /\ proc[p].pc = "token"
    /\ \E v \in Secrets : file' = WithEntry(proc[p].store, AdminToken, v)
    /\ End(p)
    /\ UNCHANGED <<session, backups, fresh, overlapped, spent>>

-----------------------------------------------------------------------------
(* A call fails and the command ends, or the process is killed.            *)
Fail(p) ==
    /\ proc[p].pc # "idle"
    /\ Spend("failure")
    /\ End(p)
    /\ UNCHANGED <<file, session, backups, fresh, overlapped>>

(* The file is lost, or moved aside to be replaced.                        *)
Lose ==
    /\ file # None
    /\ Spend("loss")
    /\ file' = None
    /\ UNCHANGED <<session, backups, fresh, proc, overlapped>>

Work(p) ==
    \/ LoadSession(p) \/ TryKey(p) \/ DropSession(p) \/ Password(p)
    \/ Leave(p) \/ Set(p) \/ Remove(p) \/ ChangePassword(p)
    \/ WriteBackup(p) \/ RecordBackup(p) \/ Clear(p) \/ Link(p)
    \/ Begin(p) \/ Create(p) \/ CreateSave(p) \/ SaveToken(p)

Next ==
    \/ \E p \in Procs : Start(p) \/ Work(p) \/ Fail(p)
    \/ Expire \/ Lose

Spec == Init /\ [][Next]_vars

(* Commands go on, and the user keeps running some.                        *)
FairSpec == Spec /\ \A p \in Procs : WF_vars(Work(p)) /\ WF_vars(Start(p))

-----------------------------------------------------------------------------
(* Properties.                                                             *)

(* Every variable keeps its type; a process past a prompt has its store.   *)
TypeOK ==
    /\ file \in Store \cup {None}
    /\ session \in Key \cup {None}
    /\ backups \subseteq Payload
    /\ fresh \in Nat
    /\ proc \in [Procs -> ProcState]
    /\ overlapped \in BOOLEAN
    /\ spent \in [Budget -> Nat]

(* A store that says it is backed up, and so stops reminding the user, has *)
(* a backup from which its profile files can be opened again: through      *)
(* overlapping commands, failures, losses and restores.                    *)
NoFalseBackup ==
    file # None /\ file.payload.backedUp =>
        \E b \in backups : b.dataKey = file.payload.dataKey

ChangedEntries == {e \in Entries : file'.payload.entries[e] # file.payload.entries[e]}

(* As long as commands run one at a time, saving the whole store takes     *)
(* nothing back: the data key of the profile files stays, at most one      *)
(* entry changes, and only passwd changes the key.                         *)
SavesOneChange ==
    [][~overlapped /\ file # None /\ file' # None =>
          /\ file'.payload.dataKey = file.payload.dataKey
          /\ Cardinality(ChangedEntries) <= 1
          /\ file'.key # file.key => \E p \in Procs : proc[p].cmd = "passwd"]_vars

AllIdle == Running = {}

(* Between commands that ran one at a time and did not fail, a session     *)
(* opens the store: passwd ends the one that no longer would.              *)
SessionOpens ==
    AllIdle /\ ~overlapped /\ spent["failure"] = 0 /\ spent["loss"] = 0 =>
        session = None \/ (file # None /\ session = file.key)

Stale == file # None /\ session # None /\ session # file.key

(* A session that no longer opens the store, left by a race or a killed    *)
(* passwd, is found and dropped by the commands that follow.               *)
StaleSessionGoes == Stale ~> ~Stale

=============================================================================
