--------------------------- MODULE CredStoreProofs ---------------------------
(***************************************************************************)
(* The credential store keeps its types and never claims a backup that     *)
(* does not exist, whatever commands overlap, fail and lose the file; and  *)
(* while commands run one at a time, a save takes nothing back, and        *)
(* between commands a session opens the store.                             *)
(***************************************************************************)
EXTENDS CredStore, TLAPS, FiniteSetTheorems

(* A payload marked as backed up has a backup, in bs, with its data key.   *)
Honest(payload, bs) == payload.backedUp => \E b \in bs : b.dataKey = payload.dataKey

HonestStore(store, bs) == store # None => Honest(store.payload, bs)

WithStore == {"opened", "record", "link", "createSave", "token"}

(* The memory of a process: what it opened was honest then, and still is,  *)
(* since backups are never removed.                                        *)
MemoryOK(me, bs) ==
    /\ me.pc \in WithStore => me.store # None
    /\ me.pc = "clear" /\ me.cmd = "unlock" => me.store # None
    /\ me.pc = "create" /\ me.cmd # "init" => me.from # None
    /\ HonestStore(me.store, bs)
    /\ me.from # None => Honest(me.from, bs)

IInv ==
    /\ TypeOK
    /\ HonestStore(file, backups)
    /\ \A p \in Procs : MemoryOK(proc[p], backups)
    /\ \A b \in backups : Honest(b, backups)

-----------------------------------------------------------------------------
LEMMA CommandsAre ==
    Commands = {"init", "restore", "set", "remove", "passwd", "backup", "show", "unlock", "lock"}
  BY DEF Commands, FirstStep

LEMMA IdleOK == /\ Idle \in ProcState /\ Idle.pc = "idle" /\ Idle.store = None /\ Idle.from = None
                /\ \A bs : MemoryOK(Idle, bs)
  BY CommandsAre DEF Idle, ProcState, MemoryOK, WithStore, HonestStore

LEMMA InitInv == Init => IInv
<1> SUFFICES ASSUME Init PROVE IInv
  OBVIOUS
<1>1. TypeOK
  BY IdleOK DEF Init, TypeOK
<1> QED BY <1>1, IdleOK DEF Init, IInv, HonestStore

(* Backups only come: what was honest stays so.                            *)
LEMMA StaysHonest ==
    ASSUME NEW bs, NEW cs, bs \subseteq cs
    PROVE  /\ \A x : Honest(x, bs) => Honest(x, cs)
           /\ \A x : HonestStore(x, bs) => HonestStore(x, cs)
           /\ \A x : MemoryOK(x, bs) => MemoryOK(x, cs)
  BY DEF MemoryOK, HonestStore, Honest

(* A step of one process.                                                  *)
LEMMA ProcStep ==
    ASSUME IInv, NEW p \in Procs, NEW me \in ProcState, Step(p, me), MemoryOK(me, backups'),
           file' \in Store \cup {None}, HonestStore(file', backups'),
           session' \in Key \cup {None}, fresh' \in Nat, overlapped' \in BOOLEAN,
           spent' \in [Budget -> Nat],
           backups \subseteq backups', backups' \subseteq Payload,
           \A b \in backups' : Honest(b, backups')
    PROVE  IInv'
<1>1. proc' \in [Procs -> ProcState]
  BY DEF Step, IInv, TypeOK
<1>2. TypeOK'
  BY <1>1 DEF TypeOK
<1>3. \A q \in Procs : MemoryOK(proc'[q], backups')
  BY StaysHonest DEF Step, IInv, TypeOK
<1> QED BY <1>2, <1>3 DEF IInv

(* One that leaves the file and the backups alone.                         *)
LEMMA QuietStep ==
    ASSUME IInv, NEW p \in Procs, NEW me \in ProcState, Step(p, me), MemoryOK(me, backups),
           UNCHANGED <<file, backups, overlapped, spent>>,
           session' \in Key \cup {None}, fresh' \in Nat
    PROVE  IInv'
  BY ProcStep DEF IInv, TypeOK

LEMMA EndStep ==
    ASSUME IInv, NEW p \in Procs, End(p), UNCHANGED <<file, backups, overlapped, spent>>,
           session' \in Key \cup {None}, fresh' \in Nat
    PROVE  IInv'
  BY IdleOK, QuietStep DEF End

(* One that saves a store made from the one it opened.                     *)
LEMMA SaveStep ==
    ASSUME IInv, NEW p \in Procs, NEW me \in ProcState, Step(p, me), MemoryOK(me, backups),
           file' \in Store, Honest(file'.payload, backups),
           UNCHANGED <<session, backups, overlapped, spent>>, fresh' \in Nat
    PROVE  IInv'
  BY ProcStep DEF IInv, TypeOK, HonestStore

LEMMA Own ==
    ASSUME IInv, NEW p \in Procs
    PROVE  /\ proc[p] \in ProcState /\ MemoryOK(proc[p], backups)
           /\ proc[p].store # None => proc[p].store \in Store /\ Honest(proc[p].store.payload, backups)
           /\ file \in Store \cup {None} /\ session \in Key \cup {None} /\ fresh \in Nat
           /\ fresh + 1 \in Nat
  BY DEF IInv, TypeOK, ProcState, MemoryOK, HonestStore

(* Goto only moves on.                                                     *)
At(me, pc) == [me EXCEPT !.pc = pc]

LEMMA AtState ==
    ASSUME NEW me \in ProcState,
           NEW pc \in {"drop", "password", "clear", "link", "create", "token"}
    PROVE  /\ At(me, pc) \in ProcState /\ At(me, pc).pc = pc /\ At(me, pc).cmd = me.cmd
           /\ At(me, pc).store = me.store /\ At(me, pc).from = me.from
  BY DEF At, ProcState

-----------------------------------------------------------------------------
LEMMA Spent == ASSUME IInv, NEW b \in Budget, Spend(b) PROVE spent' \in [Budget -> Nat]
<1>1. spent \in [Budget -> Nat]
  BY DEF IInv, TypeOK
<1>2. spent[b] + 1 \in Nat
  BY <1>1
<1> QED BY <1>1, <1>2 DEF Spend

LEMMA StartInv == ASSUME IInv, NEW p \in Procs, Start(p) PROVE IInv'
<1> DEFINE new(c) == [Idle EXCEPT !.pc = FirstStep[c], !.cmd = c]
<1>1. PICK c \in Commands : Step(p, new(c))
  BY DEF Start
<1>2. spent' \in [Budget -> Nat]
  BY Spent DEF Start, Budget, IInv, TypeOK
<1>3. FirstStep[c] \in {"begin", "open", "password", "clear"}
      /\ (FirstStep[c] = "clear" => c = "lock")
  BY CommandsAre DEF FirstStep
<1>4. /\ new(c) \in ProcState /\ new(c).pc = FirstStep[c] /\ new(c).cmd = c
      /\ new(c).store = None /\ new(c).from = None
  BY <1>3, IdleOK DEF Idle, ProcState
<1> HIDE DEF new
<1>5. MemoryOK(new(c), backups)
  BY <1>3, <1>4 DEF MemoryOK, WithStore, HonestStore
<1>6. UNCHANGED <<file, session, backups, fresh>> /\ overlapped' \in BOOLEAN
  BY DEF Start, IInv, TypeOK
<1> QED BY <1>1, <1>2, <1>4, <1>5, <1>6, ProcStep DEF IInv, TypeOK

(* The process holds what is on disk now.                                  *)
LEMMA OpenedState ==
    ASSUME IInv, NEW p \in Procs, file # None, NEW pc \in {"opened", "clear"}
    PROVE  LET new == [proc[p] EXCEPT !.store = file, !.pc = pc]
           IN  new \in ProcState /\ MemoryOK(new, backups)
<1> DEFINE me  == proc[p]
           new == [me EXCEPT !.store = file, !.pc = pc]
<1>1. me \in ProcState /\ MemoryOK(me, backups) /\ file \in Store
  BY Own
<1>2. HonestStore(file, backups)
  BY DEF IInv
<1> HIDE DEF me
<1>3. new \in ProcState /\ new.pc = pc /\ new.store = file /\ new.from = me.from
  BY <1>1 DEF ProcState
<1> HIDE DEF new
<1>4. MemoryOK(new, backups)
  BY <1>1, <1>2, <1>3 DEF MemoryOK, WithStore
<1> QED BY <1>3, <1>4 DEF new, me

LEMMA OpenInv ==
    ASSUME IInv, NEW p \in Procs, LoadSession(p) \/ TryKey(p) \/ DropSession(p) \/ Password(p)
    PROVE  IInv'
<1> DEFINE me == proc[p]
<1>1. /\ session' \in Key \cup {None} /\ fresh' \in Nat
      /\ UNCHANGED <<file, backups, overlapped, spent>>
  BY Own DEF LoadSession, TryKey, DropSession, Password
<1>2. \/ End(p)
      \/ Goto(p, "password") \/ Goto(p, "drop")
      \/ \E s \in Key \cup {None} : Step(p, [me EXCEPT !.pc = "tryKey", !.sess = s])
      \/ \E pc \in {"opened", "clear"} : file # None /\ Step(p, [me EXCEPT !.store = file, !.pc = pc])
  <2>1. CASE LoadSession(p)
    <3> DEFINE try(s) == Step(p, [me EXCEPT !.pc = "tryKey", !.sess = s])
    <3>1. End(p) \/ Goto(p, "password") \/ try(session)
      BY <2>1 DEF LoadSession
    <3>2. session \in Key \cup {None}
      BY Own
    <3> HIDE DEF try
    <3>3. End(p) \/ Goto(p, "password") \/ \E s \in Key \cup {None} : try(s)
      BY <3>1, <3>2
    <3> QED BY <3>3 DEF try
  <2>2. CASE TryKey(p)
    <3>1. [me EXCEPT !.pc = "opened", !.store = file] = [me EXCEPT !.store = file, !.pc = "opened"]
      BY Own DEF ProcState
    <3> QED BY <2>2, <3>1 DEF TryKey
  <2>3. CASE DropSession(p)
    BY <2>3 DEF DropSession
  <2>4. CASE Password(p)
    BY <2>4 DEF Password
  <2> QED BY <2>1, <2>2, <2>3, <2>4
<1>3. CASE End(p)
  BY <1>1, <1>3, EndStep
<1>4. CASE Goto(p, "password") \/ Goto(p, "drop")
  <2>1. PICK pc \in {"password", "drop"} : Step(p, At(me, pc))
    BY <1>4 DEF Goto, At
  <2>2. me \in ProcState /\ MemoryOK(me, backups)
    BY Own
  <2> HIDE DEF me
  <2>3. /\ At(me, pc) \in ProcState /\ At(me, pc).pc = pc
        /\ At(me, pc).store = me.store /\ At(me, pc).from = me.from
    BY <2>2, AtState
  <2>4. MemoryOK(At(me, pc), backups)
    BY <2>2, <2>3 DEF MemoryOK, WithStore
  <2> QED BY <1>1, <2>1, <2>3, <2>4, QuietStep
<1>5. CASE \E s \in Key \cup {None} : Step(p, [me EXCEPT !.pc = "tryKey", !.sess = s])
  <2>1. PICK s \in Key \cup {None} : Step(p, [me EXCEPT !.pc = "tryKey", !.sess = s])
    BY <1>5
  <2> DEFINE new == [me EXCEPT !.pc = "tryKey", !.sess = s]
  <2>2. me \in ProcState /\ MemoryOK(me, backups)
    BY Own
  <2> HIDE DEF me
  <2>3. /\ new \in ProcState /\ new.pc = "tryKey" /\ new.store = me.store /\ new.from = me.from
    BY <2>2 DEF ProcState
  <2> HIDE DEF new
  <2>4. MemoryOK(new, backups)
    BY <2>2, <2>3 DEF MemoryOK, WithStore
  <2> QED BY <1>1, <2>1, <2>3, <2>4, QuietStep DEF new
<1>6. CASE \E pc \in {"opened", "clear"} : file # None /\ Step(p, [me EXCEPT !.store = file, !.pc = pc])
  BY <1>1, <1>6, OpenedState, QuietStep
<1> QED BY <1>2, <1>3, <1>4, <1>5, <1>6

-----------------------------------------------------------------------------
LEMMA EntryState ==
    ASSUME NEW store \in Store, NEW e \in Entries, NEW v \in Secrets \cup {None}
    PROVE  /\ WithEntry(store, e, v) \in Store
           /\ \A bs : Honest(store.payload, bs) => Honest(WithEntry(store, e, v).payload, bs)
<1> DEFINE new == [store.payload EXCEPT !.entries[e] = v]
<1>1. store.payload \in Payload /\ store.key \in Key
  BY DEF Store
<1>2. new \in Payload /\ new.dataKey = store.payload.dataKey
      /\ new.backedUp = store.payload.backedUp
  BY <1>1 DEF Payload
<1>3. WithEntry(store, e, v) = [store EXCEPT !.payload = new]
  BY DEF WithEntry
<1> HIDE DEF new
<1>4. WithEntry(store, e, v) \in Store /\ WithEntry(store, e, v).payload = new
  BY <1>2, <1>3 DEF Store
<1> QED BY <1>2, <1>4 DEF Honest

LEMMA SetInv ==
    ASSUME IInv, NEW p \in Procs, Set(p) \/ Remove(p) \/ Leave(p)
    PROVE  IInv'
<1>1. CASE Leave(p)
  BY <1>1, Own, EndStep DEF Leave
<1>2. CASE Set(p) \/ Remove(p)
  <2>1. /\ proc[p].pc = "opened" /\ End(p)
        /\ UNCHANGED <<session, backups, fresh, overlapped, spent>>
    BY <1>2 DEF Set, Remove, Opened
  <2>2. PICK e \in Entries, v \in Secrets \cup {None} : file' = WithEntry(proc[p].store, e, v)
    BY <1>2 DEF Set, Remove
  <2>3. proc[p].store \in Store /\ Honest(proc[p].store.payload, backups)
    BY <2>1, Own DEF MemoryOK, WithStore
  <2>4. file' \in Store /\ Honest(file'.payload, backups)
    BY <2>2, <2>3, EntryState
  <2>5. fresh' \in Nat
    BY <2>1, Own
  <2> QED BY <2>1, <2>4, <2>5, IdleOK, SaveStep DEF End
<1> QED BY <1>1, <1>2

LEMMA ChangePasswordInv == ASSUME IInv, NEW p \in Procs, ChangePassword(p) PROVE IInv'
<1> DEFINE me == proc[p]
<1>1. /\ me.pc = "opened" /\ me.cmd = "passwd" /\ fresh' = fresh + 1
      /\ UNCHANGED <<session, backups, overlapped, spent>> /\ Step(p, At(me, "clear"))
  BY DEF ChangePassword, Opened, Goto, At
<1>2. PICK pw \in Passwords : file' = Rekeyed(me.store, [pw |-> pw, salt |-> fresh'])
  BY DEF ChangePassword
<1>3. /\ me \in ProcState /\ MemoryOK(me, backups) /\ fresh' \in Nat
      /\ me.store \in Store /\ Honest(me.store.payload, backups)
  BY <1>1, Own DEF MemoryOK, WithStore
<1> HIDE DEF me
<1>4. file' \in Store /\ file'.payload = me.store.payload
  BY <1>2, <1>3 DEF Rekeyed, Store, Key
<1>5. /\ At(me, "clear") \in ProcState /\ At(me, "clear").pc = "clear"
      /\ At(me, "clear").cmd = me.cmd /\ At(me, "clear").store = me.store
      /\ At(me, "clear").from = me.from
  BY <1>3, AtState
<1>6. MemoryOK(At(me, "clear"), backups)
  BY <1>1, <1>3, <1>5 DEF MemoryOK, WithStore
<1> QED BY <1>1, <1>3, <1>4, <1>5, <1>6, SaveStep

LEMMA WriteBackupInv == ASSUME IInv, NEW p \in Procs, WriteBackup(p) PROVE IInv'
<1> DEFINE me     == proc[p]
           marked == [me.store EXCEPT !.payload.backedUp = TRUE]
           new    == [me EXCEPT !.pc = "record", !.store = marked]
<1>1. /\ me.pc = "opened" /\ backups' = backups \cup {marked.payload} /\ Step(p, new)
      /\ UNCHANGED <<file, session, fresh, overlapped, spent>>
  BY DEF WriteBackup, Opened
<1>2. me \in ProcState /\ MemoryOK(me, backups) /\ me.store \in Store
  BY <1>1, Own DEF MemoryOK, WithStore
<1>3. marked \in Store /\ marked # None
  <2> DEFINE old  == me.store
             load == [old.payload EXCEPT !.backedUp = TRUE]
  <2>1. load \in Payload
    BY <1>2 DEF Store, Payload
  <2>2. marked = [old EXCEPT !.payload = load]
    OBVIOUS
  <2> HIDE DEF load, old
  <2>3. [old EXCEPT !.payload = load] \in Store
    BY <1>2, <2>1 DEF Store, old
  <2> HIDE DEF marked
  <2> QED BY <2>2, <2>3, NoneAssumption
<1> HIDE DEF marked, me
<1>4. marked.payload \in Payload
  BY <1>3 DEF Store
<1>5. Honest(marked.payload, backups') /\ HonestStore(marked, backups')
  BY <1>1 DEF Honest, HonestStore
<1>6. new \in ProcState /\ new.pc = "record" /\ new.store = marked /\ new.from = me.from
  BY <1>2, <1>3 DEF ProcState
<1> HIDE DEF new
<1>7. backups \subseteq backups' /\ backups' \subseteq Payload
  BY <1>1, <1>4 DEF IInv, TypeOK
<1>8. MemoryOK(me, backups')
  BY <1>2, <1>7, StaysHonest
<1>9. MemoryOK(new, backups')
  BY <1>3, <1>5, <1>6, <1>8 DEF MemoryOK, WithStore
<1>10. \A b \in backups' : Honest(b, backups')
  BY <1>1, <1>5, <1>7, StaysHonest DEF IInv
<1>11. HonestStore(file', backups')
  BY <1>1, <1>7, StaysHonest DEF IInv
<1> QED BY <1>1, <1>6, <1>7, <1>9, <1>10, <1>11, ProcStep DEF IInv, TypeOK

LEMMA RecordInv ==
    ASSUME IInv, NEW p \in Procs, RecordBackup(p) \/ SaveToken(p)
    PROVE  IInv'
<1>1. /\ proc[p].pc \in {"record", "token"} /\ End(p)
      /\ UNCHANGED <<session, backups, fresh, overlapped, spent>>
  BY DEF RecordBackup, SaveToken
<1>2. proc[p].store \in Store /\ Honest(proc[p].store.payload, backups)
  BY <1>1, Own DEF MemoryOK, WithStore
<1>3. file' = proc[p].store \/ \E v \in Secrets : file' = WithEntry(proc[p].store, AdminToken, v)
  BY DEF RecordBackup, SaveToken
<1>4. file' \in Store /\ Honest(file'.payload, backups)
  BY <1>2, <1>3, EntryState, EntriesAssumption
<1>5. fresh' \in Nat
  BY <1>1, Own
<1> QED BY <1>1, <1>4, <1>5, IdleOK, SaveStep DEF End

LEMMA SessionInv == ASSUME IInv, NEW p \in Procs, Clear(p) \/ Link(p) PROVE IInv'
<1> DEFINE me == proc[p]
<1>1. UNCHANGED <<file, backups, fresh, overlapped, spent>> /\ fresh' \in Nat
  BY Own DEF Clear, Link
<1>2. CASE Clear(p)
  <2>1. session' = None /\ me.pc = "clear"
    BY <1>2 DEF Clear
  <2>2. CASE me.cmd # "unlock"
    BY <1>1, <1>2, <2>1, <2>2, EndStep DEF Clear
  <2>3. CASE me.cmd = "unlock"
    <3>1. Step(p, At(me, "link"))
      BY <1>2, <2>3 DEF Clear, Goto, At
    <3>2. me \in ProcState /\ MemoryOK(me, backups)
      BY Own
    <3> HIDE DEF me
    <3>3. /\ At(me, "link") \in ProcState /\ At(me, "link").pc = "link"
          /\ At(me, "link").store = me.store /\ At(me, "link").from = me.from
      BY <3>2, AtState
    <3>4. MemoryOK(At(me, "link"), backups)
      BY <2>1, <2>3, <3>2, <3>3 DEF MemoryOK, WithStore
    <3> QED BY <1>1, <2>1, <3>1, <3>3, <3>4, QuietStep
  <2> QED BY <2>2, <2>3
<1>3. CASE Link(p)
  <2>1. me.store \in Store
    BY <1>3, Own DEF Link, MemoryOK, WithStore
  <2>2. session' \in Key
    BY <1>3, <2>1 DEF Link, Store
  <2> QED BY <1>1, <1>3, <2>2, EndStep DEF Link
<1> QED BY <1>2, <1>3

LEMMA BeginInv == ASSUME IInv, NEW p \in Procs, Begin(p) PROVE IInv'
<1> DEFINE me     == proc[p]
           new(b) == [me EXCEPT !.pc = "create", !.from = b]
<1>1. UNCHANGED <<file, session, backups, fresh, overlapped, spent>>
  BY DEF Begin
<1>2. session' \in Key \cup {None} /\ fresh' \in Nat
  BY <1>1, Own
<1>3. me \in ProcState /\ MemoryOK(me, backups) /\ me.pc = "begin"
  BY Own DEF Begin
<1>4. \/ End(p) \/ (me.cmd = "init" /\ Step(p, At(me, "create")))
      \/ \E b \in backups : Step(p, new(b))
  BY DEF Begin, Goto, At
<1> HIDE DEF me
<1>5. CASE me.cmd = "init" /\ Step(p, At(me, "create"))
  <2>1. /\ At(me, "create") \in ProcState /\ At(me, "create").pc = "create"
        /\ At(me, "create").cmd = me.cmd
        /\ At(me, "create").store = me.store /\ At(me, "create").from = me.from
    BY <1>3, AtState
  <2>2. MemoryOK(At(me, "create"), backups)
    BY <1>3, <1>5, <2>1 DEF MemoryOK, WithStore
  <2> QED BY <1>1, <1>2, <1>5, <2>1, <2>2, QuietStep
<1>6. CASE \E b \in backups : Step(p, new(b))
  <2>1. PICK b \in backups : Step(p, new(b))
    BY <1>6
  <2>2. b \in Payload /\ b # None /\ Honest(b, backups)
    BY NoneAssumption DEF IInv, TypeOK
  <2>3. /\ new(b) \in ProcState /\ new(b).pc = "create" /\ new(b).from = b
        /\ new(b).store = me.store
    BY <1>3, <2>2 DEF ProcState
  <2> HIDE DEF new
  <2>4. MemoryOK(new(b), backups)
    BY <1>3, <2>2, <2>3 DEF MemoryOK, WithStore
  <2> QED BY <1>1, <1>2, <2>1, <2>3, <2>4, QuietStep
<1> QED BY <1>1, <1>2, <1>4, <1>5, <1>6, EndStep

LEMMA CreateInv == ASSUME IInv, NEW p \in Procs, Create(p) PROVE IInv'
<1> DEFINE me      == proc[p]
           load    == FirstPayload(me, fresh')
           made(k) == [key |-> k, payload |-> load]
           new(k)  == [me EXCEPT !.pc = "createSave", !.store = made(k)]
<1>1. /\ me.pc = "create" /\ fresh' = fresh + 1
      /\ UNCHANGED <<file, session, backups, overlapped, spent>>
  BY DEF Create
<1>2. me \in ProcState /\ MemoryOK(me, backups) /\ fresh' \in Nat /\ session' \in Key \cup {None}
  BY <1>1, Own
<1>3. End(p) \/ \E pw \in Passwords : Step(p, new([pw |-> pw, salt |-> fresh']))
  BY DEF Create
<1> HIDE DEF me
<1>4. load \in Payload /\ Honest(load, backups)
  <2>1. CASE me.cmd = "init"
    BY <1>2, <2>1 DEF FirstPayload, Payload, NoEntries, Honest
  <2>2. CASE me.cmd # "init"
    BY <1>1, <1>2, <2>2 DEF FirstPayload, MemoryOK, ProcState
  <2> QED BY <2>1, <2>2
<1>5. CASE \E pw \in Passwords : Step(p, new([pw |-> pw, salt |-> fresh']))
  <2>1. PICK pw \in Passwords : Step(p, new([pw |-> pw, salt |-> fresh']))
    BY <1>5
  <2> DEFINE k == [pw |-> pw, salt |-> fresh']
  <2>2. k \in Key
    BY <1>2 DEF Key
  <2> HIDE DEF k, load
  <2>3. made(k) \in Store /\ made(k).payload = load /\ made(k) # None
    BY <1>4, <2>2, NoneAssumption DEF Store
  <2> HIDE DEF made
  <2>4. /\ new(k) \in ProcState /\ new(k).pc = "createSave" /\ new(k).store = made(k)
        /\ new(k).from = me.from
    BY <1>2, <2>3 DEF ProcState
  <2> HIDE DEF new
  <2>5. MemoryOK(new(k), backups)
    BY <1>2, <1>4, <2>3, <2>4 DEF MemoryOK, WithStore, HonestStore
  <2> QED BY <1>1, <1>2, <2>1, <2>4, <2>5, QuietStep DEF k
<1> QED BY <1>1, <1>2, <1>3, <1>5, EndStep

LEMMA CreateSaveInv == ASSUME IInv, NEW p \in Procs, CreateSave(p) PROVE IInv'
<1> DEFINE me == proc[p]
<1>1. /\ me.pc = "createSave" /\ file' = me.store
      /\ UNCHANGED <<session, backups, fresh, overlapped, spent>>
      /\ End(p) \/ Step(p, At(me, "token"))
  BY DEF CreateSave, Goto, At
<1>2. /\ me \in ProcState /\ MemoryOK(me, backups) /\ fresh' \in Nat
      /\ me.store \in Store /\ Honest(me.store.payload, backups)
  BY <1>1, Own DEF MemoryOK, WithStore
<1> HIDE DEF me
<1>3. /\ At(me, "token") \in ProcState /\ At(me, "token").pc = "token"
      /\ At(me, "token").store = me.store /\ At(me, "token").from = me.from
  BY <1>2, AtState
<1>4. MemoryOK(At(me, "token"), backups)
  BY <1>1, <1>2, <1>3 DEF MemoryOK, WithStore
<1> QED BY <1>1, <1>2, <1>3, <1>4, IdleOK, SaveStep DEF End

LEMMA FailInv == ASSUME IInv, NEW p \in Procs, Fail(p) PROVE IInv'
<1>1. spent' \in [Budget -> Nat]
  BY Spent DEF Fail, Budget
<1>2. /\ End(p) /\ UNCHANGED <<file, session, backups, fresh, overlapped>>
  BY DEF Fail
<1> QED BY <1>1, <1>2, IdleOK, ProcStep DEF End, IInv, TypeOK

LEMMA ElsewhereInv == ASSUME IInv, Expire \/ Lose \/ UNCHANGED vars PROVE IInv'
<1>1. spent' \in [Budget -> Nat]
  BY Spent DEF Expire, Lose, vars, Budget, IInv, TypeOK
<1>2. proc' = proc /\ backups' = backups /\ HonestStore(file', backups)
  BY DEF Expire, Lose, vars, IInv, HonestStore
<1>3. TypeOK'
  BY <1>1, <1>2 DEF Expire, Lose, vars, IInv, TypeOK
<1> QED BY <1>2, <1>3 DEF IInv

LEMMA NextInv == IInv /\ [Next]_vars => IInv'
<1> SUFFICES ASSUME IInv, [Next]_vars PROVE IInv'
  OBVIOUS
<1>1. ASSUME NEW p \in Procs, Start(p) \/ Work(p) \/ Fail(p) PROVE IInv'
  BY <1>1, StartInv, OpenInv, SetInv, ChangePasswordInv, WriteBackupInv, RecordInv, SessionInv,
     BeginInv, CreateInv, CreateSaveInv, FailInv DEF Work
<1> QED BY <1>1, ElsewhereInv DEF Next

(* The inductive invariant holds in every state.                           *)
THEOREM Invariance == Spec => []IInv
<1> QED BY InitInv, NextInv, PTL DEF Spec

(* Every variable keeps its type, whatever commands overlap.               *)
THEOREM StoreTypeCorrect == Spec => []TypeOK
<1>1. IInv => TypeOK
  BY DEF IInv
<1> QED BY <1>1, Invariance, PTL

(* A store that says it is backed up has a backup with its data key, for   *)
(* any number of overlapping, failing commands and lost files.             *)
THEOREM BackupsAreReal == Spec => []NoFalseBackup
<1>1. IInv => NoFalseBackup
  BY DEF IInv, HonestStore, Honest, NoFalseBackup
<1> QED BY <1>1, Invariance, PTL

-----------------------------------------------------------------------------
(* Commands that run one at a time.                                        *)

Keeps(store, f) ==
    /\ store.key = f.key
    /\ store.payload.dataKey = f.payload.dataKey
    /\ store.payload.entries = f.payload.entries

HoldsFile(me) ==
    \/ me.pc \in {"opened", "record", "link", "token"}
    \/ me.pc = "clear" /\ me.cmd = "unlock"

(* What a command holds in memory is what is on disk, but for the mark of  *)
(* a backup, unless the file was lost; one that creates finds no file.     *)
Copies(me, f) ==
    /\ HoldsFile(me) => f = None \/ (me.store # None /\ Keeps(me.store, f))
    /\ me.pc = "createSave" => f = None

Clears(me) == me.pc = "clear" /\ me.cmd = "passwd"

(* The session opens the store, or its end is the next thing to happen.    *)
Fits(s, f, ps) == s = None \/ (f # None /\ s = f.key) \/ \E p \in Procs : Clears(ps[p])

Unbroken == spent["failure"] = 0 /\ spent["loss"] = 0

AloneInv ==
    ~overlapped =>
      /\ \A p, q \in Running : p = q
      /\ \A p \in Procs : Copies(proc[p], file)
      /\ Unbroken => /\ Fits(session, file, proc)
                     /\ \A p \in Procs : HoldsFile(proc[p]) => file # None

-----------------------------------------------------------------------------
LEMMA InitAlone == Init => AloneInv
  BY IdleOK DEF Init, AloneInv, Running, Copies, HoldsFile, Unbroken, Fits

LEMMA IdleHolds == Idle \in ProcState /\ Idle.pc = "idle" /\ ~HoldsFile(Idle) /\ \A f : Copies(Idle, f)
  BY IdleOK DEF HoldsFile, Copies

(* What a command knows when it is the only one.                           *)
LEMMA Only ==
    ASSUME IInv, AloneInv, ~overlapped, NEW p \in Procs, proc[p].pc # "idle"
    PROVE  /\ \A q \in Procs \ {p} : proc[q].pc = "idle"
           /\ Copies(proc[p], file)
           /\ Unbroken => /\ \/ session = None \/ (file # None /\ session = file.key)
                             \/ Clears(proc[p])
                          /\ HoldsFile(proc[p]) => file # None
<1>1. \A q \in Procs \ {p} : proc[q].pc = "idle"
  BY DEF AloneInv, Running
<1> QED BY <1>1 DEF AloneInv, Fits, Clears

LEMMA AloneStep ==
    ASSUME IInv, AloneInv, NEW p \in Procs, proc[p].pc # "idle",
           NEW me \in ProcState, Step(p, me), overlapped' = overlapped,
           ~overlapped => Copies(me, file'),
           ~overlapped /\ Unbroken' =>
             /\ session' = None \/ (file' # None /\ session' = file'.key) \/ Clears(me)
             /\ HoldsFile(me) => file' # None
    PROVE  AloneInv'
<1> SUFFICES ASSUME ~overlapped
             PROVE  /\ \A q, r \in Running' : q = r
                    /\ \A q \in Procs : Copies(proc'[q], file')
                    /\ Unbroken' => /\ Fits(session', file', proc')
                                    /\ \A q \in Procs : HoldsFile(proc'[q]) => file' # None
  BY DEF AloneInv
<1>1. proc'[p] = me /\ \A q \in Procs \ {p} : proc'[q] = proc[q] /\ proc'[q].pc = "idle"
  BY Only DEF Step, IInv, TypeOK
<1>2. \A q, r \in Running' : q = r
  BY <1>1 DEF Running
<1>3. \A q \in Procs \ {p} : Copies(proc'[q], file') /\ ~HoldsFile(proc'[q])
  BY <1>1 DEF Copies, HoldsFile
<1>4. ASSUME Unbroken' PROVE Fits(session', file', proc')
  BY <1>1, <1>4 DEF Fits
<1> QED BY <1>1, <1>2, <1>3, <1>4

(* A step that leaves the file, and holds no store afterwards.             *)
LEMMA AloneQuiet ==
    ASSUME IInv, AloneInv, NEW p \in Procs, proc[p].pc # "idle",
           NEW me \in ProcState, Step(p, me), UNCHANGED <<file, overlapped, spent>>,
           ~HoldsFile(me), me.pc # "createSave",
           session' = None \/ (session' = session /\ proc[p].pc # "clear")
    PROVE  AloneInv'
<1>1. ~overlapped => Copies(me, file')
  BY DEF Copies
<1>2. ~overlapped /\ Unbroken' => session' = None \/ (file' # None /\ session' = file'.key)
  BY Only DEF Clears, Unbroken
<1> QED BY <1>1, <1>2, AloneStep

LEMMA AloneEnd ==
    ASSUME IInv, AloneInv, NEW p \in Procs, proc[p].pc # "idle", End(p),
           UNCHANGED <<file, overlapped, spent>>,
           session' = None \/ (session' = session /\ proc[p].pc # "clear")
    PROVE  AloneInv'
  BY AloneQuiet, IdleHolds DEF End

LEMMA AloneGoto ==
    ASSUME IInv, AloneInv, NEW p \in Procs, proc[p].pc # "idle",
           NEW pc \in {"drop", "password", "create"}, Goto(p, pc),
           UNCHANGED <<file, overlapped, spent>>,
           session' = None \/ (session' = session /\ proc[p].pc # "clear")
    PROVE  AloneInv'
<1>1. At(proc[p], pc) \in ProcState /\ At(proc[p], pc).pc = pc
  BY Own, AtState
<1>2. Step(p, At(proc[p], pc))
  BY DEF Goto, At
<1> QED BY <1>1, <1>2, AloneQuiet DEF HoldsFile

(* A step that opens the store as it is on disk.                           *)
LEMMA AloneOpens ==
    ASSUME IInv, AloneInv, NEW p \in Procs, proc[p].pc \in {"tryKey", "password"},
           file # None, NEW pc \in {"opened", "clear"},
           Step(p, [proc[p] EXCEPT !.store = file, !.pc = pc]),
           UNCHANGED <<file, session, overlapped, spent>>
    PROVE  AloneInv'
<1> DEFINE new == [proc[p] EXCEPT !.store = file, !.pc = pc]
<1>1. new \in ProcState
  BY OpenedState
<1>2. proc[p] \in ProcState
  BY Own
<1>3. new.pc = pc /\ new.store = file
  BY <1>2 DEF ProcState
<1> HIDE DEF new
<1>4. Copies(new, file')
  BY <1>3 DEF Copies, Keeps
<1>5. ~overlapped /\ Unbroken' => session' = None \/ (file' # None /\ session' = file'.key)
  BY Only DEF Clears, Unbroken
<1> QED BY <1>1, <1>4, <1>5, AloneStep DEF new

LEMMA AloneOpen ==
    ASSUME IInv, AloneInv, NEW p \in Procs, LoadSession(p) \/ TryKey(p) \/ DropSession(p) \/ Password(p)
    PROVE  AloneInv'
<1>0. proc[p] \in ProcState
  BY Own
<1>1. CASE LoadSession(p)
  <2> DEFINE new == [proc[p] EXCEPT !.pc = "tryKey", !.sess = session]
  <2>1. /\ proc[p].pc = "open" /\ UNCHANGED <<file, session, overlapped, spent>>
        /\ End(p) \/ Goto(p, "password") \/ Step(p, new)
    BY <1>1 DEF LoadSession
  <2>2. new \in ProcState /\ new.pc = "tryKey"
    BY <1>0, Own DEF ProcState
  <2> HIDE DEF new
  <2>3. ~HoldsFile(new) /\ new.pc # "createSave"
    BY <2>2 DEF HoldsFile
  <2> QED BY <2>1, <2>2, <2>3, AloneQuiet, AloneEnd, AloneGoto
<1>2. CASE TryKey(p)
  <2>1. [proc[p] EXCEPT !.pc = "opened", !.store = file] = [proc[p] EXCEPT !.store = file, !.pc = "opened"]
    BY <1>0 DEF ProcState
  <2>2. /\ proc[p].pc = "tryKey" /\ UNCHANGED <<file, session, overlapped, spent>>
        /\ \/ End(p) \/ Goto(p, "drop")
           \/ file # None /\ Step(p, [proc[p] EXCEPT !.store = file, !.pc = "opened"])
    BY <1>2, <2>1 DEF TryKey
  <2> QED BY <2>2, AloneOpens, AloneEnd, AloneGoto
<1>3. CASE DropSession(p)
  BY <1>3, AloneGoto DEF DropSession
<1>4. CASE Password(p)
  <2>1. /\ proc[p].pc = "password" /\ UNCHANGED <<file, session, overlapped, spent>>
        /\ \/ End(p)
           \/ \E pc \in {"opened", "clear"} :
                file # None /\ Step(p, [proc[p] EXCEPT !.store = file, !.pc = pc])
    BY <1>4 DEF Password
  <2> QED BY <2>1, AloneOpens, AloneEnd
<1> QED BY <1>1, <1>2, <1>3, <1>4

-----------------------------------------------------------------------------
(* A change of one entry.                                                  *)
LEMMA EntryKeeps ==
    ASSUME NEW store \in Store, NEW e \in Entries, NEW v \in Secrets \cup {None}
    PROVE  LET new == WithEntry(store, e, v)
           IN  /\ new \in Store /\ new.key = store.key
               /\ new.payload.dataKey = store.payload.dataKey
               /\ \A x \in Entries \ {e} : new.payload.entries[x] = store.payload.entries[x]
<1> DEFINE load == [store.payload EXCEPT !.entries[e] = v]
<1>1. store.payload \in Payload /\ store.key \in Key
  BY DEF Store
<1>2. /\ load \in Payload /\ load.dataKey = store.payload.dataKey
      /\ \A x \in Entries \ {e} : load.entries[x] = store.payload.entries[x]
  BY <1>1 DEF Payload
<1>3. WithEntry(store, e, v) = [store EXCEPT !.payload = load]
  BY DEF WithEntry
<1> HIDE DEF load
<1>4. LET new == WithEntry(store, e, v)
      IN  new \in Store /\ new.key = store.key /\ new.payload = load
  BY <1>2, <1>3 DEF Store
<1> QED BY <1>2, <1>4

(* What the commands that save write, seen from the store they hold.       *)
Entering(p) == Set(p) \/ Remove(p) \/ SaveToken(p)

LEMMA Enters ==
    ASSUME IInv, NEW p \in Procs, Entering(p)
    PROVE  /\ proc[p].pc \in {"opened", "token"} /\ proc[p].store \in Store /\ End(p)
           /\ UNCHANGED <<session, overlapped, spent>>
           /\ \E e \in Entries, v \in Secrets \cup {None} : file' = WithEntry(proc[p].store, e, v)
<1>1. /\ proc[p].pc \in {"opened", "token"} /\ End(p)
      /\ UNCHANGED <<session, overlapped, spent>>
  BY DEF Entering, Set, Remove, SaveToken, Opened
<1>2. proc[p].store \in Store
  BY <1>1, Own DEF MemoryOK, WithStore
<1>3. \E e \in Entries, v \in Secrets \cup {None} : file' = WithEntry(proc[p].store, e, v)
  BY EntriesAssumption DEF Entering, Set, Remove, SaveToken
<1> QED BY <1>1, <1>2, <1>3

LEMMA AloneEnters ==
    ASSUME IInv, AloneInv, NEW p \in Procs, Entering(p) \/ RecordBackup(p) PROVE AloneInv'
<1>1. /\ proc[p].pc \in {"opened", "token", "record"} /\ proc[p].store \in Store /\ End(p)
      /\ UNCHANGED <<session, overlapped, spent>>
      /\ file' \in Store /\ file'.key = proc[p].store.key
  <2>1. CASE Entering(p)
    BY <2>1, Enters, EntryKeeps
  <2>2. CASE RecordBackup(p)
    BY <2>2, Own DEF RecordBackup, MemoryOK, WithStore
  <2> QED BY <2>1, <2>2
<1>2. ~overlapped /\ Unbroken' => session' = None \/ (file' # None /\ session' = file'.key)
  <2> SUFFICES ASSUME ~overlapped, Unbroken'
               PROVE  session' = None \/ (file' # None /\ session' = file'.key)
    OBVIOUS
  <2>1. file # None /\ file.key = proc[p].store.key /\ (session = None \/ session = file.key)
    BY <1>1, Only DEF Clears, Unbroken, HoldsFile, Copies, Keeps
  <2> QED BY <1>1, <2>1, NoneAssumption
<1> QED BY <1>1, <1>2, AloneStep, IdleHolds DEF End

LEMMA AlonePassword ==
    ASSUME IInv, AloneInv, NEW p \in Procs, ChangePassword(p) PROVE AloneInv'
<1> DEFINE new == At(proc[p], "clear")
<1>1. /\ proc[p].pc = "opened" /\ proc[p].cmd = "passwd" /\ Step(p, new)
      /\ UNCHANGED <<session, overlapped, spent>>
  BY DEF ChangePassword, Opened, Goto, At
<1>2. new \in ProcState /\ new.pc = "clear" /\ new.cmd = "passwd"
  BY <1>1, Own, AtState
<1> HIDE DEF new
<1>3. Clears(new) /\ ~HoldsFile(new) /\ Copies(new, file')
  BY <1>2 DEF Clears, HoldsFile, Copies
<1> QED BY <1>1, <1>2, <1>3, AloneStep

LEMMA Marked ==
    ASSUME NEW store \in Store
    PROVE  LET marked == [store EXCEPT !.payload.backedUp = TRUE]
           IN  marked \in Store /\ Keeps(marked, store)
<1> DEFINE load == [store.payload EXCEPT !.backedUp = TRUE]
<1>1. /\ load \in Payload /\ load.dataKey = store.payload.dataKey
      /\ load.entries = store.payload.entries
  BY DEF Store, Payload
<1>2. [store EXCEPT !.payload.backedUp = TRUE] = [store EXCEPT !.payload = load]
  OBVIOUS
<1> HIDE DEF load
<1>3. LET marked == [store EXCEPT !.payload = load]
      IN  marked \in Store /\ marked.payload = load /\ marked.key = store.key
  BY <1>1 DEF Store
<1> QED BY <1>1, <1>2, <1>3 DEF Keeps

LEMMA AloneBackup ==
    ASSUME IInv, AloneInv, NEW p \in Procs, WriteBackup(p) PROVE AloneInv'
<1> DEFINE marked == [proc[p].store EXCEPT !.payload.backedUp = TRUE]
           new    == [proc[p] EXCEPT !.pc = "record", !.store = marked]
<1>1. /\ proc[p].pc = "opened" /\ Step(p, new) /\ UNCHANGED <<file, session, overlapped, spent>>
  BY DEF WriteBackup, Opened
<1>2. proc[p] \in ProcState /\ proc[p].store \in Store
  BY <1>1, Own DEF MemoryOK, WithStore
<1>3. marked \in Store /\ Keeps(marked, proc[p].store)
  BY <1>2, Marked
<1> HIDE DEF marked
<1>4. new \in ProcState /\ new.pc = "record" /\ new.store = marked
  BY <1>2, <1>3 DEF ProcState
<1> HIDE DEF new
<1>5. ~overlapped => Copies(new, file')
  <2> SUFFICES ASSUME ~overlapped PROVE Copies(new, file')
    OBVIOUS
  <2>1. file = None \/ Keeps(proc[p].store, file)
    BY <1>1, Only DEF Copies, HoldsFile
  <2> QED BY <1>1, <1>3, <1>4, <2>1, NoneAssumption DEF Copies, Keeps
<1>6. ~overlapped /\ Unbroken' =>
        /\ session' = None \/ (file' # None /\ session' = file'.key)
        /\ file' # None
  BY <1>1, Only DEF Clears, HoldsFile, Unbroken
<1> QED BY <1>1, <1>4, <1>5, <1>6, AloneStep

LEMMA AloneSession ==
    ASSUME IInv, AloneInv, NEW p \in Procs, Clear(p) \/ Link(p) PROVE AloneInv'
<1>1. CASE Clear(p)
  <2>1. proc[p].pc = "clear" /\ session' = None /\ UNCHANGED <<file, overlapped, spent>>
    BY <1>1 DEF Clear
  <2>2. CASE proc[p].cmd # "unlock"
    BY <1>1, <2>1, <2>2, AloneEnd DEF Clear
  <2>3. CASE proc[p].cmd = "unlock"
    <3> DEFINE new == At(proc[p], "link")
    <3>1. Step(p, new)
      BY <1>1, <2>3 DEF Clear, Goto, At
    <3>2. new \in ProcState /\ new.pc = "link" /\ new.store = proc[p].store
      BY Own, AtState
    <3> HIDE DEF new
    <3>3. ~overlapped => Copies(new, file') /\ (Unbroken' => file' # None)
      BY <2>1, <2>3, <3>2, Only DEF Copies, HoldsFile, Unbroken
    <3> QED BY <2>1, <3>1, <3>2, <3>3, AloneStep
  <2> QED BY <2>2, <2>3
<1>2. CASE Link(p)
  <2>1. /\ proc[p].pc = "link" /\ session' = proc[p].store.key /\ End(p)
        /\ UNCHANGED <<file, overlapped, spent>>
    BY <1>2 DEF Link
  <2>2. ~overlapped /\ Unbroken' => file' # None /\ session' = file'.key
    BY <2>1, Only DEF Copies, Keeps, HoldsFile, Unbroken
  <2> QED BY <2>1, <2>2, AloneStep, IdleHolds DEF End
<1> QED BY <1>1, <1>2

-----------------------------------------------------------------------------
LEMMA AloneBegin ==
    ASSUME IInv, AloneInv, NEW p \in Procs, Begin(p) PROVE AloneInv'
<1> DEFINE new(b) == [proc[p] EXCEPT !.pc = "create", !.from = b]
<1>1. /\ proc[p].pc = "begin" /\ UNCHANGED <<file, session, overlapped, spent>>
      /\ End(p) \/ Goto(p, "create") \/ \E b \in backups : Step(p, new(b))
  BY DEF Begin
<1>2. proc[p] \in ProcState
  BY Own
<1>3. ASSUME NEW b \in backups, Step(p, new(b)) PROVE AloneInv'
  <2>1. b \in Payload
    BY DEF IInv, TypeOK
  <2>2. new(b) \in ProcState /\ new(b).pc = "create"
    BY <1>2, <2>1 DEF ProcState
  <2> HIDE DEF new
  <2> QED BY <1>1, <1>3, <2>2, AloneQuiet DEF HoldsFile
<1> QED BY <1>1, <1>3, AloneEnd, AloneGoto

LEMMA AloneCreate ==
    ASSUME IInv, AloneInv, NEW p \in Procs, Create(p) PROVE AloneInv'
<1>1. proc[p].pc = "create" /\ UNCHANGED <<file, session, overlapped, spent>>
  BY DEF Create
<1>2. CASE file # None
  BY <1>1, <1>2, AloneEnd DEF Create
<1>3. CASE file = None
  <2>1. proc' \in [Procs -> ProcState]
    BY CreateInv DEF IInv, TypeOK
  <2>2. PICK store : Step(p, [proc[p] EXCEPT !.pc = "createSave", !.store = store])
    BY <1>3 DEF Create
  <2> DEFINE new == [proc[p] EXCEPT !.pc = "createSave", !.store = store]
  <2>3. proc[p] \in ProcState
    BY Own
  <2>4. new.pc = "createSave"
    BY <2>3 DEF ProcState
  <2>5. new \in ProcState
    BY <2>1, <2>2 DEF Step, IInv, TypeOK
  <2> HIDE DEF new
  <2>6. Copies(new, file') /\ ~HoldsFile(new)
    BY <1>1, <1>3, <2>4 DEF Copies, HoldsFile
  <2>7. ~overlapped /\ Unbroken' => session' = None
    BY <1>1, <1>3, Only DEF Clears, Unbroken
  <2> QED BY <1>1, <2>2, <2>5, <2>6, <2>7, AloneStep DEF new
<1> QED BY <1>2, <1>3

LEMMA AloneCreateSave ==
    ASSUME IInv, AloneInv, NEW p \in Procs, CreateSave(p) PROVE AloneInv'
<1> DEFINE new == At(proc[p], "token")
<1>1. /\ proc[p].pc = "createSave" /\ file' = proc[p].store
      /\ UNCHANGED <<session, overlapped, spent>>
      /\ End(p) \/ Step(p, new)
  BY DEF CreateSave, Goto, At
<1>2. /\ proc[p].store # None
      /\ new \in ProcState /\ new.pc = "token" /\ new.store = proc[p].store
  BY <1>1, Own, AtState DEF MemoryOK, WithStore
<1> HIDE DEF new
<1>3. Copies(new, file')
  BY <1>1, <1>2 DEF Copies, Keeps
<1>4. ~overlapped /\ Unbroken' => session' = None
  BY <1>1, Only DEF Clears, Unbroken, Copies
<1> QED BY <1>1, <1>2, <1>3, <1>4, AloneStep, IdleHolds DEF End

LEMMA AloneStart == ASSUME IInv, AloneInv, NEW p \in Procs, Start(p) PROVE AloneInv'
<1> DEFINE new(c) == [Idle EXCEPT !.pc = FirstStep[c], !.cmd = c]
<1> SUFFICES ASSUME ~overlapped' PROVE AloneInv'
  BY DEF AloneInv
<1>1. PICK c \in Commands : Step(p, new(c)) /\ (spent' = spent \/ Spend("command"))
  BY DEF Start
<1>2. ~overlapped /\ Running = {} /\ UNCHANGED <<file, session>>
  BY DEF Start
<1>3. FirstStep[c] \in {"begin", "open", "clear"} /\ (FirstStep[c] = "clear" => c = "lock")
  BY CommandsAre DEF FirstStep
<1>4. new(c).pc = FirstStep[c] /\ new(c).cmd = c
  BY <1>3, CommandsAre DEF Idle
<1> HIDE DEF new
<1>5. \A f : Copies(new(c), f) /\ ~HoldsFile(new(c))
  BY <1>3, <1>4 DEF Copies, HoldsFile
<1>6. proc'[p] = new(c) /\ \A q \in Procs \ {p} : proc'[q] = proc[q] /\ proc[q].pc = "idle"
  BY <1>1, <1>2 DEF Step, Running, IInv, TypeOK
<1>7. Unbroken' => Unbroken
  BY <1>1 DEF Unbroken, Spend, IInv, TypeOK, Budget
<1>8. Unbroken' => session' = None \/ (file' # None /\ session' = file'.key)
  BY <1>2, <1>7 DEF AloneInv, Fits, Clears, Running
<1>9. \A q \in Procs : Copies(proc'[q], file') /\ ~HoldsFile(proc'[q])
  BY <1>5, <1>6 DEF Copies, HoldsFile
<1>10. \A q, r \in Running' : q = r
  BY <1>6 DEF Running
<1> QED BY <1>8, <1>9, <1>10 DEF AloneInv, Fits

LEMMA Breaks ==
    ASSUME IInv, NEW b \in {"failure", "loss"}, Spend(b) PROVE ~Unbroken'
<1>1. spent \in [Budget -> Nat] /\ b \in Budget
  BY DEF IInv, TypeOK, Budget
<1>2. spent'[b] = spent[b] + 1 /\ spent[b] \in Nat
  BY <1>1 DEF Spend
<1> QED BY <1>2 DEF Unbroken

LEMMA AloneFail == ASSUME IInv, AloneInv, NEW p \in Procs, Fail(p) PROVE AloneInv'
<1>1. proc[p].pc # "idle" /\ End(p) /\ overlapped' = overlapped /\ ~Unbroken'
  BY Breaks DEF Fail
<1> QED BY <1>1, AloneStep, IdleHolds DEF End

LEMMA AloneElsewhere ==
    ASSUME IInv, AloneInv, Expire \/ Lose \/ UNCHANGED vars PROVE AloneInv'
<1>1. CASE Expire
  BY <1>1 DEF Expire, AloneInv, Running, Unbroken, Fits
<1>2. CASE Lose
  <2>1. file' = None /\ proc' = proc /\ overlapped' = overlapped /\ ~Unbroken'
    BY <1>2, Breaks DEF Lose
  <2>2. \A me : Copies(me, None)
    BY DEF Copies
  <2> QED BY <2>1, <2>2 DEF AloneInv, Running
<1>3. CASE UNCHANGED vars
  BY <1>3 DEF vars, AloneInv, Running, Unbroken, Fits
<1> QED BY <1>1, <1>2, <1>3

LEMMA AloneNext == IInv /\ AloneInv /\ [Next]_vars => AloneInv'
<1> SUFFICES ASSUME IInv, AloneInv, [Next]_vars PROVE AloneInv'
  OBVIOUS
<1>1. ASSUME NEW p \in Procs, Leave(p) PROVE AloneInv'
  BY <1>1, AloneEnd DEF Leave
<1>2. ASSUME NEW p \in Procs, Start(p) \/ Work(p) \/ Fail(p) PROVE AloneInv'
  BY <1>1, <1>2, AloneStart, AloneOpen, AloneEnters, AlonePassword, AloneBackup, AloneSession,
     AloneBegin, AloneCreate, AloneCreateSave, AloneFail DEF Work, Entering
<1> QED BY <1>2, AloneElsewhere DEF Next

(* The invariant behind both results: while commands run one at a time,     *)
(* memory and session agree with the store on disk, whatever fails.         *)
THEOREM AloneInvariance == Spec => [](IInv /\ AloneInv)
<1>1. IInv /\ AloneInv /\ [Next]_vars => (IInv /\ AloneInv)'
  BY NextInv, AloneNext
<1> QED BY <1>1, InitInv, InitAlone, PTL DEF Spec

(* Between commands that ran one at a time and were not disturbed, a       *)
(* session opens the store.                                                *)
THEOREM SessionsOpen == Spec => []SessionOpens
<1>1. AloneInv => SessionOpens
  BY DEF AloneInv, SessionOpens, Unbroken, Fits, Clears, AllIdle, Running
<1> QED BY <1>1, AloneInvariance, PTL

-----------------------------------------------------------------------------
(* A save, seen from the store on disk before it.                          *)
Takes(f, g) ==
    /\ g.payload.dataKey = f.payload.dataKey
    /\ \E e \in Entries : \A x \in Entries \ {e} : g.payload.entries[x] = f.payload.entries[x]
    /\ g.key # f.key => \E p \in Procs : proc[p].cmd = "passwd"

LEMMA AtMostOne ==
    ASSUME NEW e \in Entries, \A x \in Entries \ {e} : file'.payload.entries[x] = file.payload.entries[x]
    PROVE  Cardinality(ChangedEntries) <= 1
<1>1. ChangedEntries \in SUBSET {e}
  BY DEF ChangedEntries
<1>2. IsFiniteSet({e}) /\ Cardinality({e}) = 1
  BY FS_Singleton
<1> QED BY <1>1, <1>2, FS_Subset

LEMMA StepTakes ==
    ASSUME IInv, AloneInv, [Next]_vars, ~overlapped, file # None, file' # None, file' # file
    PROVE  Takes(file, file')
<1>1. PICK p \in Procs : Entering(p) \/ ChangePassword(p) \/ RecordBackup(p) \/ CreateSave(p)
  BY DEF Next, vars, Start, Work, Fail, Expire, Lose, LoadSession, TryKey, DropSession, Password,
         Leave, WriteBackup, Clear, Link, Begin, Create, Entering
<1>2. ASSUME HoldsFile(proc[p]) PROVE Keeps(proc[p].store, file)
  BY <1>2, Only DEF Copies, HoldsFile
<1>3. CASE Entering(p)
  <2>1. PICK e \in Entries, v \in Secrets \cup {None} : file' = WithEntry(proc[p].store, e, v)
    BY <1>3, Enters
  <2>2. proc[p].store \in Store /\ Keeps(proc[p].store, file)
    BY <1>2, <1>3, Enters DEF HoldsFile
  <2>3. /\ file'.key = file.key /\ file'.payload.dataKey = file.payload.dataKey
        /\ \A x \in Entries \ {e} : file'.payload.entries[x] = proc[p].store.payload.entries[x]
    BY <2>1, <2>2, EntryKeeps DEF Keeps
  <2>4. proc[p].store.payload.entries = file.payload.entries
    BY <2>2 DEF Keeps
  <2> QED BY <2>3, <2>4 DEF Takes
<1>4. CASE RecordBackup(p)
  BY <1>2, <1>4, EntriesAssumption DEF RecordBackup, HoldsFile, Takes, Keeps
<1>5. CASE ChangePassword(p)
  <2>1. PICK key : file' = [proc[p].store EXCEPT !.key = key]
    BY <1>5 DEF ChangePassword, Rekeyed
  <2>2. proc[p].store \in Store /\ Keeps(proc[p].store, file) /\ proc[p].cmd = "passwd"
    BY <1>2, <1>5, Own DEF ChangePassword, Opened, HoldsFile, MemoryOK, WithStore
  <2>3. file'.payload = proc[p].store.payload
    BY <2>1, <2>2 DEF Store
  <2> QED BY <2>2, <2>3, EntriesAssumption DEF Takes, Keeps
<1>6. CASE CreateSave(p)
  BY <1>6, Only DEF CreateSave, Copies
<1> QED BY <1>1, <1>3, <1>4, <1>5, <1>6

(* As long as commands run one at a time, a save takes nothing back: the   *)
(* data key stays, at most one entry changes, and only passwd changes the  *)
(* key, whatever fails and is lost.                                        *)
THEOREM SavesTakeNothingBack == Spec => SavesOneChange
<1>1. ASSUME IInv, AloneInv, [Next]_vars, ~overlapped, file # None, file' # None
      PROVE  /\ file'.payload.dataKey = file.payload.dataKey
             /\ Cardinality(ChangedEntries) <= 1
             /\ file'.key # file.key => \E p \in Procs : proc[p].cmd = "passwd"
  <2>1. CASE file' = file
    BY <2>1, AtMostOne, EntriesAssumption
  <2>2. CASE file' # file
    BY <1>1, <2>2, StepTakes, AtMostOne DEF Takes
  <2> QED BY <2>1, <2>2
<1> QED BY <1>1, AloneInvariance, PTL DEF Spec, SavesOneChange
==============================================================================
