-------------------------- MODULE ProfileSyncProofs --------------------------
(***************************************************************************)
(* Proofs about ProfileSync, for any number of processes, users, keys,     *)
(* values and secrets, any budgets, and any interleaving of the commands   *)
(* with each other, with foreign writers, failures and crashes: types, the *)
(* consistency of what was last synced, and that a push writes what it has *)
(* compared and nothing in the clear that was not.                         *)
(***************************************************************************)
EXTENDS ProfileSync, TLAPS

(* Where a process works on one user, and where it holds that user's       *)
(* profile.                                                                *)
WithUser == {"fetch", "build", "editLoad", "editList", "editReload", "editor",
             "checkList", "check", "apply", "saveFailed",
             "newExists", "newList", "newSave"}
WithPlan == {"editor", "checkList", "check", "apply", "saveFailed"}

(* The inductive invariant, for the memory of one process: every profile   *)
(* it holds is sound, and none that is to be pushed lacks the secret it    *)
(* needs.                                                                  *)
MemoryOK(me) ==
    /\ me \in ProcState
    /\ me.pc \in WithUser => me.cur \in Users
    /\ me.pc \in WithPlan => me.plan[me.cur] # None
    /\ \A u \in Users : me.plan[u] # None => Sound(me.plan[u])
    /\ me.pc # "editor" =>
         \A u \in Users : me.plan[u] # None /\ NeedsSecret(me.plan[u]) => me.known[u] # None

(* ... for the state processes share ...                                   *)
SharedOK ==
    /\ server \in [Users -> [Keys -> Stored \cup {None}]]
    /\ file \in [Users -> Profile \cup {None}]
    /\ secrets \in [Users -> Secrets \cup {None}]
    /\ nonce \in Nat
    /\ spent \in [Budget -> Nat]
    /\ BaseConsistent

WithFile == {u \in Users : file[u] # None}

(* ... and for both: a user still to be planned has a file.                *)
IInv ==
    /\ SharedOK
    /\ proc \in [Procs -> ProcState]
    /\ \A p \in Procs : MemoryOK(proc[p]) /\ proc[p].todo \subseteq WithFile

-----------------------------------------------------------------------------
(* Values and profiles.                                                    *)

LEMMA PlainStored == ASSUME NEW v \in Text PROVE PlainOf(v) \in Stored
  BY DEF PlainOf, Stored

LEMMA SealStored ==
    ASSUME NEW v \in Text, NEW s \in Secrets, NEW n \in Nat
    PROVE  Seal(v, s, n) \in Stored /\ IsEncrypted(Seal(v, s, n))
  BY NoneAssumption DEF Seal, Stored, IsEncrypted

LEMMA GotStored ==
    ASSUME NEW x \in Stored \cup {None}
    PROVE  Got(x) \in Stored
  BY PlainStored DEF Got, Text

LEMMA StateOfType == ASSUME NEW x \in Stored PROVE StateOf(x) \in KeyState
  BY DEF StateOf, KeyState, Stored, IsEncrypted

(* What pull writes is a profile whose states are sound.                   *)
LEMMA PulledSound ==
    ASSUME NEW got \in [Keys -> Stored \cup {None}]
    PROVE  Pulled(got) \in Profile /\ Sound(Pulled(got))
<1> DEFINE values == [k \in Keys |-> IF got[k] = None THEN None ELSE got[k].val]
           base   == [k \in Keys |-> IF got[k] = None THEN None ELSE StateOf(got[k])]
<1>1. values \in [Keys -> Text \cup {None}]
  BY DEF Stored
<1>2. base \in [Keys -> KeyState \cup {None}]
  BY StateOfType
<1>3. Pulled(got) = [values |-> values, base |-> base]
  BY DEF Pulled
<1>4. \A k \in Keys : base[k] # None => base[k] = StateOf(base[k].remote)
  BY DEF StateOf
<1> HIDE DEF values, base
<1>5. Pulled(got) \in Profile
  BY <1>1, <1>2, <1>3 DEF Profile
<1>6. Sound(Pulled(got))
  BY <1>3, <1>4 DEF Sound
<1> QED BY <1>5, <1>6

LEMMA NewSound == NewProfile \in Profile /\ Sound(NewProfile)
  BY DEF NewProfile, Profile, Sound

(* What push records of a change is the state pull would make of the       *)
(* stored value.                                                           *)
LEMMA SyncedIsState ==
    ASSUME NEW stored \in Stored
    PROVE  Synced(stored.val, stored, IsEncrypted(stored)) = StateOf(stored)
  BY DEF Synced, StateOf

LEMMA RecordSound ==
    ASSUME NEW prof \in Profile, Sound(prof), NEW k \in Keys,
           NEW state \in KeyState \cup {None},
           state # None => state = StateOf(state.remote)
    PROVE  LET new == [prof EXCEPT !.base[k] = state]
           IN  new \in Profile /\ Sound(new)
<1> DEFINE new == [prof EXCEPT !.base[k] = state]
<1>1. new \in Profile
  BY DEF Profile
<1>2. new.base = [prof.base EXCEPT ![k] = state]
  BY DEF Profile
<1>3. prof.base \in [Keys -> KeyState \cup {None}]
  BY DEF Profile
<1> HIDE DEF new
<1>4. Sound(new)
  BY <1>2, <1>3 DEF Sound
<1> QED BY <1>1, <1>4 DEF new

-----------------------------------------------------------------------------
(* The memory of a process.                                                *)

LEMMA IdleOK == MemoryOK(Idle) /\ Idle.todo = {} /\ Idle.pc = "idle"
<1>1. Idle \in ProcState
  BY DEF Idle, ProcState, Commands
<1> QED BY <1>1 DEF MemoryOK, WithUser, WithPlan, Idle

(* A step of one process that keeps the shared state in order, deletes no  *)
(* file and leaves the memory of that process in order.                    *)
LEMMA StepKeeps ==
    ASSUME IInv, NEW p \in Procs, NEW me, Step(p, me), MemoryOK(me),
           SharedOK', WithFile \subseteq WithFile', me.todo \subseteq WithFile'
    PROVE  IInv'
<1>1. proc' = [proc EXCEPT ![p] = me]
  BY DEF Step
<1>2. me \in ProcState
  BY DEF MemoryOK
<1>3. proc' \in [Procs -> ProcState]
  BY <1>1, <1>2 DEF IInv
<1>4. ASSUME NEW q \in Procs PROVE MemoryOK(proc'[q]) /\ proc'[q].todo \subseteq WithFile'
  BY <1>1 DEF IInv
<1>5. \A q \in Procs : MemoryOK(proc[q])' <=> MemoryOK(proc'[q])
  BY DEF MemoryOK, Sound, NeedsSecret, Added, Modified, StateOf, IsEncrypted
<1> QED BY <1>3, <1>4, <1>5 DEF IInv

LEMMA EndKeeps ==
    ASSUME IInv, NEW p \in Procs, End(p), SharedOK', WithFile \subseteq WithFile'
    PROVE  IInv'
  BY IdleOK, StepKeeps DEF End

(* A step that leaves the shared state alone.                              *)
LEMMA SharedUnchanged ==
    ASSUME IInv, UNCHANGED <<server, file, secrets, nonce>>, spent' \in [Budget -> Nat]
    PROVE  SharedOK' /\ WithFile' = WithFile
  BY DEF IInv, SharedOK, BaseConsistent, WithFile, Sound, StateOf, IsEncrypted

LEMMA SpendType ==
    ASSUME IInv, NEW b \in Budget, Spend(b)
    PROVE  spent' \in [Budget -> Nat]
  BY DEF IInv, SharedOK, Spend

LEMMA OwnMemory ==
    ASSUME IInv, NEW p \in Procs
    PROVE  MemoryOK(proc[p]) /\ proc[p] \in ProcState /\ proc[p].todo \subseteq WithFile
  BY DEF IInv

(* The memory stays in order when the profiles it holds and the secrets it *)
(* knows stay as they are.                                                 *)
LEMMA MemoryFrame ==
    ASSUME NEW me, MemoryOK(me), NEW new \in ProcState,
           me.pc # "editor", new.plan = me.plan, new.known = me.known,
           new.pc \in WithUser => new.cur \in Users,
           new.pc \in WithPlan => new.plan[new.cur] # None
    PROVE  MemoryOK(new)
  BY DEF MemoryOK

-----------------------------------------------------------------------------
(* start and pull                                                          *)

LEMMA StartKeeps ==
    ASSUME IInv, NEW p \in Procs, Start(p)
    PROVE  IInv'
<1> DEFINE new(c, only, f) == [Idle EXCEPT !.pc = FirstStep[c], !.cmd = c, !.force = f,
                                           !.cur = only, !.known = secrets]
<1>1. PICK c \in Commands, only \in Users \cup {None}, f \in BOOLEAN :
          (c \in {"edit", "new"} => only # None) /\ Step(p, new(c, only, f))
  BY DEF Start
<1>2. SharedOK' /\ WithFile' = WithFile
  BY SharedUnchanged, SpendType DEF Start, Budget
<1>3. FirstStep[c] \in {"list", "select", "editLoad", "newExists"}
      /\ (FirstStep[c] \in {"editLoad", "newExists"} => only \in Users)
  BY <1>1 DEF FirstStep, Commands
<1>4. Idle \in ProcState /\ Idle.plan = [u \in Users |-> None] /\ Idle.todo = {}
  BY IdleOK DEF MemoryOK, Idle
<1>5. secrets \in [Users -> Secrets \cup {None}]
  BY DEF IInv, SharedOK
<1> HIDE DEF Idle
<1>6. MemoryOK(new(c, only, f)) /\ new(c, only, f).todo = {}
  <2>1. new(c, only, f) \in ProcState
    BY <1>3, <1>4, <1>5 DEF ProcState
  <2>2. /\ new(c, only, f).pc = FirstStep[c] /\ new(c, only, f).cur = only
        /\ new(c, only, f).plan = Idle.plan /\ new(c, only, f).todo = {}
    BY <1>4 DEF ProcState
  <2> HIDE DEF new
  <2> QED BY <1>3, <1>4, <2>1, <2>2 DEF MemoryOK, WithUser, WithPlan
<1> HIDE DEF new
<1> QED BY <1>1, <1>2, <1>6, StepKeeps

LEMMA PullListKeeps ==
    ASSUME IInv, NEW p \in Procs, PullList(p)
    PROVE  IInv'
<1> DEFINE me     == proc[p]
           listed == [u \in Users |-> IF me.cur \in {None, u} THEN OnServer(u) ELSE {}]
           new    == [me EXCEPT !.pc = "next", !.listed = listed, !.cur = None]
<1>1. me.pc = "list" /\ (End(p) \/ Step(p, new))
  BY DEF PullList
<1>2. SharedOK' /\ WithFile' = WithFile
  BY SharedUnchanged DEF PullList, IInv, SharedOK
<1>3. MemoryOK(me) /\ me \in ProcState /\ me.todo \subseteq WithFile
  BY OwnMemory
<1>4. listed \in [Users -> SUBSET Keys]
  BY DEF OnServer
<1> HIDE DEF me, listed
<1>5. new \in ProcState /\ new.todo = me.todo /\ new.pc = "next"
      /\ new.plan = me.plan /\ new.known = me.known
  BY <1>3, <1>4 DEF ProcState
<1> HIDE DEF new
<1>6. MemoryOK(new)
  BY <1>1, <1>3, <1>5, MemoryFrame DEF WithUser, WithPlan
<1> QED BY <1>1, <1>2, <1>3, <1>5, <1>6, StepKeeps, EndKeeps

LEMMA PullNextKeeps ==
    ASSUME IInv, NEW p \in Procs, PullNext(p)
    PROVE  IInv'
<1> DEFINE me       == proc[p]
           skip(u)  == [me EXCEPT !.listed[u] = {}]
           fetch(u) == [me EXCEPT !.pc = "fetch", !.cur = u,
                                  !.keys = me.listed[u], !.listed[u] = {}]
<1>1. me.pc = "next"
  BY DEF PullNext
<1>2. PICK u \in Users : Step(p, skip(u)) \/ Step(p, fetch(u))
  BY DEF PullNext
<1>3. SharedOK' /\ WithFile' = WithFile
  BY SharedUnchanged DEF PullNext, IInv, SharedOK
<1>4. MemoryOK(me) /\ me \in ProcState /\ me.todo \subseteq WithFile
  BY OwnMemory
<1> HIDE DEF me
<1>5. skip(u) \in ProcState /\ skip(u).todo = me.todo /\ skip(u).pc = "next"
      /\ skip(u).plan = me.plan /\ skip(u).known = me.known
  BY <1>1, <1>4 DEF ProcState
<1>6. fetch(u) \in ProcState /\ fetch(u).todo = me.todo /\ fetch(u).pc = "fetch"
      /\ fetch(u).plan = me.plan /\ fetch(u).known = me.known /\ fetch(u).cur = u
  BY <1>4 DEF ProcState
<1> HIDE DEF skip, fetch
<1>7. MemoryOK(skip(u)) /\ MemoryOK(fetch(u))
  BY <1>1, <1>4, <1>5, <1>6, MemoryFrame DEF WithUser, WithPlan
<1> QED BY <1>2, <1>3, <1>4, <1>5, <1>6, <1>7, StepKeeps

LEMMA PullEndsKeeps ==
    ASSUME IInv, NEW p \in Procs, PullEnds(p)
    PROVE  IInv'
<1>1. SharedOK' /\ WithFile' = WithFile
  BY SharedUnchanged DEF PullEnds, IInv, SharedOK
<1> QED BY <1>1, EndKeeps DEF PullEnds

LEMMA FetchKeyKeeps ==
    ASSUME IInv, NEW p \in Procs, FetchKey(p)
    PROVE  IInv'
<1> DEFINE me     == proc[p]
           new(k) == [me EXCEPT !.keys = @ \ {k},
                                !.got[k] = Got(server[me.cur][k]),
                                !.pc = IF me.keys = {k} THEN "build" ELSE "fetch"]
<1>1. me.pc = "fetch" /\ \E k \in me.keys : Step(p, new(k))
  BY DEF FetchKey
<1>2. SharedOK' /\ WithFile' = WithFile
  BY SharedUnchanged DEF FetchKey, IInv, SharedOK
<1>3. MemoryOK(me) /\ me \in ProcState /\ me.todo \subseteq WithFile
  BY OwnMemory
<1> HIDE DEF me
<1>4. me.cur \in Users /\ me.keys \subseteq Keys
  BY <1>1, <1>3 DEF MemoryOK, WithUser, ProcState
<1>5. PICK k \in Keys : Step(p, new(k))
  BY <1>1, <1>4
<1>6. Got(server[me.cur][k]) \in Stored
  BY <1>4, GotStored DEF IInv, SharedOK
<1>7. new(k) \in ProcState /\ new(k).todo = me.todo /\ new(k).pc \in {"fetch", "build"}
      /\ new(k).plan = me.plan /\ new(k).known = me.known /\ new(k).cur = me.cur
  BY <1>3, <1>6, Zenon DEF ProcState
<1> HIDE DEF new
<1>8. MemoryOK(new(k))
  BY <1>1, <1>3, <1>4, <1>7, MemoryFrame DEF WithUser, WithPlan
<1> QED BY <1>2, <1>3, <1>5, <1>7, <1>8, StepKeeps

LEMMA SkipUserKeeps ==
    ASSUME IInv, NEW p \in Procs, SkipUser(p), proc[p].pc = "build",
           SharedOK', WithFile \subseteq WithFile'
    PROVE  IInv'
<1> DEFINE me  == proc[p]
           new == [me EXCEPT !.pc = "next", !.cur = None, !.got = Idle.got]
<1>1. End(p) \/ Step(p, new)
  BY DEF SkipUser
<1>2. MemoryOK(me) /\ me \in ProcState /\ me.todo \subseteq WithFile
  BY OwnMemory
<1>3. Idle.got \in [Keys -> Stored \cup {None}]
  BY DEF Idle
<1>4. me.pc = "build"
  OBVIOUS
<1> HIDE DEF me
<1>5. new \in ProcState /\ new.todo = me.todo /\ new.pc = "next"
      /\ new.plan = me.plan /\ new.known = me.known
  BY <1>2, <1>3 DEF ProcState
<1> HIDE DEF new
<1>6. MemoryOK(new)
  BY <1>2, <1>4, <1>5, MemoryFrame DEF WithUser, WithPlan
<1> QED BY <1>1, <1>2, <1>5, <1>6, StepKeeps, EndKeeps

LEMMA PullSkipsKeeps ==
    ASSUME IInv, NEW p \in Procs, PullSkips(p)
    PROVE  IInv'
<1>1. SharedOK' /\ WithFile' = WithFile
  BY SharedUnchanged DEF PullSkips, IInv, SharedOK
<1> QED BY <1>1, SkipUserKeeps DEF PullSkips

(* A profile that is sound is saved.                                       *)
LEMMA FileKeeps ==
    ASSUME IInv, NEW u \in Users, NEW prof \in Profile, Sound(prof),
           file' = [file EXCEPT ![u] = prof],
           UNCHANGED <<server, secrets, nonce>>, spent' \in [Budget -> Nat]
    PROVE  SharedOK' /\ WithFile \subseteq WithFile' /\ u \in WithFile'
<1>1. file' \in [Users -> Profile \cup {None}]
  BY DEF IInv, SharedOK
<1>2. prof # None
  BY NoneAssumption
<1>3. \A w \in Users : file'[w] = IF w = u THEN prof ELSE file[w]
  BY DEF IInv, SharedOK
<1>4. \A w \in Users : file'[w] # None => Sound(file'[w])
  BY <1>3 DEF IInv, SharedOK, BaseConsistent
<1>5. BaseConsistent'
  BY <1>4 DEF BaseConsistent, Sound, StateOf, IsEncrypted
<1>6. WithFile \subseteq WithFile' /\ u \in WithFile'
  BY <1>2, <1>3 DEF WithFile
<1> QED BY <1>1, <1>5, <1>6 DEF IInv, SharedOK

(* Secrets are saved.                                                      *)
LEMMA SecretsKeep ==
    ASSUME IInv, secrets' \in [Users -> Secrets \cup {None}],
           UNCHANGED <<server, file, nonce, spent>>
    PROVE  SharedOK' /\ WithFile' = WithFile
  BY DEF IInv, SharedOK, BaseConsistent, WithFile, Sound, StateOf, IsEncrypted

(* A secret that was not known before is now.                              *)
LEMMA KnownMemory ==
    ASSUME NEW me, MemoryOK(me), me.pc # "editor", me.cur \in Users,
           NEW s \in Secrets, NEW new \in ProcState,
           new.plan = me.plan, new.known = [me.known EXCEPT ![me.cur] = s],
           new.cur = me.cur, new.pc \notin WithPlan
    PROVE  MemoryOK(new)
<1>1. me.known \in [Users -> Secrets \cup {None}]
  BY DEF MemoryOK, ProcState
<1>2. \A u \in Users : me.known[u] # None => new.known[u] # None
  BY <1>1, NoneAssumption
<1> QED BY <1>2 DEF MemoryOK

LEMMA AskSecretKeeps ==
    ASSUME IInv, NEW p \in Procs, AskSecret(p)
    PROVE  IInv'
<1> DEFINE me       == proc[p]
           known(s) == [me.known EXCEPT ![me.cur] = s]
           new(s)   == [me EXCEPT !.known = known(s)]
<1>1. me.pc = "build"
  BY DEF AskSecret
<1>2. PICK k \in Encrypted(me.got) :
          secrets' = known(me.got[k].enc) /\ Step(p, new(me.got[k].enc))
  BY DEF AskSecret
<1>3. MemoryOK(me) /\ me \in ProcState /\ me.todo \subseteq WithFile
  BY OwnMemory
<1>4. UNCHANGED <<server, file, nonce, spent>>
  BY DEF AskSecret
<1> HIDE DEF me
<1>5. me.cur \in Users
  BY <1>1, <1>3 DEF MemoryOK, WithUser
<1>6. me.got[k] \in Stored /\ me.got[k].enc # None
  BY <1>2, <1>3 DEF Encrypted, IsEncrypted, ProcState
<1>7. PICK s \in Secrets : secrets' = known(s) /\ Step(p, new(s))
  BY <1>2, <1>6 DEF Stored
<1>8. known(s) \in [Users -> Secrets \cup {None}]
  BY <1>3, <1>5 DEF ProcState
<1>9. SharedOK' /\ WithFile' = WithFile
  BY <1>4, <1>7, <1>8, SecretsKeep
<1>10. new(s) \in ProcState /\ new(s).todo = me.todo /\ new(s).pc = "build"
       /\ new(s).plan = me.plan /\ new(s).known = known(s) /\ new(s).cur = me.cur
  BY <1>1, <1>3, <1>8 DEF ProcState
<1> HIDE DEF new
<1>11. MemoryOK(new(s))
  BY <1>1, <1>3, <1>5, <1>10, KnownMemory DEF WithPlan
<1> QED BY <1>3, <1>7, <1>9, <1>10, <1>11, StepKeeps

LEMMA PullSaveKeeps ==
    ASSUME IInv, NEW p \in Procs, PullSave(p)
    PROVE  IInv'
<1> DEFINE me  == proc[p]
           new == [me EXCEPT !.pc = "editReload", !.got = Idle.got]
<1>1. me.pc = "build" /\ (SkipUser(p) \/ Step(p, new))
  BY DEF PullSave
<1>2. file' = [file EXCEPT ![me.cur] = Pulled(me.got)]
      /\ UNCHANGED <<server, secrets, nonce, spent>>
  BY DEF PullSave
<1>3. MemoryOK(me) /\ me \in ProcState /\ me.todo \subseteq WithFile
  BY OwnMemory
<1>4. SkipUser(p) => (SharedOK' /\ WithFile \subseteq WithFile' => IInv')
  BY <1>1, SkipUserKeeps
<1>5. Idle.got \in [Keys -> Stored \cup {None}]
  BY DEF Idle
<1> HIDE DEF me
<1>6. me.cur \in Users /\ me.got \in [Keys -> Stored \cup {None}]
  BY <1>1, <1>3 DEF MemoryOK, WithUser, ProcState
<1>7. Pulled(me.got) \in Profile /\ Sound(Pulled(me.got))
  BY <1>6, PulledSound
<1>8. SharedOK' /\ WithFile \subseteq WithFile'
  BY <1>2, <1>6, <1>7, FileKeeps DEF IInv, SharedOK
<1>9. new \in ProcState /\ new.todo = me.todo /\ new.pc = "editReload"
      /\ new.plan = me.plan /\ new.known = me.known /\ new.cur = me.cur
  BY <1>3, <1>5 DEF ProcState
<1> HIDE DEF new
<1>10. MemoryOK(new)
  BY <1>1, <1>3, <1>6, <1>9, MemoryFrame DEF WithPlan
<1> QED BY <1>1, <1>3, <1>4, <1>8, <1>9, <1>10, StepKeeps

-----------------------------------------------------------------------------
(* edit                                                                    *)

(* A profile is loaded from its file.                                      *)
LEMMA LoadMemory ==
    ASSUME NEW me, MemoryOK(me), me.pc # "editor",
           NEW u \in Users, NEW prof \in Profile, Sound(prof),
           NEW new \in ProcState, new.plan = [me.plan EXCEPT ![u] = prof],
           new.known = me.known, new.cur = u,
           new.pc = "editor" \/ ~NeedsSecret(prof) \/ me.known[u] # None
    PROVE  MemoryOK(new)
<1>1. me.plan \in [Users -> Profile \cup {None}]
  BY DEF MemoryOK, ProcState
<1>2. new.plan[u] = prof /\ prof # None
  BY <1>1, NoneAssumption
<1>3. \A w \in Users : w # u => new.plan[w] = me.plan[w]
  BY <1>1
<1> QED BY <1>2, <1>3 DEF MemoryOK

LEMMA FileType ==
    ASSUME IInv, NEW u \in Users, file[u] # None
    PROVE  file[u] \in Profile /\ Sound(file[u])
  BY DEF IInv, SharedOK, BaseConsistent

(* The step that opens the editor on a file.                               *)
LEMMA OpenEditorKeeps ==
    ASSUME IInv, NEW p \in Procs, proc[p].pc \in {"editLoad", "editReload"},
           file[proc[p].cur] # None,
           Step(p, [proc[p] EXCEPT !.pc = "editor", !.plan[proc[p].cur] = file[proc[p].cur]]),
           UNCHANGED <<server, file, secrets, nonce, spent>>
    PROVE  IInv'
<1> DEFINE me   == proc[p]
           prof == file[me.cur]
           new  == [me EXCEPT !.pc = "editor", !.plan[me.cur] = prof]
<1>1. SharedOK' /\ WithFile' = WithFile
  BY SharedUnchanged DEF IInv, SharedOK
<1>2. MemoryOK(me) /\ me \in ProcState /\ me.todo \subseteq WithFile
  BY OwnMemory
<1>3. me.cur \in Users
  BY <1>2 DEF MemoryOK, WithUser
<1>4. prof \in Profile /\ Sound(prof)
  BY <1>3, FileType
<1>5. me.pc # "editor" /\ Step(p, new)
  OBVIOUS
<1> HIDE DEF me, prof
<1>6. new \in ProcState /\ new.todo = me.todo /\ new.pc = "editor" /\ new.known = me.known
      /\ new.cur = me.cur /\ new.plan = [me.plan EXCEPT ![me.cur] = prof]
  BY <1>2, <1>3, <1>4 DEF ProcState
<1> HIDE DEF new
<1>7. MemoryOK(new)
  BY <1>2, <1>3, <1>4, <1>5, <1>6, LoadMemory
<1> QED BY <1>1, <1>2, <1>5, <1>6, <1>7, StepKeeps

LEMMA EditLoadKeeps ==
    ASSUME IInv, NEW p \in Procs, EditLoad(p)
    PROVE  IInv'
<1> DEFINE me  == proc[p]
           new == [me EXCEPT !.pc = "editList"]
<1>1. CASE file[me.cur] # None /\ Changed(file[me.cur]) # {}
  BY <1>1, OpenEditorKeeps DEF EditLoad
<1>2. CASE ~(file[me.cur] # None /\ Changed(file[me.cur]) # {})
  <2>1. me.pc = "editLoad" /\ Step(p, new)
    BY <1>2 DEF EditLoad
  <2>2. SharedOK' /\ WithFile' = WithFile
    BY SharedUnchanged DEF EditLoad, IInv, SharedOK
  <2>3. MemoryOK(me) /\ me \in ProcState /\ me.todo \subseteq WithFile
    BY OwnMemory
  <2> HIDE DEF me
  <2>4. new \in ProcState /\ new.todo = me.todo /\ new.pc = "editList"
        /\ new.plan = me.plan /\ new.known = me.known /\ new.cur = me.cur
    BY <2>3 DEF ProcState
  <2>5. me.cur \in Users
    BY <2>1, <2>3 DEF MemoryOK, WithUser
  <2> HIDE DEF new
  <2>6. MemoryOK(new)
    BY <2>1, <2>3, <2>4, <2>5, MemoryFrame DEF WithPlan
  <2> QED BY <2>1, <2>2, <2>3, <2>4, <2>6, StepKeeps
<1> QED BY <1>1, <1>2

LEMMA EditListKeeps ==
    ASSUME IInv, NEW p \in Procs, EditList(p)
    PROVE  IInv'
<1> DEFINE me     == proc[p]
           there  == OnServer(me.cur)
           fetch  == [me EXCEPT !.pc = "fetch", !.keys = there]
           reload == [me EXCEPT !.pc = "editReload"]
<1>1. me.pc = "editList" /\ (Step(p, fetch) \/ Step(p, reload))
  BY DEF EditList
<1>2. SharedOK' /\ WithFile' = WithFile
  BY SharedUnchanged DEF EditList, IInv, SharedOK
<1>3. MemoryOK(me) /\ me \in ProcState /\ me.todo \subseteq WithFile
  BY OwnMemory
<1>4. there \subseteq Keys
  BY DEF OnServer
<1> HIDE DEF me, there
<1>5. me.cur \in Users
  BY <1>1, <1>3 DEF MemoryOK, WithUser
<1>6. fetch \in ProcState /\ fetch.todo = me.todo /\ fetch.pc = "fetch"
      /\ fetch.plan = me.plan /\ fetch.known = me.known /\ fetch.cur = me.cur
  BY <1>3, <1>4 DEF ProcState
<1>7. reload \in ProcState /\ reload.todo = me.todo /\ reload.pc = "editReload"
      /\ reload.plan = me.plan /\ reload.known = me.known /\ reload.cur = me.cur
  BY <1>3 DEF ProcState
<1> HIDE DEF fetch, reload
<1>8. MemoryOK(fetch) /\ MemoryOK(reload)
  BY <1>1, <1>3, <1>5, <1>6, <1>7, MemoryFrame DEF WithPlan
<1> QED BY <1>1, <1>2, <1>3, <1>6, <1>7, <1>8, StepKeeps

LEMMA EditReloadKeeps ==
    ASSUME IInv, NEW p \in Procs, EditReload(p)
    PROVE  IInv'
<1>1. SharedOK' /\ WithFile' = WithFile
  BY SharedUnchanged DEF EditReload, IInv, SharedOK
<1>2. CASE file[proc[p].cur] = None
  BY <1>1, <1>2, EndKeeps DEF EditReload
<1>3. CASE file[proc[p].cur] # None
  BY <1>3, OpenEditorKeeps DEF EditReload
<1> QED BY <1>2, <1>3

LEMMA EditSaveKeeps ==
    ASSUME IInv, NEW p \in Procs, EditSave(p)
    PROVE  IInv'
<1> DEFINE me      == proc[p]
           prof(v) == [me.plan[me.cur] EXCEPT !.values = v]
           new     == [me EXCEPT !.pc = "plan", !.todo = {me.cur},
                                 !.cur = None, !.plan = Idle.plan]
<1>1. me.pc = "editor"
  BY DEF EditSave
<1>2. PICK v \in [Keys -> Values \cup {None}] :
          /\ file' = [file EXCEPT ![me.cur] = prof(v)]
          /\ Step(p, new) \/ End(p)
  BY DEF EditSave
<1>3. MemoryOK(me) /\ me \in ProcState /\ me.todo \subseteq WithFile
  BY OwnMemory
<1>4. UNCHANGED <<server, secrets, nonce>> /\ spent' \in [Budget -> Nat]
  BY SpendType DEF EditSave, Budget
<1>5. Idle.plan = [u \in Users |-> None]
  BY DEF Idle
<1> HIDE DEF me
<1>6. me.cur \in Users /\ me.plan[me.cur] # None
  BY <1>1, <1>3 DEF MemoryOK, WithUser, WithPlan
<1>7. me.plan[me.cur] \in Profile /\ Sound(me.plan[me.cur])
  BY <1>3, <1>6 DEF MemoryOK, ProcState
<1>8. prof(v) \in Profile /\ prof(v).base = me.plan[me.cur].base
  BY <1>7 DEF Profile, Text
<1>9. Sound(prof(v))
  BY <1>7, <1>8 DEF Sound
<1> HIDE DEF prof
<1>10. SharedOK' /\ WithFile \subseteq WithFile' /\ me.cur \in WithFile'
  BY <1>2, <1>4, <1>6, <1>8, <1>9, FileKeeps
<1>11. new \in ProcState /\ new.todo = {me.cur} /\ new.pc = "plan" /\ new.plan = [u \in Users |-> None]
  BY <1>3, <1>5, <1>6 DEF ProcState
<1> HIDE DEF new
<1>12. MemoryOK(new)
  BY <1>11 DEF MemoryOK, WithUser, WithPlan
<1> QED BY <1>2, <1>10, <1>11, <1>12, StepKeeps, EndKeeps

LEMMA EditQuitsKeeps ==
    ASSUME IInv, NEW p \in Procs, EditQuits(p)
    PROVE  IInv'
<1>1. SharedOK' /\ WithFile' = WithFile
  BY SharedUnchanged DEF EditQuits, IInv, SharedOK
<1> QED BY <1>1, EndKeeps DEF EditQuits

-----------------------------------------------------------------------------
(* push: planning                                                          *)

LEMMA PushSelectKeeps ==
    ASSUME IInv, NEW p \in Procs, PushSelect(p)
    PROVE  IInv'
<1> DEFINE me    == proc[p]
           local == {u \in Users : file[u] # None /\ me.cur \in {None, u}}
           new   == [me EXCEPT !.pc = "plan", !.todo = local, !.cur = None]
<1>1. me.pc = "select" /\ (End(p) \/ Step(p, new))
  BY DEF PushSelect
<1>2. SharedOK' /\ WithFile' = WithFile
  BY SharedUnchanged DEF PushSelect, IInv, SharedOK
<1>3. MemoryOK(me) /\ me \in ProcState /\ me.todo \subseteq WithFile
  BY OwnMemory
<1>4. local \subseteq WithFile /\ local \subseteq Users
  BY DEF WithFile
<1> HIDE DEF me, local
<1>5. new \in ProcState /\ new.todo = local /\ new.pc = "plan"
      /\ new.plan = me.plan /\ new.known = me.known
  BY <1>3, <1>4 DEF ProcState
<1> HIDE DEF new
<1>6. MemoryOK(new)
  BY <1>1, <1>3, <1>5, MemoryFrame DEF WithUser, WithPlan
<1> QED BY <1>1, <1>2, <1>4, <1>5, <1>6, StepKeeps, EndKeeps

LEMMA PushLoadKeeps ==
    ASSUME IInv, NEW p \in Procs, PushLoad(p)
    PROVE  IInv'
<1> DEFINE me      == proc[p]
           skip(u) == [me EXCEPT !.todo = @ \ {u}]
           load(u) == [me EXCEPT !.pc = "checkList", !.todo = @ \ {u},
                                 !.cur = u, !.plan[u] = file[u]]
<1>1. me.pc = "plan"
  BY DEF PushLoad
<1>2. PICK u \in me.todo :
          \/ Step(p, skip(u))
          \/ End(p)
          \/ (~NeedsSecret(file[u]) \/ me.known[u] # None) /\ Step(p, load(u))
  BY DEF PushLoad
<1>3. SharedOK' /\ WithFile' = WithFile
  BY SharedUnchanged DEF PushLoad, IInv, SharedOK
<1>4. MemoryOK(me) /\ me \in ProcState /\ me.todo \subseteq WithFile
  BY OwnMemory
<1> HIDE DEF me
<1>5. u \in Users /\ file[u] # None
  BY <1>2, <1>4 DEF WithFile
<1>6. file[u] \in Profile /\ Sound(file[u])
  BY <1>5, FileType
<1>7. skip(u) \in ProcState /\ skip(u).todo = me.todo \ {u} /\ skip(u).pc = "plan"
      /\ skip(u).plan = me.plan /\ skip(u).known = me.known
  BY <1>1, <1>4 DEF ProcState
<1>8. load(u) \in ProcState /\ load(u).todo = me.todo \ {u} /\ load(u).known = me.known
      /\ load(u).cur = u /\ load(u).plan = [me.plan EXCEPT ![u] = file[u]]
  BY <1>4, <1>5, <1>6 DEF ProcState
<1> HIDE DEF skip, load
<1>9. MemoryOK(skip(u))
  BY <1>1, <1>4, <1>7, MemoryFrame DEF WithUser, WithPlan
<1>10. ~NeedsSecret(file[u]) \/ me.known[u] # None => MemoryOK(load(u))
  BY <1>1, <1>4, <1>5, <1>6, <1>8, LoadMemory
<1> QED BY <1>2, <1>3, <1>4, <1>7, <1>8, <1>9, <1>10, StepKeeps, EndKeeps

LEMMA PushCheckListKeeps ==
    ASSUME IInv, NEW p \in Procs, PushCheckList(p)
    PROVE  IInv'
<1> DEFINE me    == proc[p]
           u     == me.cur
           prof  == me.plan[u]
           there == OnServer(u)
           keys  == (Modified(prof) \cup Deleted(prof)) \cap there
           conf  == ListConflicts(prof, there) # {}
           done  == {u} \X (Changed(prof) \ keys)
           new   == [me EXCEPT !.keys = keys,
                               !.pc = IF keys = {} THEN "plan" ELSE "check",
                               !.conflict = @ \/ conf,
                               !.touched = @ \ done]
<1>1. me.pc = "checkList" /\ Step(p, new)
  BY DEF PushCheckList
<1>2. SharedOK' /\ WithFile' = WithFile
  BY SharedUnchanged DEF PushCheckList, IInv, SharedOK
<1>3. MemoryOK(me) /\ me \in ProcState /\ me.todo \subseteq WithFile
  BY OwnMemory
<1>4. keys \subseteq Keys /\ conf \in BOOLEAN
  BY DEF OnServer
<1> HIDE DEF me, keys, conf, done
<1>5. me.cur \in Users /\ me.plan[me.cur] # None
  BY <1>1, <1>3 DEF MemoryOK, WithUser, WithPlan
<1>6. new \in ProcState /\ new.todo = me.todo /\ new.pc \in {"plan", "check"}
      /\ new.plan = me.plan /\ new.known = me.known /\ new.cur = me.cur
  BY <1>3, <1>4 DEF ProcState
<1> HIDE DEF new
<1>7. MemoryOK(new)
  BY <1>1, <1>3, <1>5, <1>6, MemoryFrame
<1> QED BY <1>1, <1>2, <1>3, <1>6, <1>7, StepKeeps

LEMMA PushCheckKeyKeeps ==
    ASSUME IInv, NEW p \in Procs, PushCheckKey(p)
    PROVE  IInv'
<1> DEFINE me      == proc[p]
           conf(k) == RemoteChanged(me.plan[me.cur], me.cur, k)
           new(k)  == [me EXCEPT !.keys = @ \ {k},
                                 !.pc = IF me.keys = {k} THEN "plan" ELSE "check",
                                 !.conflict = @ \/ conf(k),
                                 !.touched = @ \ {<<me.cur, k>>}]
<1>1. me.pc = "check"
  BY DEF PushCheckKey
<1>2. PICK k : Step(p, new(k))
  BY DEF PushCheckKey
<1>3. SharedOK' /\ WithFile' = WithFile
  BY SharedUnchanged DEF PushCheckKey, IInv, SharedOK
<1>4. MemoryOK(me) /\ me \in ProcState /\ me.todo \subseteq WithFile
  BY OwnMemory
<1>5. conf(k) \in BOOLEAN
  BY DEF RemoteChanged
<1> HIDE DEF me, conf
<1>6. me.cur \in Users /\ me.plan[me.cur] # None
  BY <1>1, <1>4 DEF MemoryOK, WithUser, WithPlan
<1>7. new(k) \in ProcState /\ new(k).todo = me.todo /\ new(k).pc \in {"plan", "check"}
      /\ new(k).plan = me.plan /\ new(k).known = me.known /\ new(k).cur = me.cur
  BY <1>4, <1>5 DEF ProcState
<1> HIDE DEF new
<1>8. MemoryOK(new(k))
  BY <1>1, <1>4, <1>6, <1>7, MemoryFrame
<1> QED BY <1>2, <1>3, <1>4, <1>7, <1>8, StepKeeps

LEMMA PushStopsKeeps ==
    ASSUME IInv, NEW p \in Procs, PushStops(p)
    PROVE  IInv'
<1>1. SharedOK' /\ WithFile' = WithFile
  BY SharedUnchanged DEF PushStops, IInv, SharedOK
<1> QED BY <1>1, EndKeeps DEF PushStops

LEMMA PushConfirmedKeeps ==
    ASSUME IInv, NEW p \in Procs, PushConfirmed(p)
    PROVE  IInv'
<1> DEFINE me     == proc[p]
           new(u) == [me EXCEPT !.pc = "apply", !.cur = u]
<1>1. me.pc = "plan"
  BY DEF PushConfirmed
<1>2. PICK u \in Users : me.plan[u] # None /\ Step(p, new(u))
  BY DEF PushConfirmed, Planned
<1>3. SharedOK' /\ WithFile' = WithFile
  BY SharedUnchanged DEF PushConfirmed, IInv, SharedOK
<1>4. MemoryOK(me) /\ me \in ProcState /\ me.todo \subseteq WithFile
  BY OwnMemory
<1> HIDE DEF me
<1>5. new(u) \in ProcState /\ new(u).todo = me.todo /\ new(u).cur = u
      /\ new(u).plan = me.plan /\ new(u).known = me.known
  BY <1>4 DEF ProcState
<1> HIDE DEF new
<1>6. MemoryOK(new(u))
  BY <1>1, <1>2, <1>4, <1>5, MemoryFrame
<1> QED BY <1>2, <1>3, <1>4, <1>5, <1>6, StepKeeps

-----------------------------------------------------------------------------
(* push: applying                                                          *)

(* Another process only notes which key was written.                       *)
LEMMA TouchedMemory ==
    ASSUME NEW me, MemoryOK(me), NEW u \in Users, NEW k \in Keys
    PROVE  LET new == [me EXCEPT !.touched = @ \cup {<<u, k>>}]
           IN  MemoryOK(new) /\ new.todo = me.todo
<1> DEFINE new == [me EXCEPT !.touched = @ \cup {<<u, k>>}]
<1>1. me \in ProcState
  BY DEF MemoryOK
<1>2. new \in ProcState /\ new.todo = me.todo /\ new.pc = me.pc
      /\ new.plan = me.plan /\ new.known = me.known /\ new.cur = me.cur
  BY <1>1 DEF ProcState
<1> HIDE DEF new
<1>3. MemoryOK(new)
  BY <1>2 DEF MemoryOK
<1> QED BY <1>2, <1>3 DEF new

LEMMA WriteKeeps ==
    ASSUME IInv, NEW p, NEW u \in Users, NEW k \in Keys, NEW stored \in Stored \cup {None},
           NEW me, p \in Procs => MemoryOK(me) /\ me.todo \subseteq WithFile,
           Write(p, u, k, stored, me),
           UNCHANGED <<file, secrets>>, nonce' \in Nat, spent' \in [Budget -> Nat]
    PROVE  IInv'
<1> DEFINE noted(q) == [proc[q] EXCEPT !.touched = @ \cup {<<u, k>>}]
<1>1. proc' = [q \in Procs |-> IF q = p THEN me
                               ELSE IF proc[q].pc = "idle" THEN proc[q] ELSE noted(q)]
  BY DEF Write
<1>2. server' \in [Users -> [Keys -> Stored \cup {None}]]
  BY DEF Write, IInv, SharedOK
<1>3. SharedOK' /\ WithFile' = WithFile
  BY <1>2 DEF IInv, SharedOK, BaseConsistent, WithFile, Sound, StateOf, IsEncrypted
<1>4. \A q \in Procs : MemoryOK(noted(q)) /\ noted(q).todo = proc[q].todo
  BY OwnMemory, TouchedMemory
<1> HIDE DEF noted
<1>5. \A q \in Procs : MemoryOK(proc'[q]) /\ proc'[q].todo \subseteq WithFile'
  BY <1>1, <1>3, <1>4, OwnMemory
<1>6. proc' \in [Procs -> ProcState]
  BY <1>1, <1>5 DEF MemoryOK
<1>7. \A q \in Procs : MemoryOK(proc[q])' <=> MemoryOK(proc'[q])
  BY DEF MemoryOK, Sound, NeedsSecret, Added, Modified, StateOf, IsEncrypted
<1> QED BY <1>3, <1>5, <1>6, <1>7 DEF IInv

(* What is recorded is a sound state, and recording one leaves no change   *)
(* to push that was not there before.                                      *)
LEMMA RecordMemory ==
    ASSUME NEW me, MemoryOK(me), me.pc = "apply", NEW k \in Keys,
           NEW state \in KeyState \cup {None},
           state # None => state = StateOf(state.remote),
           state = None => k \in Deleted(me.plan[me.cur]),
           state # None => me.plan[me.cur].values[k] = state.value
    PROVE  LET new == [me EXCEPT !.plan[me.cur].base[k] = state]
           IN  MemoryOK(new) /\ new.todo = me.todo
<1> DEFINE u    == me.cur
           old  == me.plan[u]
           prof == [old EXCEPT !.base[k] = state]
           new  == [me EXCEPT !.plan[u] = prof]
<1>1. me \in ProcState /\ u \in Users /\ old # None
  BY DEF MemoryOK, WithUser, WithPlan
<1>2. old \in Profile /\ Sound(old)
  BY <1>1 DEF MemoryOK, ProcState
<1>3. prof \in Profile /\ Sound(prof)
  BY <1>2, RecordSound
<1>4. prof.base = [old.base EXCEPT ![k] = state] /\ prof.values = old.values
      /\ old.base \in [Keys -> KeyState \cup {None}]
  BY <1>2 DEF Profile
<1>5. old.values[k] = None <=> state = None
  BY <1>4, NoneAssumption DEF Deleted, KeyState
<1>6. NeedsSecret(prof) => NeedsSecret(old)
  <2> HIDE DEF prof, old
  <2>1. Added(prof) \subseteq Added(old)
    BY <1>4, <1>5 DEF Added
  <2>2. \A j \in Modified(prof) : j \in Modified(old) /\ prof.base[j] = old.base[j]
    BY <1>4, <1>5 DEF Modified, old
  <2> QED BY <2>1, <2>2 DEF NeedsSecret
<1>7. [me EXCEPT !.plan[me.cur].base[k] = state] = new
  OBVIOUS
<1> HIDE DEF prof
<1>8. new \in ProcState /\ new.todo = me.todo /\ new.pc = "apply" /\ new.known = me.known
      /\ new.cur = u /\ new.plan = [me.plan EXCEPT ![u] = prof]
  BY <1>1, <1>3 DEF ProcState
<1> HIDE DEF new
<1>9. NeedsSecret(prof) => me.known[u] # None
  BY <1>1, <1>6 DEF MemoryOK
<1>10. MemoryOK(new)
  BY <1>1, <1>3, <1>8, <1>9, LoadMemory
<1> QED BY <1>7, <1>8, <1>10

LEMMA FailedMemory ==
    ASSUME NEW me, MemoryOK(me), me.pc = "apply"
    PROVE  LET new == [me EXCEPT !.pc = "saveFailed"]
           IN  MemoryOK(new) /\ new.todo = me.todo
<1> DEFINE new == [me EXCEPT !.pc = "saveFailed"]
<1>1. me \in ProcState
  BY DEF MemoryOK
<1>2. new \in ProcState /\ new.todo = me.todo /\ new.pc = "saveFailed"
      /\ new.plan = me.plan /\ new.known = me.known /\ new.cur = me.cur
  BY <1>1 DEF ProcState
<1> HIDE DEF new
<1>3. MemoryOK(new)
  BY <1>1, <1>2, MemoryFrame DEF MemoryOK, WithUser, WithPlan
<1> QED BY <1>2, <1>3 DEF new

LEMMA AppliedKeeps ==
    ASSUME IInv, NEW p \in Procs, proc[p].pc = "apply",
           NEW k \in Keys, NEW stored \in Stored \cup {None},
           NEW state \in KeyState \cup {None}, NEW lost \in BOOLEAN,
           state # None => state = StateOf(state.remote),
           state = None => k \in Deleted(proc[p].plan[proc[p].cur]),
           state # None => proc[p].plan[proc[p].cur].values[k] = state.value,
           Applied(p, k, stored, state, lost),
           UNCHANGED <<file, secrets>>, nonce' \in Nat
    PROVE  IInv'
<1> DEFINE me     == proc[p]
           u      == me.cur
           failed == [me EXCEPT !.pc = "saveFailed"]
           done   == [me EXCEPT !.plan[u].base[k] = state]
<1>1. MemoryOK(me) /\ me \in ProcState /\ me.todo \subseteq WithFile
  BY OwnMemory
<1>2. u \in Users
  BY <1>1 DEF MemoryOK, WithUser
<1>3. MemoryOK(failed) /\ failed.todo = me.todo
  BY <1>1, FailedMemory
<1>4. MemoryOK(done) /\ done.todo = me.todo
  BY <1>1, RecordMemory
<1>5. \/ Spend("lost") /\ Write(p, u, k, stored, failed)
      \/ Write(p, u, k, stored, done) /\ UNCHANGED spent
  BY DEF Applied
<1>6. spent' \in [Budget -> Nat]
  BY <1>5, SpendType DEF Budget, IInv, SharedOK
<1> HIDE DEF me, u, failed, done
<1> QED BY <1>1, <1>2, <1>3, <1>4, <1>5, <1>6, WriteKeeps

LEMMA ApplyDeleteKeeps ==
    ASSUME IInv, NEW p \in Procs, ApplyDelete(p)
    PROVE  IInv'
<1>1. PICK k \in Deleted(proc[p].plan[proc[p].cur]), lost \in BOOLEAN :
          Applied(p, k, None, None, lost)
  BY DEF ApplyDelete
<1>2. proc[p].pc = "apply" /\ UNCHANGED <<file, secrets, nonce>>
  BY DEF ApplyDelete
<1>3. k \in Keys /\ nonce' \in Nat
  BY <1>2 DEF Deleted, IInv, SharedOK
<1> QED BY <1>1, <1>2, <1>3, AppliedKeeps

LEMMA ApplySetKeeps ==
    ASSUME IInv, NEW p \in Procs, ApplySet(p)
    PROVE  IInv'
<1> DEFINE me      == proc[p]
           prof    == me.plan[me.cur]
           v(k)    == prof.values[k]
           enc(k)  == EncryptsOnPush(prof, k)
           what(k) == IF enc(k) THEN Seal(v(k), me.known[me.cur], nonce + 1)
                                ELSE PlainOf(v(k))
<1>1. PICK k \in Added(prof) \cup Modified(prof), lost \in BOOLEAN :
          /\ Applied(p, k, what(k), Synced(v(k), what(k), enc(k)), lost)
          /\ nonce' = IF enc(k) THEN nonce + 1 ELSE nonce
  BY DEF ApplySet
<1>2. me.pc = "apply" /\ UNCHANGED <<file, secrets>>
  BY DEF ApplySet
<1>3. MemoryOK(me) /\ me \in ProcState
  BY OwnMemory
<1>4. me.cur \in Users /\ prof # None
  BY <1>2, <1>3 DEF MemoryOK, WithUser, WithPlan
<1>5. prof \in Profile
  BY <1>3, <1>4 DEF ProcState
<1>6. k \in Keys /\ v(k) \in Text /\ enc(k) \in BOOLEAN
  BY <1>5 DEF Added, Modified, Profile, EncryptsOnPush, KeyState
<1>7. enc(k) => NeedsSecret(prof)
  BY DEF EncryptsOnPush, NeedsSecret, Added, Modified
<1>8. enc(k) => me.known[me.cur] \in Secrets
  BY <1>2, <1>3, <1>4, <1>7 DEF MemoryOK, ProcState
<1>9. nonce' \in Nat /\ nonce + 1 \in Nat
  BY <1>1 DEF IInv, SharedOK
<1>10. what(k) \in Stored /\ IsEncrypted(what(k)) = enc(k) /\ what(k).val = v(k)
  BY <1>6, <1>8, <1>9, PlainStored, SealStored DEF PlainOf, Seal, IsEncrypted
<1> DEFINE state == Synced(v(k), what(k), enc(k))
<1>11. state = StateOf(what(k))
  BY <1>10, SyncedIsState
<1> HIDE DEF state, what, enc
<1>12. state.remote = what(k) /\ state.value = v(k)
  BY <1>10, <1>11 DEF StateOf
<1>13. state \in KeyState /\ state = StateOf(state.remote)
  BY <1>10, <1>11, <1>12, StateOfType
<1> QED BY <1>1, <1>2, <1>6, <1>9, <1>10, <1>12, <1>13, NoneAssumption, AppliedKeeps DEF state

LEMMA PushSaveKeeps ==
    ASSUME IInv, NEW p \in Procs, PushSave(p)
    PROVE  IInv'
<1> DEFINE me     == proc[p]
           new(u) == [me EXCEPT !.plan[me.cur] = None, !.cur = u]
<1>1. me.pc \in {"apply", "saveFailed"}
  BY DEF PushSave
<1>2. file' = [file EXCEPT ![me.cur] = me.plan[me.cur]]
      /\ UNCHANGED <<server, secrets, nonce, spent>>
  BY DEF PushSave, ToSave
<1>3. End(p) \/ (me.pc = "apply" /\ \E u \in Planned(me) \ {me.cur} : Step(p, new(u)))
  BY <1>1 DEF PushSave
<1>4. MemoryOK(me) /\ me \in ProcState /\ me.todo \subseteq WithFile
  BY OwnMemory
<1> HIDE DEF me
<1>5. me.cur \in Users /\ me.plan[me.cur] # None
  BY <1>1, <1>4 DEF MemoryOK, WithUser, WithPlan
<1>6. me.plan[me.cur] \in Profile /\ Sound(me.plan[me.cur])
  BY <1>4, <1>5 DEF MemoryOK, ProcState
<1>7. SharedOK' /\ WithFile \subseteq WithFile'
  BY <1>2, <1>5, <1>6, FileKeeps DEF IInv, SharedOK
<1>8. CASE End(p)
  BY <1>7, <1>8, EndKeeps
<1>9. CASE me.pc = "apply" /\ \E u \in Planned(me) \ {me.cur} : Step(p, new(u))
  <2>1. PICK u \in Users : me.plan[u] # None /\ u # me.cur /\ Step(p, new(u))
    BY <1>9 DEF Planned
  <2>2. new(u) \in ProcState /\ new(u).todo = me.todo /\ new(u).pc = "apply"
        /\ new(u).known = me.known /\ new(u).cur = u
        /\ new(u).plan = [me.plan EXCEPT ![me.cur] = None]
    BY <1>4, <1>5, <1>9, <2>1 DEF ProcState
  <2> HIDE DEF new
  <2>3. \A w \in Users : new(u).plan[w] # None => new(u).plan[w] = me.plan[w]
    BY <1>4, <2>2 DEF ProcState
  <2>4. new(u).plan[u] # None
    BY <1>4, <2>1, <2>2 DEF ProcState
  <2>5. MemoryOK(new(u))
    BY <1>4, <1>9, <2>2, <2>3, <2>4 DEF MemoryOK
  <2> QED BY <1>4, <1>7, <2>1, <2>2, <2>5, StepKeeps
<1> QED BY <1>3, <1>8, <1>9

-----------------------------------------------------------------------------
(* new, failures and foreign writers                                       *)

LEMMA NewExistsKeeps ==
    ASSUME IInv, NEW p \in Procs, NewExists(p)
    PROVE  IInv'
<1> DEFINE me  == proc[p]
           new == [me EXCEPT !.pc = "newList"]
<1>1. me.pc = "newExists" /\ (End(p) \/ Step(p, new))
  BY DEF NewExists
<1>2. SharedOK' /\ WithFile' = WithFile
  BY SharedUnchanged DEF NewExists, IInv, SharedOK
<1>3. MemoryOK(me) /\ me \in ProcState /\ me.todo \subseteq WithFile
  BY OwnMemory
<1> HIDE DEF me
<1>4. new \in ProcState /\ new.todo = me.todo /\ new.pc = "newList"
      /\ new.plan = me.plan /\ new.known = me.known /\ new.cur = me.cur
  BY <1>3 DEF ProcState
<1> HIDE DEF new
<1>5. MemoryOK(new)
  BY <1>1, <1>3, <1>4, MemoryFrame DEF MemoryOK, WithUser, WithPlan
<1> QED BY <1>1, <1>2, <1>3, <1>4, <1>5, StepKeeps, EndKeeps

LEMMA NewListKeeps ==
    ASSUME IInv, NEW p \in Procs, NewList(p)
    PROVE  IInv'
<1> DEFINE me       == proc[p]
           known(s) == [me.known EXCEPT ![me.cur] = s]
           gen(s)   == [me EXCEPT !.pc = "newSave", !.known = known(s)]
           same     == [me EXCEPT !.pc = "newSave"]
<1>1. me.pc = "newList" /\ UNCHANGED <<server, file, nonce, spent>>
  BY DEF NewList
<1>2. \/ End(p) /\ UNCHANGED secrets
      \/ Step(p, same) /\ UNCHANGED secrets
      \/ \E s \in Secrets : secrets' = known(s) /\ Step(p, gen(s))
  BY DEF NewList
<1>3. MemoryOK(me) /\ me \in ProcState /\ me.todo \subseteq WithFile
  BY OwnMemory
<1> HIDE DEF me
<1>4. me.cur \in Users
  BY <1>1, <1>3 DEF MemoryOK, WithUser
<1>5. ASSUME UNCHANGED secrets PROVE SharedOK' /\ WithFile' = WithFile
  BY <1>1, <1>5, SharedUnchanged DEF IInv, SharedOK
<1>6. same \in ProcState /\ same.todo = me.todo /\ same.pc = "newSave"
      /\ same.plan = me.plan /\ same.known = me.known /\ same.cur = me.cur
  BY <1>3 DEF ProcState
<1> HIDE DEF same
<1>7. MemoryOK(same)
  BY <1>1, <1>3, <1>4, <1>6, MemoryFrame DEF WithPlan
<1>8. ASSUME NEW s \in Secrets, secrets' = known(s), Step(p, gen(s)) PROVE IInv'
  <2>1. known(s) \in [Users -> Secrets \cup {None}]
    BY <1>3, <1>4 DEF ProcState
  <2>2. gen(s) \in ProcState /\ gen(s).todo = me.todo /\ gen(s).pc = "newSave"
        /\ gen(s).plan = me.plan /\ gen(s).known = known(s) /\ gen(s).cur = me.cur
    BY <1>3, <2>1 DEF ProcState
  <2>3. SharedOK' /\ WithFile' = WithFile
    BY <1>1, <1>8, <2>1, SecretsKeep
  <2> HIDE DEF gen
  <2>4. MemoryOK(gen(s))
    BY <1>1, <1>3, <1>4, <2>2, KnownMemory DEF WithPlan
  <2> QED BY <1>3, <1>8, <2>2, <2>3, <2>4, StepKeeps
<1> QED BY <1>2, <1>3, <1>5, <1>6, <1>7, <1>8, StepKeeps, EndKeeps

LEMMA NewSaveKeeps ==
    ASSUME IInv, NEW p \in Procs, NewSave(p)
    PROVE  IInv'
<1>1. proc[p].cur \in Users
  BY OwnMemory DEF NewSave, MemoryOK, WithUser
<1>2. SharedOK' /\ WithFile \subseteq WithFile'
  BY <1>1, NewSound, FileKeeps DEF NewSave, IInv, SharedOK
<1> QED BY <1>2, EndKeeps DEF NewSave

LEMMA RpcFailsKeeps ==
    ASSUME IInv, NEW p \in Procs, RpcFails(p)
    PROVE  IInv'
<1> DEFINE me  == proc[p]
           new == [me EXCEPT !.pc = "saveFailed"]
<1>1. SharedOK' /\ WithFile' = WithFile
  BY SharedUnchanged, SpendType DEF RpcFails, Budget
<1>2. End(p) \/ (me.pc = "apply" /\ Step(p, new))
  BY DEF RpcFails
<1>3. MemoryOK(me) /\ me.todo \subseteq WithFile
  BY OwnMemory
<1>4. me.pc = "apply" => MemoryOK(new) /\ new.todo = me.todo
  BY <1>3, FailedMemory
<1> HIDE DEF me, new
<1> QED BY <1>1, <1>2, <1>3, <1>4, StepKeeps, EndKeeps

LEMMA CrashKeeps ==
    ASSUME IInv, NEW p \in Procs, Crash(p)
    PROVE  IInv'
<1>1. SharedOK' /\ WithFile' = WithFile
  BY SharedUnchanged, SpendType DEF Crash, Budget
<1> QED BY <1>1, EndKeeps DEF Crash

LEMMA ExternalWriteKeeps ==
    ASSUME IInv, ExternalWrite
    PROVE  IInv'
<1>1. PICK u \in Users, k \in Keys,
           stored \in {None} \cup {PlainOf(v) : v \in Values}
                        \cup {Seal(v, s, nonce + 1) : v \in Values, s \in Secrets} :
          Write(None, u, k, stored, Idle)
  BY DEF ExternalWrite
<1>2. nonce' \in Nat /\ nonce + 1 \in Nat /\ spent' \in [Budget -> Nat]
      /\ UNCHANGED <<file, secrets>>
  BY SpendType DEF ExternalWrite, Budget, IInv, SharedOK
<1>3. stored \in Stored \cup {None}
  BY <1>2, PlainStored, SealStored DEF Text
<1>4. None \notin Procs
  BY NoneAssumption
<1> QED BY <1>1, <1>2, <1>3, <1>4, WriteKeeps

-----------------------------------------------------------------------------
LEMMA InitInv == Init => IInv
<1> SUFFICES ASSUME Init PROVE IInv
  OBVIOUS
<1>1. server \in [Users -> [Keys -> Stored \cup {None}]]
  <2>1. {None} \cup {PlainOf(v) : v \in Values} \cup {Seal(v, s, 0) : v \in Values, s \in Secrets}
          \subseteq Stored \cup {None}
    BY PlainStored, SealStored DEF Text
  <2> QED BY <2>1 DEF Init
<1>2. file \in [Users -> Profile \cup {None}] /\ BaseConsistent
  BY DEF Init, BaseConsistent
<1>3. spent \in [Budget -> Nat] /\ nonce \in Nat /\ secrets \in [Users -> Secrets \cup {None}]
  BY DEF Init
<1>4. \A p \in Procs : proc[p] = Idle
  BY DEF Init
<1>5. proc \in [Procs -> ProcState]
  BY IdleOK DEF Init, MemoryOK
<1> QED BY <1>1, <1>2, <1>3, <1>4, <1>5, IdleOK DEF IInv, SharedOK

LEMMA StutterKeeps == IInv /\ UNCHANGED vars => IInv'
<1> SUFFICES ASSUME IInv, UNCHANGED vars PROVE IInv'
  OBVIOUS
<1>1. SharedOK' /\ WithFile' = WithFile
  BY SharedUnchanged DEF vars, IInv, SharedOK
<1>2. proc' = proc
  BY DEF vars
<1>3. \A p \in Procs : MemoryOK(proc[p])' <=> MemoryOK(proc'[p])
  BY DEF MemoryOK, Sound, NeedsSecret, Added, Modified, StateOf, IsEncrypted
<1> QED BY <1>1, <1>2, <1>3 DEF IInv

LEMMA NextInv == IInv /\ [Next]_vars => IInv'
<1> SUFFICES ASSUME IInv, [Next]_vars PROVE IInv'
  OBVIOUS
<1>1. CASE UNCHANGED vars
  BY <1>1, StutterKeeps
<1>2. CASE ExternalWrite
  BY <1>2, ExternalWriteKeeps
<1>3. ASSUME NEW p \in Procs, Start(p) \/ Work(p) \/ RpcFails(p) \/ Crash(p) PROVE IInv'
  BY <1>3, StartKeeps, PullListKeeps, PullNextKeeps, PullEndsKeeps, FetchKeyKeeps,
     AskSecretKeeps, PullSkipsKeeps, PullSaveKeeps, EditLoadKeeps, EditListKeeps,
     EditReloadKeeps, EditSaveKeeps, EditQuitsKeeps, PushSelectKeeps, PushLoadKeeps,
     PushCheckListKeeps, PushCheckKeyKeeps, PushStopsKeeps, PushConfirmedKeeps,
     ApplyDeleteKeeps, ApplySetKeeps, PushSaveKeeps, NewExistsKeeps, NewListKeeps,
     NewSaveKeeps, RpcFailsKeeps, CrashKeeps DEF Work
<1> QED BY <1>1, <1>2, <1>3 DEF Next

(* The inductive invariant holds in every state.                           *)
THEOREM Invariance == Spec => []IInv
<1> QED BY InitInv, NextInv, PTL DEF Spec

(* Every variable keeps its type, whatever commands run side by side.      *)
THEOREM TypeCorrect == Spec => []TypeOK
<1>1. IInv => TypeOK
  BY DEF IInv, SharedOK, TypeOK
<1> QED BY <1>1, Invariance, PTL

(* A profile file never holds a plaintext, a hash and a mode of different  *)
(* stored values, whatever commands, failures, crashes and foreign writes  *)
(* it went through.                                                        *)
THEOREM BaseIsConsistent == Spec => []BaseConsistent
<1>1. IInv => BaseConsistent
  BY DEF IInv, SharedOK
<1> QED BY <1>1, Invariance, PTL

-----------------------------------------------------------------------------
(* push "plans and checks every profile before writing anything"           *)
(* (cmd/kilovault/profiles.go:479): an unforced push never overwrites a    *)
(* value it has not compared, however many processes, foreign writers and  *)
(* failures there are.                                                     *)

Checking == {"plan", "checkList", "check", "apply"}

(* Agrees, for a server in state srv.                                      *)
AgreesWith(srv, prof, u, k) ==
    \/ prof.base[k] = None /\ srv[u][k] = None
    \/ prof.base[k] # None /\ Got(srv[u][k]) = prof.base[k].remote
    \/ k \in Deleted(prof) /\ srv[u][k] = None

(* Nothing is known yet of this change: its user is being checked.         *)
Unread(me, u, k) ==
    me.cur = u /\ (me.pc = "checkList" \/ (me.pc = "check" /\ k \in me.keys))

Compared(me, srv, u, k) ==
    <<u, k>> \in me.touched \/ AgreesWith(srv, me.plan[u], u, k) \/ Unread(me, u, k)

(* The inductive invariant: from the first profile it loads, a push that   *)
(* has met no conflict has compared every change it planned, or is about   *)
(* to, or another process has written the key since.  The keys it reads    *)
(* one by one are those it has synced before.                              *)
CheckedOK(me, srv) ==
    /\ me.pc = "select" => \A u \in Users : me.plan[u] = None
    /\ me.pc = "apply" => ~Refused(me)
    /\ me.pc = "check" => \A k \in me.keys : me.plan[me.cur].base[k] # None
    /\ me.pc \in Checking /\ ~me.force /\ ~me.conflict =>
         \A u \in Users : me.plan[u] # None =>
            \A k \in Changed(me.plan[u]) : Compared(me, srv, u, k)

CInv == IInv /\ \A p \in Procs : CheckedOK(proc[p], server)

Quiet(me) == me.pc \notin Checking \cup {"select"}

-----------------------------------------------------------------------------
LEMMA QuietChecked == ASSUME NEW me, NEW srv, Quiet(me) PROVE CheckedOK(me, srv)
  BY DEF Quiet, CheckedOK, Checking

LEMMA CheckedPrimed ==
    ASSUME IInv', \A p \in Procs : CheckedOK(proc'[p], server')
    PROVE  CInv'
<1>1. \A p \in Procs : CheckedOK(proc[p], server)' <=> CheckedOK(proc'[p], server')
  BY DEF CheckedOK, Checking, Refused, Compared, AgreesWith, Unread, Changed, Added,
         Modified, Deleted, Got, PlainOf
<1> QED BY <1>1 DEF CInv

LEMMA StepChecked ==
    ASSUME CInv, IInv', NEW p \in Procs, NEW me, Step(p, me), UNCHANGED server,
           CheckedOK(me, server)
    PROVE  CInv'
<1>1. proc \in [Procs -> ProcState] /\ proc' = [proc EXCEPT ![p] = me]
  BY DEF CInv, IInv, Step
<1>2. \A q \in Procs : CheckedOK(proc'[q], server')
  BY <1>1 DEF CInv
<1> QED BY <1>2, CheckedPrimed

LEMMA QuietKeeps ==
    ASSUME CInv, IInv', NEW p \in Procs, NEW me, Step(p, me), UNCHANGED server, Quiet(me)
    PROVE  CInv'
  BY QuietChecked, StepChecked

LEMMA EndChecked ==
    ASSUME CInv, IInv', NEW p \in Procs, End(p), UNCHANGED server
    PROVE  CInv'
<1>1. Quiet(Idle)
  BY IdleOK DEF Quiet, Checking
<1> QED BY <1>1, QuietKeeps DEF End

(* A write is noted by every other process that runs.                      *)
LEMMA WriteChecked ==
    ASSUME CInv, IInv', NEW p, NEW u \in Users, NEW k \in Keys, NEW stored, NEW me,
           Write(p, u, k, stored, me), p \in Procs => CheckedOK(me, server')
    PROVE  CInv'
<1> DEFINE noted(q) == [proc[q] EXCEPT !.touched = @ \cup {<<u, k>>}]
<1>1. proc' = [q \in Procs |-> IF q = p THEN me
                               ELSE IF proc[q].pc = "idle" THEN proc[q] ELSE noted(q)]
  BY DEF Write
<1>2. \A w \in Users, j \in Keys : <<w, j>> # <<u, k>> => server'[w][j] = server[w][j]
  BY DEF Write, CInv, IInv, SharedOK
<1>3. ASSUME NEW q \in Procs PROVE CheckedOK(noted(q), server')
  <2> DEFINE old == proc[q]
             new == noted(q)
  <2>1. CheckedOK(old, server) /\ old \in ProcState
    BY OwnMemory DEF CInv
  <2> HIDE DEF old
  <2>2. /\ new.pc = old.pc /\ new.plan = old.plan /\ new.force = old.force
        /\ new.conflict = old.conflict /\ new.cur = old.cur /\ new.keys = old.keys
        /\ new.touched = old.touched \cup {<<u, k>>}
    BY <2>1 DEF ProcState, old
  <2> HIDE DEF new
  <2>3. \A w \in Users : \A j \in Changed(old.plan[w]) :
          Compared(old, server, w, j) => Compared(new, server', w, j)
    <3> SUFFICES ASSUME NEW w \in Users, NEW j \in Changed(old.plan[w]),
                        Compared(old, server, w, j)
                 PROVE  Compared(new, server', w, j)
      OBVIOUS
    <3>1. j \in Keys
      BY DEF Changed, Added, Modified, Deleted
    <3>2. CASE <<w, j>> = <<u, k>>
      BY <2>2, <3>2 DEF Compared
    <3>3. CASE <<w, j>> # <<u, k>>
      BY <1>2, <2>2, <3>1, <3>3 DEF Compared, AgreesWith, Unread
    <3> QED BY <3>2, <3>3
  <2>4. CheckedOK(new, server')
    BY <2>1, <2>2, <2>3 DEF CheckedOK, Refused
  <2> QED BY <2>4 DEF new
<1>4. \A q \in Procs : proc[q].pc = "idle" => CheckedOK(proc[q], server')
  BY QuietChecked DEF Quiet, Checking
<1> HIDE DEF noted
<1>5. \A q \in Procs : CheckedOK(proc'[q], server')
  BY <1>1, <1>3, <1>4
<1> QED BY <1>5, CheckedPrimed

-----------------------------------------------------------------------------
(* Steps outside the push.                                                 *)

LEMMA StartChecked ==
    ASSUME CInv, IInv', NEW p \in Procs, Start(p)
    PROVE  CInv'
<1> DEFINE new(c, only, f) == [Idle EXCEPT !.pc = FirstStep[c], !.cmd = c, !.force = f,
                                           !.cur = only, !.known = secrets]
<1>1. PICK c \in Commands, only \in Users \cup {None}, f \in BOOLEAN :
          Step(p, new(c, only, f))
  BY DEF Start
<1>2. FirstStep[c] \in {"list", "select", "editLoad", "newExists"} /\ UNCHANGED server
  BY DEF FirstStep, Commands, Start
<1>3. new(c, only, f).pc = FirstStep[c] /\ new(c, only, f).plan = [u \in Users |-> None]
  BY DEF Idle
<1> HIDE DEF new
<1>4. CheckedOK(new(c, only, f), server)
  BY <1>2, <1>3 DEF CheckedOK, Checking
<1> QED BY <1>1, <1>2, <1>4, StepChecked

(* In every other step that is not part of a push, the process ends or     *)
(* goes on outside the push.                                               *)
LEMMA PullChecked ==
    ASSUME CInv, IInv', NEW p \in Procs,
           \/ PullList(p) \/ PullNext(p) \/ PullEnds(p) \/ FetchKey(p)
           \/ AskSecret(p) \/ PullSkips(p) \/ PullSave(p)
    PROVE  CInv'
<1> DEFINE me == proc[p]
<1>1. me \in ProcState /\ UNCHANGED server
  BY OwnMemory DEF CInv, PullList, PullNext, PullEnds, FetchKey, AskSecret, PullSkips, PullSave
<1>2. CASE PullList(p) \/ PullEnds(p)
  <2>1. End(p) \/ \E l : Step(p, [me EXCEPT !.pc = "next", !.listed = l, !.cur = None])
    BY <1>2 DEF PullList, PullEnds
  <2> HIDE DEF me
  <2>2. \A l : Quiet([me EXCEPT !.pc = "next", !.listed = l, !.cur = None])
    BY <1>1 DEF Quiet, Checking, ProcState
  <2> QED BY <1>1, <2>1, <2>2, EndChecked, QuietKeeps
<1>3. CASE PullNext(p)
  <2>1. me.pc = "next" /\ \E u \in Users :
          \/ Step(p, [me EXCEPT !.listed[u] = {}])
          \/ Step(p, [me EXCEPT !.pc = "fetch", !.cur = u,
                                !.keys = me.listed[u], !.listed[u] = {}])
    BY <1>3 DEF PullNext
  <2> HIDE DEF me
  <2>2. \A u \in Users : /\ Quiet([me EXCEPT !.listed[u] = {}])
                         /\ Quiet([me EXCEPT !.pc = "fetch", !.cur = u,
                                             !.keys = me.listed[u], !.listed[u] = {}])
    BY <1>1, <2>1 DEF Quiet, Checking, ProcState
  <2> QED BY <1>1, <2>1, <2>2, QuietKeeps
<1>4. CASE FetchKey(p)
  <2>1. PICK k, s, pc : pc \in {"build", "fetch"} /\
          Step(p, [me EXCEPT !.keys = @ \ {k}, !.got[k] = s, !.pc = pc])
    BY <1>4 DEF FetchKey
  <2> HIDE DEF me
  <2>2. Quiet([me EXCEPT !.keys = @ \ {k}, !.got[k] = s, !.pc = pc])
    BY <1>1, <2>1 DEF Quiet, Checking, ProcState
  <2> QED BY <1>1, <2>1, <2>2, QuietKeeps
<1>5. CASE AskSecret(p)
  <2>1. me.pc = "build" /\ \E s : Step(p, [me EXCEPT !.known = s])
    BY <1>5 DEF AskSecret
  <2> HIDE DEF me
  <2>2. \A s : Quiet([me EXCEPT !.known = s])
    BY <1>1, <2>1 DEF Quiet, Checking, ProcState
  <2> QED BY <1>1, <2>1, <2>2, QuietKeeps
<1>6. CASE PullSkips(p) \/ PullSave(p)
  <2>1. \/ End(p)
        \/ Step(p, [me EXCEPT !.pc = "next", !.cur = None, !.got = Idle.got])
        \/ Step(p, [me EXCEPT !.pc = "editReload", !.got = Idle.got])
    BY <1>6 DEF PullSkips, PullSave, SkipUser
  <2> HIDE DEF me
  <2>2. /\ Quiet([me EXCEPT !.pc = "next", !.cur = None, !.got = Idle.got])
        /\ Quiet([me EXCEPT !.pc = "editReload", !.got = Idle.got])
    BY <1>1 DEF Quiet, Checking, ProcState
  <2> QED BY <1>1, <2>1, <2>2, EndChecked, QuietKeeps
<1> QED BY <1>2, <1>3, <1>4, <1>5, <1>6

LEMMA EditChecked ==
    ASSUME CInv, IInv', NEW p \in Procs,
           EditLoad(p) \/ EditList(p) \/ EditReload(p) \/ EditSave(p) \/ EditQuits(p)
    PROVE  CInv'
<1> DEFINE me   == proc[p]
           push == [me EXCEPT !.pc = "plan", !.todo = {me.cur}, !.cur = None, !.plan = Idle.plan]
<1>1. me \in ProcState /\ UNCHANGED server
  BY OwnMemory DEF CInv, EditLoad, EditList, EditReload, EditSave, EditQuits
<1>2. CASE EditLoad(p) \/ EditList(p) \/ EditReload(p) \/ EditQuits(p)
  <2>1. \/ End(p)
        \/ \E x : Step(p, [me EXCEPT !.pc = "editor", !.plan[me.cur] = x])
        \/ Step(p, [me EXCEPT !.pc = "editList"])
        \/ Step(p, [me EXCEPT !.pc = "editReload"])
        \/ \E x : Step(p, [me EXCEPT !.pc = "fetch", !.keys = x])
    BY <1>2 DEF EditLoad, EditList, EditReload, EditQuits
  <2> HIDE DEF me
  <2>2. /\ \A x : Quiet([me EXCEPT !.pc = "editor", !.plan[me.cur] = x])
        /\ Quiet([me EXCEPT !.pc = "editList"])
        /\ Quiet([me EXCEPT !.pc = "editReload"])
        /\ \A x : Quiet([me EXCEPT !.pc = "fetch", !.keys = x])
    BY <1>1 DEF Quiet, Checking, ProcState
  <2> QED BY <1>1, <2>1, <2>2, EndChecked, QuietKeeps
<1>3. CASE EditSave(p)
  <2>1. End(p) \/ Step(p, push)
    BY <1>3 DEF EditSave
  <2>2. Idle.plan = [u \in Users |-> None]
    BY DEF Idle
  <2> HIDE DEF me
  <2>3. push.pc = "plan" /\ push.plan = [u \in Users |-> None]
    BY <1>1, <2>2 DEF ProcState
  <2> HIDE DEF push
  <2>4. CheckedOK(push, server)
    BY <2>3 DEF CheckedOK
  <2> QED BY <1>1, <2>1, <2>4, EndChecked, StepChecked
<1> QED BY <1>2, <1>3

LEMMA NewChecked ==
    ASSUME CInv, IInv', NEW p \in Procs, NewExists(p) \/ NewList(p) \/ NewSave(p)
    PROVE  CInv'
<1> DEFINE me == proc[p]
<1>1. me \in ProcState /\ UNCHANGED server
  BY OwnMemory DEF CInv, NewExists, NewList, NewSave
<1>2. \/ End(p)
      \/ Step(p, [me EXCEPT !.pc = "newList"])
      \/ Step(p, [me EXCEPT !.pc = "newSave"])
      \/ \E x : Step(p, [me EXCEPT !.pc = "newSave", !.known = x])
  BY DEF NewExists, NewList, NewSave
<1> HIDE DEF me
<1>3. /\ Quiet([me EXCEPT !.pc = "newList"])
      /\ Quiet([me EXCEPT !.pc = "newSave"])
      /\ \A x : Quiet([me EXCEPT !.pc = "newSave", !.known = x])
  BY <1>1 DEF Quiet, Checking, ProcState
<1> QED BY <1>1, <1>2, <1>3, EndChecked, QuietKeeps

LEMMA FailureChecked ==
    ASSUME CInv, IInv', NEW p \in Procs, RpcFails(p) \/ Crash(p)
    PROVE  CInv'
<1> DEFINE me == proc[p]
<1>1. me \in ProcState /\ UNCHANGED server
  BY OwnMemory DEF CInv, RpcFails, Crash
<1>2. End(p) \/ Step(p, [me EXCEPT !.pc = "saveFailed"])
  BY DEF RpcFails, Crash
<1> HIDE DEF me
<1>3. Quiet([me EXCEPT !.pc = "saveFailed"])
  BY <1>1 DEF Quiet, Checking, ProcState
<1> QED BY <1>1, <1>2, <1>3, EndChecked, QuietKeeps

-----------------------------------------------------------------------------
(* Steps of the push.                                                      *)

LEMMA PushSelectChecked ==
    ASSUME CInv, IInv', NEW p \in Procs, PushSelect(p)
    PROVE  CInv'
<1> DEFINE me     == proc[p]
           new(x) == [me EXCEPT !.pc = "plan", !.todo = x, !.cur = None]
<1>1. me \in ProcState /\ CheckedOK(me, server) /\ UNCHANGED server
  BY OwnMemory DEF CInv, PushSelect
<1>2. me.pc = "select" /\ (End(p) \/ \E x : Step(p, new(x)))
  BY DEF PushSelect
<1> HIDE DEF me
<1>3. \A x : new(x).pc = "plan" /\ new(x).plan = me.plan
  BY <1>1 DEF ProcState
<1> HIDE DEF new
<1>4. \A x : CheckedOK(new(x), server)
  BY <1>1, <1>2, <1>3 DEF CheckedOK
<1> QED BY <1>1, <1>2, <1>4, EndChecked, StepChecked

LEMMA PushLoadChecked ==
    ASSUME CInv, IInv', NEW p \in Procs, PushLoad(p)
    PROVE  CInv'
<1> DEFINE me      == proc[p]
           skip(u) == [me EXCEPT !.todo = @ \ {u}]
           load(u) == [me EXCEPT !.pc = "checkList", !.todo = @ \ {u},
                                 !.cur = u, !.plan[u] = file[u]]
<1>1. me \in ProcState /\ CheckedOK(me, server) /\ UNCHANGED server
  BY OwnMemory DEF CInv, PushLoad
<1>2. me.pc = "plan"
  BY DEF PushLoad
<1>3. PICK u \in me.todo : Step(p, skip(u)) \/ End(p) \/ Step(p, load(u))
  BY DEF PushLoad
<1> HIDE DEF me
<1>4. u \in Users
  BY <1>1 DEF ProcState
<1>5. /\ skip(u).pc = "plan" /\ skip(u).plan = me.plan /\ skip(u).force = me.force
      /\ skip(u).conflict = me.conflict /\ skip(u).touched = me.touched
  BY <1>1, <1>2 DEF ProcState
<1>6. /\ load(u).pc = "checkList" /\ load(u).force = me.force /\ load(u).cur = u
      /\ load(u).conflict = me.conflict /\ load(u).touched = me.touched
      /\ \A w \in Users : w # u => load(u).plan[w] = me.plan[w]
  BY <1>1 DEF ProcState
<1> HIDE DEF skip, load
<1>7. CheckedOK(skip(u), server)
  BY <1>1, <1>2, <1>5 DEF CheckedOK, Checking, Compared, Unread
<1>8. ASSUME ~me.force, ~me.conflict, NEW w \in Users, load(u).plan[w] # None,
             NEW k \in Changed(load(u).plan[w])
      PROVE  Compared(load(u), server, w, k)
  <2>1. CASE w = u
    BY <1>6, <2>1 DEF Compared, Unread
  <2>2. CASE w # u
    <3>1. load(u).plan[w] = me.plan[w]
      BY <1>6, <2>2
    <3>2. Compared(me, server, w, k)
      BY <1>1, <1>2, <1>8, <3>1 DEF CheckedOK, Checking
    <3> QED BY <1>2, <1>6, <3>1, <3>2 DEF Compared, Unread
  <2> QED BY <2>1, <2>2
<1>9. CheckedOK(load(u), server)
  BY <1>6, <1>8 DEF CheckedOK
<1> QED BY <1>1, <1>3, <1>7, <1>9, EndChecked, StepChecked

(* Keys not on both sides are settled by the list alone.                   *)
LEMMA PushCheckListChecked ==
    ASSUME CInv, IInv', NEW p \in Procs, PushCheckList(p)
    PROVE  CInv'
<1> DEFINE me    == proc[p]
           u     == me.cur
           prof  == me.plan[u]
           there == OnServer(u)
           keys  == (Modified(prof) \cup Deleted(prof)) \cap there
           conf  == ListConflicts(prof, there) # {}
           done  == {u} \X (Changed(prof) \ keys)
           new   == [me EXCEPT !.keys = keys,
                               !.pc = IF keys = {} THEN "plan" ELSE "check",
                               !.conflict = @ \/ conf,
                               !.touched = @ \ done]
<1>1. me.pc = "checkList" /\ Step(p, new) /\ UNCHANGED server
  BY DEF PushCheckList
<1>2. me \in ProcState /\ CheckedOK(me, server)
  BY OwnMemory DEF CInv
<1>3. ~conf => \A k \in Changed(prof) \ keys : AgreesWith(server, prof, u, k)
  <2> SUFFICES ASSUME ~conf, NEW k \in Changed(prof) \ keys
               PROVE  AgreesWith(server, prof, u, k)
    OBVIOUS
  <2>1. CASE k \in Added(prof)
    BY <2>1 DEF ListConflicts, OnServer, AgreesWith, Added
  <2>2. CASE k \in Modified(prof)
    BY <2>2 DEF ListConflicts
  <2>3. CASE k \in Deleted(prof)
    BY <2>3 DEF OnServer, AgreesWith, Deleted
  <2> QED BY <2>1, <2>2, <2>3 DEF Changed
<1> HIDE DEF me, keys, conf, done
<1>4. /\ new.keys = keys /\ new.pc = (IF keys = {} THEN "plan" ELSE "check")
      /\ new.plan = me.plan /\ new.force = me.force /\ new.cur = me.cur
      /\ new.conflict = (me.conflict \/ conf) /\ new.touched = me.touched \ done
  BY <1>2 DEF ProcState
<1> HIDE DEF new
<1>5. new.pc = "check" => \A k \in new.keys : new.plan[new.cur].base[k] # None
  BY <1>4 DEF keys, Modified, Deleted
<1>6. CheckedOK(new, server)
  <2> SUFFICES ASSUME ~me.force, ~me.conflict, ~conf, NEW w \in Users, me.plan[w] # None,
                      NEW k \in Changed(me.plan[w])
               PROVE  Compared(new, server, w, k)
    BY <1>4, <1>5 DEF CheckedOK
  <2>1. CASE w = u /\ k \notin keys
    BY <1>3, <1>4, <2>1 DEF Compared
  <2>2. CASE w = u /\ k \in keys
    BY <1>4, <2>2 DEF Compared, Unread
  <2>3. CASE w # u
    <3>1. Compared(me, server, w, k)
      BY <1>1, <1>2 DEF CheckedOK, Checking
    <3>2. <<w, k>> \notin done
      BY <2>3 DEF done
    <3> QED BY <1>4, <2>3, <3>1, <3>2 DEF Compared, Unread
  <2> QED BY <2>1, <2>2, <2>3
<1> QED BY <1>1, <1>6, StepChecked

LEMMA PushCheckKeyChecked ==
    ASSUME CInv, IInv', NEW p \in Procs, PushCheckKey(p)
    PROVE  CInv'
<1> DEFINE me      == proc[p]
           u       == me.cur
           conf(k) == RemoteChanged(me.plan[u], u, k)
           new(k)  == [me EXCEPT !.keys = @ \ {k},
                                 !.pc = IF me.keys = {k} THEN "plan" ELSE "check",
                                 !.conflict = @ \/ conf(k),
                                 !.touched = @ \ {<<u, k>>}]
<1>1. PICK k \in me.keys : Step(p, new(k))
  BY DEF PushCheckKey
<1>2. me \in ProcState /\ CheckedOK(me, server) /\ me.pc = "check" /\ UNCHANGED server
  BY OwnMemory DEF CInv, PushCheckKey
<1>3. k \in Keys
  BY <1>2 DEF ProcState
<1>4. me.plan[u].base[k] # None /\ ~conf(k) => AgreesWith(server, me.plan[u], u, k)
  BY DEF RemoteChanged, AgreesWith
<1> HIDE DEF me, conf
<1>5. /\ new(k).keys = me.keys \ {k} /\ new(k).pc = (IF me.keys = {k} THEN "plan" ELSE "check")
      /\ new(k).plan = me.plan /\ new(k).force = me.force /\ new(k).cur = me.cur
      /\ new(k).conflict = (me.conflict \/ conf(k)) /\ new(k).touched = me.touched \ {<<u, k>>}
  BY <1>2 DEF ProcState
<1> HIDE DEF new
<1>6. CheckedOK(new(k), server)
  <2>1. new(k).pc = "check" => \A j \in new(k).keys : new(k).plan[new(k).cur].base[j] # None
    BY <1>2, <1>5 DEF CheckedOK
  <2>2. ASSUME ~me.force, ~me.conflict, ~conf(k), NEW w \in Users, me.plan[w] # None,
               NEW j \in Changed(me.plan[w])
        PROVE  Compared(new(k), server, w, j)
    <3>1. CASE w = u /\ j = k
      <4>1. AgreesWith(server, me.plan[u], u, k)
        BY <1>1, <1>2, <1>4, <2>2 DEF CheckedOK, u
      <4> QED BY <1>5, <3>1, <4>1 DEF Compared
    <3>2. CASE ~(w = u /\ j = k)
      <4>1. Compared(me, server, w, j)
        BY <1>2, <2>2 DEF CheckedOK, Checking
      <4>2. w = u /\ j \in me.keys => me.keys # {k} /\ j \in me.keys \ {k}
        BY <3>2
      <4> QED BY <1>2, <1>5, <3>2, <4>1, <4>2 DEF Compared, Unread
    <3> QED BY <3>1, <3>2
  <2> QED BY <1>5, <2>1, <2>2 DEF CheckedOK
<1> QED BY <1>1, <1>2, <1>6, StepChecked

LEMMA PushStopsChecked ==
    ASSUME CInv, IInv', NEW p \in Procs, PushStops(p)
    PROVE  CInv'
  BY EndChecked DEF PushStops

LEMMA PushConfirmedChecked ==
    ASSUME CInv, IInv', NEW p \in Procs, PushConfirmed(p)
    PROVE  CInv'
<1> DEFINE me     == proc[p]
           new(u) == [me EXCEPT !.pc = "apply", !.cur = u]
<1>1. me.pc = "plan" /\ ~Refused(me) /\ UNCHANGED server
  BY DEF PushConfirmed
<1>2. PICK u : Step(p, new(u))
  BY DEF PushConfirmed
<1>3. me \in ProcState /\ CheckedOK(me, server)
  BY OwnMemory DEF CInv
<1> HIDE DEF me
<1>4. /\ new(u).pc = "apply" /\ new(u).plan = me.plan /\ new(u).force = me.force
      /\ new(u).conflict = me.conflict /\ new(u).touched = me.touched
  BY <1>3 DEF ProcState
<1> HIDE DEF new
<1>5. CheckedOK(new(u), server)
  BY <1>1, <1>3, <1>4 DEF CheckedOK, Checking, Refused, Compared, Unread
<1> QED BY <1>1, <1>2, <1>5, StepChecked

(* A change that is recorded as synced is no change any more; the others   *)
(* stay as they were.                                                      *)
LEMMA AppliedChecked ==
    ASSUME CInv, IInv', NEW p \in Procs, proc[p].pc = "apply",
           NEW k \in Keys, NEW stored, NEW state, NEW lost \in BOOLEAN,
           state = None => k \in Deleted(proc[p].plan[proc[p].cur]),
           state # None => /\ proc[p].plan[proc[p].cur].values[k] = state.value
                           /\ state.value # None,
           Applied(p, k, stored, state, lost)
    PROVE  CInv'
<1> DEFINE me     == proc[p]
           u      == me.cur
           old    == me.plan[u]
           prof   == [old EXCEPT !.base[k] = state]
           failed == [me EXCEPT !.pc = "saveFailed"]
           done   == [me EXCEPT !.plan[u].base[k] = state]
<1>1. MemoryOK(me) /\ me \in ProcState /\ CheckedOK(me, server)
  BY OwnMemory DEF CInv
<1>2. u \in Users /\ old # None
  BY <1>1 DEF MemoryOK, WithUser, WithPlan
<1>3. Write(p, u, k, stored, failed) \/ Write(p, u, k, stored, done)
  BY DEF Applied
<1>4. Write(p, u, k, stored, failed) => CInv'
  <2>1. Quiet(failed)
    BY <1>1 DEF Quiet, Checking, ProcState
  <2> HIDE DEF failed
  <2> QED BY <1>2, <2>1, QuietChecked, WriteChecked
<1>5. ASSUME Write(p, u, k, stored, done) PROVE CInv'
  <2>1. old \in Profile
    BY <1>1, <1>2 DEF ProcState
  <2>2. /\ prof.values = old.values /\ prof.base[k] = state
        /\ \A j \in Keys : j # k => prof.base[j] = old.base[j]
    BY <2>1 DEF Profile
  <2>3. done = [me EXCEPT !.plan[u] = prof]
    OBVIOUS
  <2>4. state = None => old.values[k] = None
    BY DEF Deleted
  <2>5. state # None => old.values[k] = state.value /\ state.value # None
    OBVIOUS
  <2>6. me.pc = "apply"
    OBVIOUS
  <2> HIDE DEF prof, old
  <2>7. k \notin Changed(prof)
    <3>1. CASE state = None
      BY <2>2, <2>4, <3>1 DEF Changed, Added, Modified, Deleted
    <3>2. CASE state # None
      BY <2>2, <2>5, <3>2 DEF Changed, Added, Modified, Deleted
    <3> QED BY <3>1, <3>2
  <2>8. \A j \in Keys : j # k =>
           /\ j \in Changed(prof) <=> j \in Changed(old)
           /\ j \in Deleted(prof) <=> j \in Deleted(old)
    BY <2>2 DEF Changed, Added, Modified, Deleted
  <2> HIDE DEF me, done
  <2>9. /\ done.pc = "apply" /\ done.force = me.force /\ done.conflict = me.conflict
        /\ done.touched = me.touched /\ done.plan = [me.plan EXCEPT ![u] = prof]
    BY <1>1, <2>3, <2>6 DEF ProcState
  <2>10. done.plan[u] = prof /\ \A w \in Users : w # u => done.plan[w] = me.plan[w]
    BY <1>1, <1>2, <2>9 DEF ProcState
  <2>11. \A w \in Users, j \in Keys : <<w, j>> # <<u, k>> => server'[w][j] = server[w][j]
    BY <1>5 DEF Write, CInv, IInv, SharedOK
  <2>12. ASSUME ~me.force, ~me.conflict, NEW w \in Users, done.plan[w] # None,
                NEW j \in Changed(done.plan[w])
         PROVE  Compared(done, server', w, j)
    <3>1. j \in Keys
      BY DEF Changed, Added, Modified, Deleted
    <3>2. CASE w = u
      <4>1. j # k /\ j \in Changed(old)
        BY <2>7, <2>8, <2>10, <2>12, <3>1, <3>2
      <4>2. Compared(me, server, u, j)
        BY <1>1, <1>2, <2>6, <2>12, <4>1 DEF CheckedOK, Checking, old
      <4>3. <<u, j>> \in me.touched \/ AgreesWith(server, old, u, j)
        BY <2>6, <4>2 DEF Compared, Unread, old
      <4>4. AgreesWith(server, old, u, j) => AgreesWith(server', prof, u, j)
        BY <1>2, <2>2, <2>8, <2>11, <3>1, <4>1 DEF AgreesWith
      <4> QED BY <2>9, <2>10, <3>2, <4>3, <4>4 DEF Compared
    <3>3. CASE w # u
      <4>1. Compared(me, server, w, j)
        BY <1>1, <2>6, <2>10, <2>12, <3>3 DEF CheckedOK, Checking
      <4>2. <<w, j>> \in me.touched \/ AgreesWith(server, me.plan[w], w, j)
        BY <2>6, <4>1 DEF Compared, Unread
      <4>3. server'[w][j] = server[w][j]
        BY <2>11, <3>1, <3>3
      <4> QED BY <2>9, <2>10, <3>3, <4>2, <4>3 DEF Compared, AgreesWith
    <3> QED BY <3>2, <3>3
  <2>13. ~Refused(me)
    BY <1>1, <2>6 DEF CheckedOK
  <2>14. CheckedOK(done, server')
    BY <2>9, <2>12, <2>13 DEF CheckedOK, Refused
  <2> HIDE DEF u
  <2> QED BY <1>2, <1>5, <2>14, WriteChecked
<1> QED BY <1>3, <1>4, <1>5

LEMMA ApplyDeleteChecked ==
    ASSUME CInv, IInv', NEW p \in Procs, ApplyDelete(p)
    PROVE  CInv'
<1>1. PICK k \in Deleted(proc[p].plan[proc[p].cur]), lost \in BOOLEAN :
          Applied(p, k, None, None, lost)
  BY DEF ApplyDelete
<1>2. k \in Keys /\ proc[p].pc = "apply"
  BY DEF ApplyDelete, Deleted
<1> QED BY <1>1, <1>2, AppliedChecked

LEMMA ApplySetChecked ==
    ASSUME CInv, IInv', NEW p \in Procs, ApplySet(p)
    PROVE  CInv'
<1> DEFINE me      == proc[p]
           prof    == me.plan[me.cur]
           v(k)    == prof.values[k]
           enc(k)  == EncryptsOnPush(prof, k)
           what(k) == IF enc(k) THEN Seal(v(k), me.known[me.cur], nonce + 1)
                                ELSE PlainOf(v(k))
<1>1. PICK k \in Added(prof) \cup Modified(prof), lost \in BOOLEAN :
          Applied(p, k, what(k), Synced(v(k), what(k), enc(k)), lost)
  BY DEF ApplySet
<1>2. me.pc = "apply"
  BY DEF ApplySet
<1>3. MemoryOK(me) /\ me \in ProcState
  BY OwnMemory DEF CInv
<1>4. me.cur \in Users /\ prof # None
  BY <1>2, <1>3 DEF MemoryOK, WithUser, WithPlan
<1>5. prof \in Profile
  BY <1>3, <1>4 DEF ProcState
<1>6. k \in Keys /\ v(k) \in Text /\ v(k) # None /\ enc(k) \in BOOLEAN
  BY <1>5 DEF Added, Modified, Profile, EncryptsOnPush, KeyState
<1>7. enc(k) => NeedsSecret(prof)
  BY DEF EncryptsOnPush, NeedsSecret, Added, Modified
<1>8. enc(k) => me.known[me.cur] \in Secrets
  BY <1>2, <1>3, <1>4, <1>7 DEF MemoryOK, ProcState
<1>9. nonce + 1 \in Nat
  BY DEF CInv, IInv, SharedOK
<1>10. what(k) \in Stored /\ IsEncrypted(what(k)) = enc(k) /\ what(k).val = v(k)
  BY <1>6, <1>8, <1>9, PlainStored, SealStored DEF PlainOf, Seal, IsEncrypted
<1> DEFINE state == Synced(v(k), what(k), enc(k))
<1>11. state = StateOf(what(k))
  BY <1>10, SyncedIsState
<1> HIDE DEF state, what, enc
<1>12. state # None /\ state.value = v(k)
  BY <1>10, <1>11, StateOfType, NoneAssumption DEF StateOf
<1> QED BY <1>1, <1>2, <1>6, <1>12, AppliedChecked DEF state

LEMMA PushSaveChecked ==
    ASSUME CInv, IInv', NEW p \in Procs, PushSave(p)
    PROVE  CInv'
<1> DEFINE me     == proc[p]
           new(u) == [me EXCEPT !.plan[me.cur] = None, !.cur = u]
<1>1. me \in ProcState /\ CheckedOK(me, server) /\ UNCHANGED server
  BY OwnMemory DEF CInv, PushSave
<1>2. End(p) \/ (me.pc = "apply" /\ \E u : Step(p, new(u)))
  BY DEF PushSave
<1> HIDE DEF me
<1>3. \A u : /\ new(u).pc = me.pc /\ new(u).force = me.force
             /\ new(u).conflict = me.conflict /\ new(u).touched = me.touched
             /\ \A w \in Users : new(u).plan[w] = IF w = me.cur THEN None ELSE me.plan[w]
  BY <1>1 DEF ProcState
<1> HIDE DEF new
<1>4. ASSUME me.pc = "apply", NEW u PROVE CheckedOK(new(u), server)
  BY <1>1, <1>3, <1>4 DEF CheckedOK, Checking, Refused, Compared, Unread
<1> QED BY <1>1, <1>2, <1>4, EndChecked, StepChecked

-----------------------------------------------------------------------------
(* Every step.                                                             *)

LEMMA ExternalWriteChecked ==
    ASSUME CInv, IInv', ExternalWrite
    PROVE  CInv'
<1>1. PICK u \in Users, k \in Keys : \E stored : Write(None, u, k, stored, Idle)
  BY DEF ExternalWrite
<1>2. PICK stored : Write(None, u, k, stored, Idle)
  BY <1>1
<1>3. None \notin Procs
  BY NoneAssumption
<1> QED BY <1>2, <1>3, WriteChecked

LEMMA StutterChecked == ASSUME CInv, IInv', UNCHANGED vars PROVE CInv'
<1>1. \A p \in Procs : CheckedOK(proc'[p], server')
  BY DEF vars, CInv
<1> QED BY <1>1, CheckedPrimed

LEMMA InitChecked == Init => CInv
<1>1. Quiet(Idle)
  BY IdleOK DEF Quiet, Checking
<1> QED BY <1>1, InitInv, QuietChecked DEF Init, CInv

LEMMA NextChecked == CInv /\ [Next]_vars => CInv'
<1> SUFFICES ASSUME CInv, [Next]_vars PROVE CInv'
  OBVIOUS
<1>1. IInv'
  BY NextInv DEF CInv
<1>2. CASE UNCHANGED vars
  BY <1>1, <1>2, StutterChecked
<1>3. CASE ExternalWrite
  BY <1>1, <1>3, ExternalWriteChecked
<1>4. ASSUME NEW p \in Procs, Start(p) \/ Work(p) \/ RpcFails(p) \/ Crash(p) PROVE CInv'
  BY <1>1, <1>4, StartChecked, PullChecked, EditChecked, NewChecked, FailureChecked,
     PushSelectChecked, PushLoadChecked, PushCheckListChecked, PushCheckKeyChecked,
     PushStopsChecked, PushConfirmedChecked, ApplyDeleteChecked, ApplySetChecked,
     PushSaveChecked DEF Work
<1> QED BY <1>2, <1>3, <1>4 DEF Next

LEMMA CheckedImplies == CInv => PushIsChecked
<1> SUFFICES ASSUME CInv, NEW p \in Procs, proc[p].pc = "apply", ~proc[p].force,
                    NEW u \in Planned(proc[p]), NEW k \in Changed(proc[p].plan[u])
             PROVE  <<u, k>> \in proc[p].touched \/ Agrees(proc[p].plan[u], u, k)
  BY DEF PushIsChecked
<1>1. CheckedOK(proc[p], server)
  BY DEF CInv
<1>2. ~proc[p].conflict
  BY <1>1 DEF CheckedOK, Refused
<1>3. Compared(proc[p], server, u, k)
  BY <1>1, <1>2 DEF CheckedOK, Checking, Planned
<1> QED BY <1>3 DEF Compared, Unread, Agrees, AgreesWith

(* When an unforced push writes, everything it planned, for every user, has *)
(* been compared with the server since others last wrote it.               *)
THEOREM PushWritesChecked == Spec => []PushIsChecked
<1> QED BY InitChecked, NextChecked, CheckedImplies, PTL DEF Spec

-----------------------------------------------------------------------------
(* What a push writes in the clear.                                        *)

(* A write is the step of one process only, or of none.                    *)
LEMMA OnlyWriter ==
    ASSUME CInv, NEW q, NEW u \in Users, NEW k \in Keys, NEW stored, NEW me,
           Write(q, u, k, stored, me), NEW p \in Procs, Acts(p)
    PROVE  p = q
<1> SUFFICES ASSUME p # q PROVE ~Acts(p)
  OBVIOUS
<1> DEFINE noted == [proc[p] EXCEPT !.touched = @ \cup {<<u, k>>}]
<1>1. proc[p] \in ProcState
  BY OwnMemory DEF CInv
<1>2. proc'[p] = proc[p] \/ proc'[p] = noted
  BY DEF Write
<1>3. [noted EXCEPT !.touched = {}] = [proc[p] EXCEPT !.touched = {}]
  BY <1>1 DEF ProcState
<1> QED BY <1>2, <1>3 DEF Acts

(* A step of p that changes a key on the server applies a change it has    *)
(* planned.                                                                *)
LEMMA AppliesAChange ==
    ASSUME CInv, [Next]_vars, NEW p \in Procs, Acts(p), NEW u \in Users, NEW k \in Keys,
           server'[u][k] # server[u][k]
    PROVE  u \in Planned(proc[p]) /\ k \in Changed(proc[p].plan[u])
<1>1. None \notin Procs /\ server \in [Users -> [Keys -> Stored \cup {None}]] /\ Next
  BY NoneAssumption DEF CInv, IInv, SharedOK, vars
<1>2. ~ExternalWrite
  BY <1>1, OnlyWriter DEF ExternalWrite
<1>3. PICK q \in Procs : ApplyDelete(q) \/ ApplySet(q)
  BY <1>1, <1>2 DEF Next, Start, Work, RpcFails, Crash, PullList, PullNext, PullEnds, FetchKey,
         AskSecret, PullSkips, PullSave, EditLoad, EditList, EditReload, EditSave, EditQuits,
         PushSelect, PushLoad, PushCheckList, PushCheckKey, PushStops, PushConfirmed, PushSave,
         NewExists, NewList, NewSave
<1>4. proc[q].cur \in Users /\ proc[q].plan[proc[q].cur] # None
  BY <1>3, OwnMemory DEF CInv, MemoryOK, WithUser, WithPlan, ApplyDelete, ApplySet
<1>5. PICK j, stored, me : /\ j \in Changed(proc[q].plan[proc[q].cur])
                           /\ Write(q, proc[q].cur, j, stored, me)
  <2> DEFINE prof == proc[q].plan[proc[q].cur]
  <2>1. CASE ApplyDelete(q)
    <3>1. PICK j \in Deleted(prof) : \E lost \in BOOLEAN : Applied(q, j, None, None, lost)
      BY <2>1 DEF ApplyDelete
    <3> QED BY <3>1 DEF Applied, Changed
  <2>2. CASE ApplySet(q)
    <3>1. PICK j \in Added(prof) \cup Modified(prof), lost \in BOOLEAN :
            \E stored, state : Applied(q, j, stored, state, lost)
      BY <2>2 DEF ApplySet
    <3>2. PICK stored, state : Applied(q, j, stored, state, lost)
      BY <3>1
    <3> QED BY <3>2 DEF Applied, Changed
  <2> QED BY <1>3, <2>1, <2>2
<1>6. j \in Keys
  BY <1>5 DEF Changed, Added, Modified, Deleted
<1>7. p = q
  BY <1>4, <1>5, <1>6, OnlyWriter
<1>8. u = proc[q].cur /\ k = j
  BY <1>1, <1>4, <1>5, <1>6 DEF Write
<1> QED BY <1>4, <1>5, <1>7, <1>8 DEF Planned

(* Whoever else runs or writes, what an unforced push overwrites on the    *)
(* server is what the profile was last synced with, or has been written by *)
(* somebody else since the push compared it.                               *)
THEOREM PushOverwritesCompared ==
    Spec => [][\A p \in Procs, u \in Users, k \in Keys :
                 /\ Acts(p) /\ proc[p].pc = "apply" /\ ~proc[p].force
                 /\ server'[u][k] # server[u][k]
                 => <<u, k>> \in proc[p].touched \/ Agrees(proc[p].plan[u], u, k)]_vars
<1>1. CInv /\ [Next]_vars =>
        [\A p \in Procs, u \in Users, k \in Keys :
          /\ Acts(p) /\ proc[p].pc = "apply" /\ ~proc[p].force
          /\ server'[u][k] # server[u][k]
          => <<u, k>> \in proc[p].touched \/ Agrees(proc[p].plan[u], u, k)]_vars
  BY AppliesAChange, CheckedImplies DEF PushIsChecked
<1> QED BY <1>1, InitChecked, NextChecked, PTL DEF Spec

(* A step of p that leaves a value on the server where it was not is one   *)
(* that sets a key.                                                        *)
LEMMA SetsAKey ==
    ASSUME CInv, Next, NEW p \in Procs, Acts(p), NEW u \in Users, NEW k \in Keys,
           server'[u][k] # server[u][k], server'[u][k] # None
    PROVE  ApplySet(p)
<1>1. None \notin Procs /\ server \in [Users -> [Keys -> Stored \cup {None}]]
  BY NoneAssumption DEF CInv, IInv, SharedOK
<1>2. ~ExternalWrite
  BY <1>1, OnlyWriter DEF ExternalWrite
<1>3. PICK q \in Procs : ApplyDelete(q) \/ ApplySet(q)
  BY <1>2 DEF Next, Start, Work, RpcFails, Crash, PullList, PullNext, PullEnds, FetchKey,
         AskSecret, PullSkips, PullSave, EditLoad, EditList, EditReload, EditSave, EditQuits,
         PushSelect, PushLoad, PushCheckList, PushCheckKey, PushStops, PushConfirmed, PushSave,
         NewExists, NewList, NewSave
<1>4. proc[q].cur \in Users /\ proc[q].plan[proc[q].cur] # None
  BY <1>3, OwnMemory DEF CInv, MemoryOK, WithUser, WithPlan, ApplyDelete, ApplySet
<1>5. PICK j, stored, me :
         /\ j \in Keys
         /\ Write(q, proc[q].cur, j, stored, me)
         /\ ApplyDelete(q) => stored = None
         /\ ~ApplyDelete(q) => ApplySet(q)
  <2>1. CASE ApplyDelete(q)
    BY <2>1 DEF ApplyDelete, Applied, Deleted
  <2>2. CASE ~ApplyDelete(q)
    BY <1>3, <2>2 DEF ApplySet, Applied, Added, Modified
  <2> QED BY <2>1, <2>2
<1>6. p = q
  BY <1>4, <1>5, OnlyWriter
<1>7. server' = [server EXCEPT ![proc[q].cur][j] = stored]
  BY <1>5 DEF Write
<1>8. server'[u][k] = server[u][k] \/ server'[u][k] = stored
  BY <1>1, <1>4, <1>7
<1> QED BY <1>5, <1>6, <1>8

(* What is set in the clear was last synced in the clear.                  *)
LEMMA PlainWasPlain ==
    ASSUME CInv, NEW p \in Procs, ApplySet(p), NEW u \in Users, NEW k \in Keys,
           server'[u][k] # server[u][k], ~IsEncrypted(server'[u][k])
    PROVE  LET prof == proc[p].plan[u]
           IN  /\ prof # None /\ prof \in Profile /\ Sound(prof)
               /\ k \in Modified(prof) /\ ~prof.base[k].encrypted
<1> DEFINE me      == proc[p]
           prof    == me.plan[me.cur]
           v(j)    == prof.values[j]
           enc(j)  == EncryptsOnPush(prof, j)
           what(j) == IF enc(j) THEN Seal(v(j), me.known[me.cur], nonce + 1) ELSE PlainOf(v(j))
<1>1. PICK j \in Added(prof) \cup Modified(prof), lost \in BOOLEAN :
          Applied(p, j, what(j), Synced(v(j), what(j), enc(j)), lost)
  BY DEF ApplySet
<1>2. MemoryOK(me) /\ me \in ProcState /\ me.pc = "apply"
  BY OwnMemory DEF CInv, ApplySet
<1>3. me.cur \in Users /\ prof # None /\ Sound(prof) /\ j \in Keys
  BY <1>2 DEF MemoryOK, WithUser, WithPlan, Added, Modified
<1>4. prof \in Profile
  BY <1>2, <1>3 DEF ProcState
<1>5. server' = [server EXCEPT ![me.cur][j] = what(j)]
  BY <1>1 DEF Applied, Write
<1>6. server \in [Users -> [Keys -> Stored \cup {None}]]
  BY DEF CInv, IInv, SharedOK
<1> HIDE DEF what
<1>7. u = me.cur /\ k = j /\ server'[u][k] = what(k)
  BY <1>3, <1>5, <1>6
<1>8. ASSUME enc(k) PROVE IsEncrypted(what(k))
  <2>1. NeedsSecret(prof)
    BY <1>1, <1>7, <1>8 DEF EncryptsOnPush, NeedsSecret, Added, Modified
  <2>2. me.known[me.cur] \in Secrets
    BY <1>2, <1>3, <2>1 DEF MemoryOK, ProcState
  <2> QED BY <1>8, <2>2, NoneAssumption DEF what, Seal, IsEncrypted
<1>9. ~enc(k)
  BY <1>7, <1>8
<1>10. k \in Modified(prof) /\ ~prof.base[k].encrypted
  BY <1>1, <1>7, <1>9 DEF EncryptsOnPush, Added, Modified
<1> QED BY <1>3, <1>4, <1>7, <1>10

(* An unforced push has compared it, so it is in the clear on the server   *)
(* still.                                                                  *)
LEMMA PlainStaysPlain ==
    ASSUME CInv, Next, NEW p \in Procs, Acts(p), proc[p].pc = "apply", ~proc[p].force,
           NEW u \in Users, NEW k \in Keys, <<u, k>> \notin proc[p].touched,
           server'[u][k] # server[u][k], server'[u][k] # None, ~IsEncrypted(server'[u][k])
    PROVE  \/ server[u][k] # None /\ ~IsEncrypted(server[u][k])
           \/ server[u][k] = None /\ proc[p].plan[u].base[k] = StateOf(PlainOf(Empty))
<1> DEFINE prof == proc[p].plan[u]
<1>1. /\ prof # None /\ Sound(prof)
      /\ k \in Modified(prof) /\ ~prof.base[k].encrypted
  BY SetsAKey, PlainWasPlain
<1>2. k \in Changed(prof) /\ k \notin Deleted(prof) /\ prof.base[k] # None
  BY <1>1 DEF Changed, Modified, Deleted
<1>3. Agrees(prof, u, k)
  BY <1>1, <1>2, CheckedImplies DEF PushIsChecked, Planned
<1>4. Got(server[u][k]) = prof.base[k].remote
  BY <1>2, <1>3 DEF Agrees
<1>5. prof.base[k] = StateOf(Got(server[u][k]))
  BY <1>1, <1>2, <1>4 DEF Sound
<1>6. ~IsEncrypted(Got(server[u][k]))
  BY <1>1, <1>5 DEF StateOf
<1> HIDE DEF prof
<1> QED BY <1>5, <1>6 DEF Got, prof

(* Whatever the other processes and the foreign writers do, an unforced    *)
(* push turns no ciphertext it has compared into plaintext, and stores a   *)
(* new key encrypted.                                                      *)
THEOREM PushSecrecy == Spec => PushKeepsSecrecy
<1>1. CInv /\ [Next]_vars =>
        [\A p \in Procs, u \in Users, k \in Keys :
          /\ Acts(p) /\ proc[p].pc = "apply"
          /\ server'[u][k] # server[u][k] /\ server'[u][k] # None
          /\ ~IsEncrypted(server'[u][k])
          => \/ proc[p].force \/ <<u, k>> \in proc[p].touched
             \/ server[u][k] # None /\ ~IsEncrypted(server[u][k])
             \/ server[u][k] = None /\ proc[p].plan[u].base[k] = StateOf(PlainOf(Empty))]_vars
  BY PlainStaysPlain
<1> QED BY <1>1, InitChecked, NextChecked, PTL DEF Spec, PushKeepsSecrecy
=============================================================================
