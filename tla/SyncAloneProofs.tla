--------------------------- MODULE SyncAloneProofs ---------------------------
(***************************************************************************)
(* What holds of the admin workflow while commands run one at a time, for  *)
(* any number of users, keys and events: no unpushed edit is lost, every   *)
(* secret that is needed is in the store, a pull overwrites no edit, and   *)
(* without foreign writers a push overwrites only what was last synced; if *)
(* no answer is lost and nothing crashes either, the profiles say what is  *)
(* on the server.                                                          *)
(***************************************************************************)
EXTENDS ProfileSyncProofs

OneAtATime == \E p \in Procs : \A q \in Procs : q = p

(* Nobody else writes, and nothing is lost or killed.                      *)
Undisturbed == Limit["external"] = 0 /\ Limit["lost"] = 0 /\ Limit["crash"] = 0

Pushing == {"plan", "checkList", "check", "apply", "saveFailed"}

(* The secret s opens what prof was last synced with.                      *)
Covered(prof, s) ==
    \A k \in Keys : prof.base[k] # None /\ prof.base[k].encrypted => s = prof.base[k].remote.enc

(* What a command holds against files and secrets: it knows the saved      *)
(* secrets, they open what it holds and what is on disk, the values it     *)
(* pushes are those on disk, it fetches only over a file without changes,  *)
(* creates only where there is no file and edits only where there is one.  *)
KeepOK(me, f, s) ==
    /\ me.pc # "idle" => me.known = s
    /\ \A u \in Users : f[u] # None => Covered(f[u], s[u])
    /\ \A u \in Users : me.plan[u] # None => Covered(me.plan[u], s[u])
    /\ me.pc = "select" => \A u \in Users : me.plan[u] = None
    /\ me.pc \in Pushing => \A u \in Users :
          me.plan[u] # None => f[u] # None /\ me.plan[u].values = f[u].values
    /\ me.pc \in {"editList", "fetch", "build"} /\ ~me.force =>
          f[me.cur] = None \/ Changed(f[me.cur]) = {}
    /\ me.pc \in {"newList", "newSave"} => f[me.cur] = None
    /\ me.pc = "editor" => f[me.cur] # None

(* The last sync of prof is what the server holds for the user.            *)
Matches(prof, there) ==
    \A k \in Keys : there[k] = IF prof.base[k] = None THEN None ELSE prof.base[k].remote

(* What an undisturbed command holds against the server: every profile in  *)
(* memory matches it, and on disk all but the one being applied; what is   *)
(* listed and fetched is there.                                            *)
RecordOK(me, f, srv) ==
    /\ \A u \in Users : me.plan[u] # None => Matches(me.plan[u], srv[u])
    /\ \A u \in Users : f[u] # None =>
          \/ Matches(f[u], srv[u])
          \/ me.pc \in {"apply", "saveFailed"} /\ u = me.cur
    /\ me.pc \in {"editLoad", "editList", "next", "fetch", "build"} => \A u \in Users :
          me.listed[u] = {} \/ me.listed[u] = {k \in Keys : srv[u][k] # None}
    /\ me.pc \notin {"fetch", "build"} => \A k \in Keys : me.got[k] = None
    /\ me.pc = "fetch" => \A k \in Keys : IF k \in me.keys THEN srv[me.cur][k] # None
                                          ELSE me.got[k] = srv[me.cur][k]
    /\ me.pc = "build" => \A k \in Keys : me.got[k] = srv[me.cur][k]
    /\ me.pc = "newSave" => \A k \in Keys : srv[me.cur][k] = None

AloneOK(me, f, s, srv) == KeepOK(me, f, s) /\ (Undisturbed => RecordOK(me, f, srv))

AInv == IInv /\ \A p \in Procs : AloneOK(proc[p], file, secrets, server)

-----------------------------------------------------------------------------
LEMMA AlonePrimed ==
    ASSUME IInv', \A p \in Procs : AloneOK(proc'[p], file', secrets', server')
    PROVE  AInv'
<1>1. \A p \in Procs : AloneOK(proc[p], file, secrets, server)'
                         <=> AloneOK(proc'[p], file', secrets', server')
  BY DEF AloneOK, KeepOK, RecordOK, Covered, Matches, Changed, Added, Modified, Deleted,
         Undisturbed
<1> QED BY <1>1 DEF AInv

LEMMA StepAlone ==
    ASSUME OneAtATime, AInv, IInv', NEW p \in Procs, NEW me, Step(p, me),
           AloneOK(me, file', secrets', server')
    PROVE  AInv'
<1>1. proc \in [Procs -> ProcState] /\ proc' = [proc EXCEPT ![p] = me]
  BY DEF AInv, IInv, Step
<1>2. \A q \in Procs : proc'[q] = me
  BY <1>1 DEF OneAtATime
<1> QED BY <1>2, AlonePrimed

(* Files, secrets and server when no command runs.                         *)
Settled(f, s, srv) ==
    \A u \in Users : f[u] # None => /\ Covered(f[u], s[u])
                                    /\ Undisturbed => Matches(f[u], srv[u])

LEMMA IdleAlone ==
    ASSUME NEW f, NEW s, NEW srv, Settled(f, s, srv)
    PROVE  AloneOK(Idle, f, s, srv)
<1>1. /\ Idle.pc = "idle" /\ \A u \in Users : Idle.plan[u] = None
      /\ \A k \in Keys : Idle.got[k] = None
  BY DEF Idle
<1> QED BY <1>1 DEF AloneOK, KeepOK, RecordOK, Settled, Pushing

LEMMA EndAlone ==
    ASSUME OneAtATime, AInv, IInv', NEW p \in Procs, End(p), Settled(file', secrets', server')
    PROVE  AInv'
  BY IdleAlone, StepAlone DEF End

(* Outside of applying, what a running command needs is settled.           *)
LEMMA RunningSettled ==
    ASSUME NEW me, NEW f, NEW s, NEW srv, AloneOK(me, f, s, srv),
           me.pc \notin {"apply", "saveFailed"}
    PROVE  Settled(f, s, srv)
  BY DEF AloneOK, KeepOK, RecordOK, Settled

LEMMA OwnAlone ==
    ASSUME AInv, NEW p \in Procs
    PROVE  /\ AloneOK(proc[p], file, secrets, server)
           /\ MemoryOK(proc[p]) /\ proc[p] \in ProcState /\ proc[p].todo \subseteq WithFile
  BY OwnMemory DEF AInv

(* A command that ends without a change to anything shared.                *)
LEMMA QuitAlone ==
    ASSUME OneAtATime, AInv, IInv', NEW p \in Procs, End(p),
           UNCHANGED <<server, file, secrets>>, proc[p].pc \notin {"apply", "saveFailed"}
    PROVE  AInv'
  BY OwnAlone, RunningSettled, EndAlone

-----------------------------------------------------------------------------
(* start and pull                                                          *)

LEMMA StartAlone ==
    ASSUME OneAtATime, AInv, IInv', NEW p \in Procs, Start(p)
    PROVE  AInv'
<1> DEFINE new(c, only, f) == [Idle EXCEPT !.pc = FirstStep[c], !.cmd = c, !.force = f,
                                           !.cur = only, !.known = secrets]
<1>1. PICK c \in Commands, only \in Users \cup {None}, f \in BOOLEAN :
          Step(p, new(c, only, f))
  BY DEF Start
<1>2. proc[p].pc = "idle" /\ UNCHANGED <<server, file, secrets>>
  BY DEF Start
<1>3. Settled(file, secrets, server)
  BY <1>2, OwnAlone, RunningSettled
<1>4. FirstStep[c] \in {"list", "select", "editLoad", "newExists"}
  BY DEF FirstStep, Commands
<1>5. /\ new(c, only, f).pc = FirstStep[c] /\ new(c, only, f).known = secrets
      /\ \A u \in Users : new(c, only, f).plan[u] = None /\ new(c, only, f).listed[u] = {}
      /\ \A k \in Keys : new(c, only, f).got[k] = None
  BY DEF Idle
<1> HIDE DEF new
<1>6. AloneOK(new(c, only, f), file, secrets, server)
  BY <1>3, <1>4, <1>5 DEF AloneOK, KeepOK, RecordOK, Settled, Pushing
<1> QED BY <1>1, <1>2, <1>6, StepAlone

LEMMA PullListAlone ==
    ASSUME OneAtATime, AInv, IInv', NEW p \in Procs, PullList(p)
    PROVE  AInv'
<1> DEFINE me     == proc[p]
           listed == [u \in Users |-> IF me.cur \in {None, u} THEN OnServer(u) ELSE {}]
           new    == [me EXCEPT !.pc = "next", !.listed = listed, !.cur = None]
<1>1. me.pc = "list" /\ (End(p) \/ Step(p, new)) /\ UNCHANGED <<server, file, secrets>>
  BY DEF PullList
<1>2. AloneOK(me, file, secrets, server) /\ me \in ProcState
  BY OwnAlone
<1>3. \A u \in Users : listed[u] = {} \/ listed[u] = {k \in Keys : server[u][k] # None}
  BY DEF OnServer
<1>4. End(p) => AInv'
  BY <1>1, QuitAlone
<1> HIDE DEF me, listed
<1>5. /\ new.pc = "next" /\ new.listed = listed
      /\ new.plan = me.plan /\ new.known = me.known /\ new.got = me.got
  BY <1>2 DEF ProcState
<1> HIDE DEF new
<1>6. AloneOK(new, file, secrets, server)
  BY <1>1, <1>2, <1>3, <1>5 DEF AloneOK, KeepOK, RecordOK, Pushing
<1> QED BY <1>1, <1>4, <1>6, StepAlone

LEMMA PullNextAlone ==
    ASSUME OneAtATime, AInv, IInv', NEW p \in Procs, PullNext(p)
    PROVE  AInv'
<1> DEFINE me       == proc[p]
           skip(u)  == [me EXCEPT !.listed[u] = {}]
           fetch(u) == [me EXCEPT !.pc = "fetch", !.cur = u,
                                  !.keys = me.listed[u], !.listed[u] = {}]
<1>1. me.pc = "next" /\ UNCHANGED <<server, file, secrets>>
  BY DEF PullNext
<1>2. PICK u \in Users :
         /\ me.listed[u] # {}
         /\ Step(p, skip(u)) \/ (~KeepsLocal(me, u) /\ Step(p, fetch(u)))
  BY DEF PullNext
<1>3. AloneOK(me, file, secrets, server) /\ me \in ProcState
  BY OwnAlone
<1>4. ~KeepsLocal(me, u) => me.force \/ file[u] = None \/ Changed(file[u]) = {}
  BY DEF KeepsLocal
<1> HIDE DEF me
<1>5. /\ skip(u).pc = "next" /\ skip(u).plan = me.plan /\ skip(u).known = me.known
      /\ skip(u).got = me.got
      /\ \A w \in Users : skip(u).listed[w] = IF w = u THEN {} ELSE me.listed[w]
  BY <1>1, <1>3 DEF ProcState
<1>6. /\ fetch(u).pc = "fetch" /\ fetch(u).plan = me.plan /\ fetch(u).known = me.known
      /\ fetch(u).got = me.got /\ fetch(u).cur = u /\ fetch(u).keys = me.listed[u]
      /\ fetch(u).force = me.force
      /\ \A w \in Users : fetch(u).listed[w] = IF w = u THEN {} ELSE me.listed[w]
  BY <1>3 DEF ProcState
<1> HIDE DEF skip, fetch
<1>7. AloneOK(skip(u), file, secrets, server)
  BY <1>1, <1>3, <1>5 DEF AloneOK, KeepOK, RecordOK, Pushing
<1>8. ASSUME ~KeepsLocal(me, u) PROVE AloneOK(fetch(u), file, secrets, server)
  <2>1. KeepOK(fetch(u), file, secrets)
    BY <1>1, <1>3, <1>4, <1>6, <1>8 DEF AloneOK, KeepOK, Pushing
  <2>2. RecordOK(me, file, server) => RecordOK(fetch(u), file, server)
    BY <1>1, <1>2, <1>6 DEF RecordOK
  <2> QED BY <1>3, <2>1, <2>2 DEF AloneOK
<1> QED BY <1>1, <1>2, <1>7, <1>8, StepAlone

LEMMA FetchKeyAlone ==
    ASSUME OneAtATime, AInv, IInv', NEW p \in Procs, FetchKey(p)
    PROVE  AInv'
<1> DEFINE me     == proc[p]
           new(k) == [me EXCEPT !.keys = @ \ {k},
                                !.got[k] = Got(server[me.cur][k]),
                                !.pc = IF me.keys = {k} THEN "build" ELSE "fetch"]
<1>1. me.pc = "fetch" /\ UNCHANGED <<server, file, secrets>>
  BY DEF FetchKey
<1>2. PICK k \in me.keys : Step(p, new(k))
  BY DEF FetchKey
<1>3. AloneOK(me, file, secrets, server) /\ me \in ProcState
  BY OwnAlone
<1> HIDE DEF me
<1>4. k \in Keys
  BY <1>2, <1>3 DEF ProcState
<1>5. /\ new(k).pc = (IF me.keys = {k} THEN "build" ELSE "fetch")
      /\ new(k).plan = me.plan /\ new(k).known = me.known /\ new(k).listed = me.listed
      /\ new(k).cur = me.cur /\ new(k).force = me.force /\ new(k).keys = me.keys \ {k}
      /\ \A j \in Keys : new(k).got[j] = IF j = k THEN Got(server[me.cur][k]) ELSE me.got[j]
  BY <1>3, <1>4 DEF ProcState
<1> HIDE DEF new
<1>6. KeepOK(new(k), file, secrets)
  BY <1>1, <1>3, <1>5 DEF AloneOK, KeepOK, Pushing
<1>7. ASSUME RecordOK(me, file, server) PROVE RecordOK(new(k), file, server)
  <2>1. Got(server[me.cur][k]) = server[me.cur][k]
    BY <1>1, <1>2, <1>4, <1>7 DEF RecordOK, Got
  <2>2. new(k).pc = "build" => \A j \in Keys : new(k).got[j] = server[me.cur][j]
    BY <1>1, <1>5, <1>7, <2>1 DEF RecordOK
  <2>3. new(k).pc = "fetch" => \A j \in Keys : IF j \in new(k).keys THEN server[me.cur][j] # None
                                               ELSE new(k).got[j] = server[me.cur][j]
    BY <1>1, <1>5, <1>7, <2>1 DEF RecordOK
  <2> QED BY <1>1, <1>5, <1>7, <2>2, <2>3 DEF RecordOK
<1>8. AloneOK(new(k), file, secrets, server)
  BY <1>3, <1>6, <1>7 DEF AloneOK
<1> QED BY <1>1, <1>2, <1>8, StepAlone

(* The step to the next user.                                              *)
LEMMA SkipAlone ==
    ASSUME OneAtATime, AInv, IInv', NEW p \in Procs, SkipUser(p), proc[p].pc = "build",
           UNCHANGED <<server, secrets>>, Settled(file', secrets, server)
    PROVE  AInv'
<1> DEFINE me  == proc[p]
           new == [me EXCEPT !.pc = "next", !.cur = None, !.got = Idle.got]
<1>1. End(p) \/ Step(p, new)
  BY DEF SkipUser
<1>2. AloneOK(me, file, secrets, server) /\ me \in ProcState /\ me.pc = "build"
  BY OwnAlone
<1>3. \A k \in Keys : Idle.got[k] = None
  BY DEF Idle
<1>4. End(p) => AInv'
  BY EndAlone
<1> HIDE DEF me
<1>5. /\ new.pc = "next" /\ new.plan = me.plan /\ new.known = me.known
      /\ new.listed = me.listed /\ new.got = Idle.got
  BY <1>2 DEF ProcState
<1> HIDE DEF new
<1>6. AloneOK(new, file', secrets, server)
  BY <1>2, <1>3, <1>5 DEF AloneOK, KeepOK, RecordOK, Settled, Pushing
<1> QED BY <1>1, <1>4, <1>6, StepAlone

LEMMA PullSkipsAlone ==
    ASSUME OneAtATime, AInv, IInv', NEW p \in Procs, PullSkips(p)
    PROVE  AInv'
<1>1. proc[p].pc = "build" /\ SkipUser(p) /\ UNCHANGED <<server, file, secrets>>
  BY DEF PullSkips
<1>2. Settled(file, secrets, server)
  BY <1>1, OwnAlone, RunningSettled
<1> QED BY <1>1, <1>2, SkipAlone

(* A secret that is learned or generated where none was known: nothing     *)
(* held or on disk was sealed.                                             *)
LEMMA NothingSealed ==
    ASSUME NEW prof, Sound(prof), Covered(prof, None), NEW s
    PROVE  Covered(prof, s)
<1>1. \A x : StateOf(x).remote = x /\ (StateOf(x).encrypted <=> x.enc # None)
  BY DEF StateOf, IsEncrypted
<1> QED BY <1>1 DEF Covered, Sound

LEMMA Learns ==
    ASSUME AInv, NEW p \in Procs, proc[p].pc \in {"build", "newList"},
           proc[p].known[proc[p].cur] = None, NEW s \in Secrets
    PROVE  LET known == [proc[p].known EXCEPT ![proc[p].cur] = s]
           IN  \A u \in Users : /\ file[u] # None => Covered(file[u], known[u])
                                /\ proc[p].plan[u] # None => Covered(proc[p].plan[u], known[u])
<1> DEFINE me    == proc[p]
           known == [me.known EXCEPT ![me.cur] = s]
<1>1. AloneOK(me, file, secrets, server) /\ MemoryOK(me) /\ me \in ProcState /\ BaseConsistent
  BY OwnAlone DEF AInv, IInv, SharedOK
<1>2. me.cur \in Users /\ me.known = secrets
  BY <1>1 DEF MemoryOK, WithUser, AloneOK, KeepOK
<1>3. \A u \in Users : known[u] = IF u = me.cur THEN s ELSE secrets[u]
  BY <1>1, <1>2 DEF ProcState
<1> HIDE DEF known
<1> SUFFICES ASSUME NEW u \in Users
             PROVE  /\ file[u] # None => Covered(file[u], known[u])
                    /\ me.plan[u] # None => Covered(me.plan[u], known[u])
  BY DEF known
<1>4. file[u] # None => Sound(file[u]) /\ Covered(file[u], secrets[u])
  BY <1>1 DEF AloneOK, KeepOK, BaseConsistent
<1>5. me.plan[u] # None => Sound(me.plan[u]) /\ Covered(me.plan[u], secrets[u])
  BY <1>1 DEF AloneOK, KeepOK, MemoryOK
<1>6. CASE u = me.cur
  BY <1>2, <1>3, <1>4, <1>5, <1>6, NothingSealed
<1>7. CASE u # me.cur
  BY <1>3, <1>4, <1>5, <1>7
<1> QED BY <1>6, <1>7

LEMMA AskSecretAlone ==
    ASSUME OneAtATime, AInv, IInv', NEW p \in Procs, AskSecret(p)
    PROVE  AInv'
<1> DEFINE me       == proc[p]
           known(s) == [me.known EXCEPT ![me.cur] = s]
           new(s)   == [me EXCEPT !.known = known(s)]
<1>1. me.pc = "build" /\ me.known[me.cur] = None /\ UNCHANGED <<server, file>>
  BY DEF AskSecret
<1>2. PICK k \in Encrypted(me.got) :
          secrets' = known(me.got[k].enc) /\ Step(p, new(me.got[k].enc))
  BY DEF AskSecret
<1>3. AloneOK(me, file, secrets, server) /\ me \in ProcState
  BY OwnAlone
<1>4. me.got[k] \in Stored /\ me.got[k].enc # None
  BY <1>2, <1>3 DEF Encrypted, IsEncrypted, ProcState
<1>5. PICK s \in Secrets : secrets' = known(s) /\ Step(p, new(s))
  BY <1>2, <1>4 DEF Stored
<1>6. \A u \in Users : /\ file[u] # None => Covered(file[u], known(s)[u])
                       /\ me.plan[u] # None => Covered(me.plan[u], known(s)[u])
  BY <1>1, Learns
<1> HIDE DEF me, known
<1>7. /\ new(s).pc = "build" /\ new(s).plan = me.plan /\ new(s).known = known(s)
      /\ new(s).listed = me.listed /\ new(s).got = me.got /\ new(s).cur = me.cur
      /\ new(s).force = me.force /\ new(s).keys = me.keys
  BY <1>1, <1>3 DEF ProcState
<1> HIDE DEF new
<1>8. KeepOK(new(s), file, known(s))
  BY <1>1, <1>3, <1>6, <1>7 DEF AloneOK, KeepOK, Pushing
<1>9. RecordOK(me, file, server) => RecordOK(new(s), file, server)
  BY <1>1, <1>7 DEF RecordOK
<1>10. AloneOK(new(s), file, known(s), server)
  BY <1>3, <1>8, <1>9 DEF AloneOK
<1> QED BY <1>1, <1>5, <1>10, StepAlone

(* A profile takes its place on disk.                                      *)
LEMMA FileAt ==
    ASSUME AInv, NEW u \in Users, NEW prof, file' = [file EXCEPT ![u] = prof]
    PROVE  \A w \in Users : file'[w] = IF w = u THEN prof ELSE file[w]
  BY DEF AInv, IInv, SharedOK

(* What a pull makes of what it fetched.                                   *)
LEMMA PulledFits ==
    ASSUME NEW got \in [Keys -> Stored \cup {None}], NEW s,
           \A k \in Encrypted(got) : got[k].enc = s
    PROVE  Covered(Pulled(got), s)
<1>1. \A k \in Keys : Pulled(got).base[k] = IF got[k] = None THEN None ELSE StateOf(got[k])
  BY DEF Pulled
<1>2. \A x : StateOf(x).remote = x /\ StateOf(x).encrypted = IsEncrypted(x)
  BY DEF StateOf
<1> QED BY <1>1, <1>2 DEF Covered, Encrypted

LEMMA PulledMatches ==
    ASSUME NEW got \in [Keys -> Stored \cup {None}], NEW there,
           \A k \in Keys : got[k] = there[k]
    PROVE  Matches(Pulled(got), there)
<1>1. \A k \in Keys : Pulled(got).base[k] = IF got[k] = None THEN None ELSE StateOf(got[k])
  BY DEF Pulled
<1>2. \A x \in Stored : StateOf(x) # None
  BY StateOfType, NoneAssumption
<1>3. \A x : StateOf(x).remote = x
  BY DEF StateOf
<1> QED BY <1>1, <1>2, <1>3 DEF Matches

LEMMA PullSaveAlone ==
    ASSUME OneAtATime, AInv, IInv', NEW p \in Procs, PullSave(p)
    PROVE  AInv'
<1> DEFINE me   == proc[p]
           prof == Pulled(me.got)
           new  == [me EXCEPT !.pc = "editReload", !.got = Idle.got]
<1>1. /\ me.pc = "build" /\ (SkipUser(p) \/ Step(p, new)) /\ UNCHANGED <<server, secrets>>
      /\ \A k \in Encrypted(me.got) : me.got[k].enc = me.known[me.cur]
  BY DEF PullSave
<1>2. file' = [file EXCEPT ![me.cur] = prof]
  BY DEF PullSave
<1>3. AloneOK(me, file, secrets, server) /\ MemoryOK(me) /\ me \in ProcState
  BY OwnAlone
<1>4. me.cur \in Users /\ me.got \in [Keys -> Stored \cup {None}]
  BY <1>1, <1>3 DEF MemoryOK, WithUser, ProcState
<1>5. Covered(prof, secrets[me.cur])
  BY <1>1, <1>3, <1>4, PulledFits DEF AloneOK, KeepOK
<1>6. ASSUME Undisturbed PROVE Matches(prof, server[me.cur])
  <2>1. \A k \in Keys : me.got[k] = server[me.cur][k]
    BY <1>1, <1>3, <1>6 DEF AloneOK, RecordOK
  <2> QED BY <1>4, <2>1, PulledMatches
<1> HIDE DEF prof
<1>7. \A w \in Users : file'[w] = IF w = me.cur THEN prof ELSE file[w]
  <2>1. me.cur \in Users
    BY <1>4
  <2> QED BY <1>2, <2>1, FileAt
<1>8. Settled(file, secrets, server)
  BY <1>1, <1>3, RunningSettled
<1>9. Settled(file', secrets, server)
  BY <1>7, <1>5, <1>6, <1>8 DEF Settled
<1>10. SkipUser(p) => AInv'
  BY <1>1, <1>9, SkipAlone
<1>11. \A k \in Keys : Idle.got[k] = None
  BY DEF Idle
<1> HIDE DEF me
<1>12. /\ new.pc = "editReload" /\ new.plan = me.plan /\ new.known = me.known
       /\ new.got = Idle.got
  BY <1>3 DEF ProcState
<1> HIDE DEF new
<1>13. AloneOK(new, file', secrets, server)
  BY <1>1, <1>3, <1>9, <1>11, <1>12 DEF AloneOK, KeepOK, RecordOK, Settled, Pushing
<1> QED BY <1>1, <1>10, <1>13, StepAlone

-----------------------------------------------------------------------------
(* edit                                                                    *)

(* The editor opens on the file.                                           *)
LEMMA OpenEditorAlone ==
    ASSUME OneAtATime, AInv, IInv', NEW p \in Procs,
           proc[p].pc \in {"editLoad", "editReload"}, file[proc[p].cur] # None,
           Step(p, [proc[p] EXCEPT !.pc = "editor", !.plan[proc[p].cur] = file[proc[p].cur]]),
           UNCHANGED <<server, file, secrets>>
    PROVE  AInv'
<1> DEFINE me   == proc[p]
           prof == file[me.cur]
           new  == [me EXCEPT !.pc = "editor", !.plan[me.cur] = prof]
<1>1. AloneOK(me, file, secrets, server) /\ MemoryOK(me) /\ me \in ProcState
  BY OwnAlone
<1>2. me.cur \in Users
  BY <1>1 DEF MemoryOK, WithUser
<1>3. Covered(prof, secrets[me.cur]) /\ (Undisturbed => Matches(prof, server[me.cur]))
  BY <1>1, <1>2 DEF AloneOK, KeepOK, RecordOK
<1>4. me.pc \in {"editLoad", "editReload"} /\ Step(p, new) /\ prof = file[me.cur] /\ prof # None
  OBVIOUS
<1> HIDE DEF me, prof
<1>5. /\ new.pc = "editor" /\ new.known = me.known /\ new.got = me.got /\ new.cur = me.cur
      /\ \A u \in Users : new.plan[u] = IF u = me.cur THEN prof ELSE me.plan[u]
  BY <1>1, <1>2 DEF ProcState
<1> HIDE DEF new
<1>6. AloneOK(new, file, secrets, server)
  BY <1>1, <1>3, <1>4, <1>5 DEF AloneOK, KeepOK, RecordOK, Pushing
<1> QED BY <1>4, <1>6, StepAlone

LEMMA EditLoadAlone ==
    ASSUME OneAtATime, AInv, IInv', NEW p \in Procs, EditLoad(p)
    PROVE  AInv'
<1> DEFINE me  == proc[p]
           new == [me EXCEPT !.pc = "editList"]
<1>1. CASE file[me.cur] # None /\ Changed(file[me.cur]) # {}
  BY <1>1, OpenEditorAlone DEF EditLoad
<1>2. CASE ~(file[me.cur] # None /\ Changed(file[me.cur]) # {})
  <2>1. me.pc = "editLoad" /\ Step(p, new) /\ UNCHANGED <<server, file, secrets>>
    BY <1>2 DEF EditLoad
  <2>2. AloneOK(me, file, secrets, server) /\ me \in ProcState
    BY OwnAlone
  <2>3. file[me.cur] = None \/ Changed(file[me.cur]) = {}
    BY <1>2
  <2> HIDE DEF me
  <2>4. /\ new.pc = "editList" /\ new.plan = me.plan /\ new.known = me.known
        /\ new.got = me.got /\ new.listed = me.listed /\ new.cur = me.cur
    BY <2>2 DEF ProcState
  <2> HIDE DEF new
  <2>5. AloneOK(new, file, secrets, server)
    BY <2>1, <2>2, <2>3, <2>4 DEF AloneOK, KeepOK, RecordOK, Pushing
  <2> QED BY <2>1, <2>5, StepAlone
<1> QED BY <1>1, <1>2

LEMMA EditListAlone ==
    ASSUME OneAtATime, AInv, IInv', NEW p \in Procs, EditList(p)
    PROVE  AInv'
<1> DEFINE me     == proc[p]
           there  == OnServer(me.cur)
           fetch  == [me EXCEPT !.pc = "fetch", !.keys = there]
           reload == [me EXCEPT !.pc = "editReload"]
<1>1. /\ me.pc = "editList" /\ (Step(p, fetch) \/ Step(p, reload))
      /\ UNCHANGED <<server, file, secrets>>
  BY DEF EditList
<1>2. AloneOK(me, file, secrets, server) /\ me \in ProcState
  BY OwnAlone
<1>3. there = {k \in Keys : server[me.cur][k] # None}
  BY DEF OnServer
<1> HIDE DEF me, there
<1>4. /\ fetch.pc = "fetch" /\ fetch.plan = me.plan /\ fetch.known = me.known
      /\ fetch.got = me.got /\ fetch.listed = me.listed /\ fetch.cur = me.cur
      /\ fetch.keys = there /\ fetch.force = me.force
  BY <1>2 DEF ProcState
<1>5. /\ reload.pc = "editReload" /\ reload.plan = me.plan /\ reload.known = me.known
      /\ reload.got = me.got
  BY <1>2 DEF ProcState
<1> HIDE DEF fetch, reload
<1>6. AloneOK(fetch, file, secrets, server)
  BY <1>1, <1>2, <1>3, <1>4 DEF AloneOK, KeepOK, RecordOK, Pushing
<1>7. AloneOK(reload, file, secrets, server)
  BY <1>1, <1>2, <1>5 DEF AloneOK, KeepOK, RecordOK, Pushing
<1> QED BY <1>1, <1>6, <1>7, StepAlone

LEMMA EditReloadAlone ==
    ASSUME OneAtATime, AInv, IInv', NEW p \in Procs, EditReload(p)
    PROVE  AInv'
<1>1. CASE file[proc[p].cur] = None
  BY <1>1, QuitAlone DEF EditReload
<1>2. CASE file[proc[p].cur] # None
  BY <1>2, OpenEditorAlone DEF EditReload
<1> QED BY <1>1, <1>2

LEMMA EditSaveAlone ==
    ASSUME OneAtATime, AInv, IInv', NEW p \in Procs, EditSave(p)
    PROVE  AInv'
<1> DEFINE me      == proc[p]
           prof(v) == [me.plan[me.cur] EXCEPT !.values = v]
           new     == [me EXCEPT !.pc = "plan", !.todo = {me.cur},
                                 !.cur = None, !.plan = Idle.plan]
<1>1. me.pc = "editor" /\ UNCHANGED <<server, secrets>>
  BY DEF EditSave
<1>2. PICK v \in [Keys -> Values \cup {None}] :
          /\ file' = [file EXCEPT ![me.cur] = prof(v)]
          /\ Step(p, new) \/ End(p)
  BY DEF EditSave
<1>3. AloneOK(me, file, secrets, server) /\ MemoryOK(me) /\ me \in ProcState
  BY OwnAlone
<1>4. Idle.plan = [u \in Users |-> None]
  BY DEF Idle
<1>5. me.cur \in Users /\ me.plan[me.cur] # None
  BY <1>1, <1>3 DEF MemoryOK, WithUser, WithPlan
<1>6. prof(v).base = me.plan[me.cur].base
  BY <1>3, <1>5 DEF ProcState, Profile
<1>7. \A w \in Users : file'[w] = IF w = me.cur THEN prof(v) ELSE file[w]
  BY <1>2, <1>5, FileAt
<1>8. Settled(file, secrets, server)
  BY <1>1, <1>3, RunningSettled
<1>9. Covered(prof(v), secrets[me.cur]) /\ (Undisturbed => Matches(prof(v), server[me.cur]))
  <2>1. Covered(me.plan[me.cur], secrets[me.cur])
    BY <1>3, <1>5 DEF AloneOK, KeepOK
  <2>2. Undisturbed => Matches(me.plan[me.cur], server[me.cur])
    BY <1>1, <1>3, <1>5 DEF AloneOK, RecordOK
  <2> HIDE DEF prof, me
  <2> QED BY <1>6, <2>1, <2>2 DEF Covered, Matches
<1> HIDE DEF prof
<1>10. Settled(file', secrets, server)
  BY <1>7, <1>8, <1>9 DEF Settled
<1>11. End(p) => AInv'
  BY <1>1, <1>10, EndAlone
<1> HIDE DEF me
<1>12. /\ new.pc = "plan" /\ new.known = me.known /\ new.got = me.got
       /\ \A u \in Users : new.plan[u] = None
  BY <1>3, <1>4 DEF ProcState
<1> HIDE DEF new
<1>13. AloneOK(new, file', secrets, server)
  BY <1>1, <1>3, <1>10, <1>12 DEF AloneOK, KeepOK, RecordOK, Settled, Pushing
<1> QED BY <1>1, <1>2, <1>11, <1>13, StepAlone

LEMMA EditAlone ==
    ASSUME OneAtATime, AInv, IInv', NEW p \in Procs,
           EditLoad(p) \/ EditList(p) \/ EditReload(p) \/ EditSave(p) \/ EditQuits(p)
    PROVE  AInv'
<1>1. EditQuits(p) => AInv'
  BY QuitAlone DEF EditQuits
<1> QED BY <1>1, EditLoadAlone, EditListAlone, EditReloadAlone, EditSaveAlone

-----------------------------------------------------------------------------
(* push                                                                    *)

LEMMA PushSelectAlone ==
    ASSUME OneAtATime, AInv, IInv', NEW p \in Procs, PushSelect(p)
    PROVE  AInv'
<1> DEFINE me     == proc[p]
           new(x) == [me EXCEPT !.pc = "plan", !.todo = x, !.cur = None]
<1>1. /\ me.pc = "select" /\ (End(p) \/ \E x : Step(p, new(x)))
      /\ UNCHANGED <<server, file, secrets>>
  BY DEF PushSelect
<1>2. AloneOK(me, file, secrets, server) /\ me \in ProcState
  BY OwnAlone
<1>3. End(p) => AInv'
  BY <1>1, QuitAlone
<1> HIDE DEF me
<1>4. \A x : /\ new(x).pc = "plan" /\ new(x).plan = me.plan /\ new(x).known = me.known
             /\ new(x).got = me.got
  BY <1>2 DEF ProcState
<1> HIDE DEF new
<1>5. \A x : AloneOK(new(x), file, secrets, server)
  BY <1>1, <1>2, <1>4 DEF AloneOK, KeepOK, RecordOK, Pushing
<1> QED BY <1>1, <1>3, <1>5, StepAlone

LEMMA PushLoadAlone ==
    ASSUME OneAtATime, AInv, IInv', NEW p \in Procs, PushLoad(p)
    PROVE  AInv'
<1> DEFINE me      == proc[p]
           skip(u) == [me EXCEPT !.todo = @ \ {u}]
           load(u) == [me EXCEPT !.pc = "checkList", !.todo = @ \ {u},
                                 !.cur = u, !.plan[u] = file[u]]
<1>1. me.pc = "plan" /\ UNCHANGED <<server, file, secrets>>
  BY DEF PushLoad
<1>2. PICK u \in me.todo : Step(p, skip(u)) \/ End(p) \/ Step(p, load(u))
  BY DEF PushLoad
<1>3. AloneOK(me, file, secrets, server) /\ me \in ProcState /\ me.todo \subseteq WithFile
  BY OwnAlone
<1>4. End(p) => AInv'
  BY <1>1, QuitAlone
<1> HIDE DEF me
<1>5. u \in Users /\ file[u] # None
  BY <1>3 DEF WithFile
<1>6. /\ skip(u).pc = "plan" /\ skip(u).plan = me.plan /\ skip(u).known = me.known
      /\ skip(u).got = me.got
  BY <1>1, <1>3 DEF ProcState
<1>7. /\ load(u).pc = "checkList" /\ load(u).known = me.known /\ load(u).got = me.got
      /\ \A w \in Users : load(u).plan[w] = IF w = u THEN file[u] ELSE me.plan[w]
  BY <1>3, <1>5 DEF ProcState
<1> HIDE DEF skip, load
<1>8. AloneOK(skip(u), file, secrets, server)
  BY <1>1, <1>3, <1>6 DEF AloneOK, KeepOK, RecordOK, Pushing
<1>9. AloneOK(load(u), file, secrets, server)
  BY <1>1, <1>3, <1>5, <1>7 DEF AloneOK, KeepOK, RecordOK, Pushing
<1> QED BY <1>1, <1>2, <1>4, <1>8, <1>9, StepAlone

(* Comparing and confirming change nothing that is held.                   *)
LEMMA PushGoesOn ==
    ASSUME OneAtATime, AInv, IInv', NEW p \in Procs, UNCHANGED <<server, file, secrets>>,
           NEW new, Step(p, new), proc[p].pc \in {"plan", "checkList", "check", "apply"},
           new.pc \in Pushing, new.plan = proc[p].plan, new.known = proc[p].known,
           new.got = proc[p].got, proc[p].pc = "apply" => new.cur = proc[p].cur,
           proc[p].pc = "apply" => new.pc = "saveFailed"
    PROVE  AInv'
<1>1. AloneOK(proc[p], file, secrets, server)
  BY OwnAlone
<1>2. AloneOK(new, file, secrets, server)
  BY <1>1 DEF AloneOK, KeepOK, RecordOK, Pushing
<1> QED BY <1>2, StepAlone

LEMMA PushCheckAlone ==
    ASSUME OneAtATime, AInv, IInv', NEW p \in Procs,
           PushCheckList(p) \/ PushCheckKey(p) \/ PushStops(p) \/ PushConfirmed(p)
    PROVE  AInv'
<1> DEFINE me == proc[p]
           check(pc, ks, c, t) == [me EXCEPT !.keys = ks, !.pc = pc, !.conflict = c, !.touched = t]
           apply(u) == [me EXCEPT !.pc = "apply", !.cur = u]
<1>1. me.pc \in {"plan", "checkList", "check"} /\ UNCHANGED <<server, file, secrets>>
  BY DEF PushCheckList, PushCheckKey, PushStops, PushConfirmed
<1>2. \/ End(p)
      \/ \E pc \in {"plan", "check"} : \E ks, c, t : Step(p, check(pc, ks, c, t))
      \/ \E u : Step(p, apply(u))
  <2>1. CASE PushCheckList(p)
    BY <2>1 DEF PushCheckList
  <2>2. CASE PushCheckKey(p)
    BY <2>2 DEF PushCheckKey
  <2>3. CASE PushStops(p) \/ PushConfirmed(p)
    BY <2>3 DEF PushStops, PushConfirmed
  <2> QED BY <2>1, <2>2, <2>3
<1>3. me \in ProcState
  BY OwnAlone
<1>4. End(p) => AInv'
  BY <1>1, QuitAlone
<1>5. ASSUME NEW pc \in {"plan", "check"}, NEW ks, NEW c, NEW t, Step(p, check(pc, ks, c, t))
      PROVE  AInv'
  <2> DEFINE new == check(pc, ks, c, t)
  <2>1. /\ new.pc = pc /\ new.plan = me.plan /\ new.known = me.known /\ new.got = me.got
    BY <1>3 DEF ProcState
  <2>2. Step(p, new)
    BY <1>5
  <2> HIDE DEF new
  <2> QED BY <1>1, <2>1, <2>2, PushGoesOn DEF Pushing
<1>6. ASSUME NEW u, Step(p, apply(u)) PROVE AInv'
  <2> DEFINE new == apply(u)
  <2>1. /\ new.pc = "apply" /\ new.plan = me.plan /\ new.known = me.known /\ new.got = me.got
    BY <1>3 DEF ProcState
  <2>2. Step(p, new)
    BY <1>6
  <2> HIDE DEF new
  <2> QED BY <1>1, <2>1, <2>2, PushGoesOn DEF Pushing
<1> QED BY <1>2, <1>4, <1>5, <1>6

LEMMA NoSpend ==
    ASSUME AInv, NEW b \in Budget, Spend(b), b \in {"external", "lost", "crash"}
    PROVE  ~Undisturbed
<1>1. spent \in [Budget -> Nat]
  BY DEF AInv, IInv, SharedOK
<1> QED BY <1>1 DEF Spend, Undisturbed

LEMMA FailureAlone ==
    ASSUME OneAtATime, AInv, IInv', NEW p \in Procs, RpcFails(p) \/ Crash(p)
    PROVE  AInv'
<1> DEFINE me  == proc[p]
           new == [me EXCEPT !.pc = "saveFailed"]
<1>1. UNCHANGED <<server, file, secrets>>
  BY DEF RpcFails, Crash
<1>2. AloneOK(me, file, secrets, server) /\ me \in ProcState
  BY OwnAlone
<1>3. CASE End(p) /\ me.pc \notin {"apply", "saveFailed"}
  BY <1>1, <1>3, QuitAlone
<1>4. CASE RpcFails(p) /\ me.pc \in {"apply", "saveFailed"}
  <2>1. me.pc = "apply" /\ Step(p, new)
    BY <1>4 DEF RpcFails
  <2> HIDE DEF me
  <2>2. /\ new.pc = "saveFailed" /\ new.plan = me.plan /\ new.known = me.known
        /\ new.got = me.got /\ new.cur = me.cur
    BY <1>2 DEF ProcState
  <2> HIDE DEF new
  <2> QED BY <1>1, <2>1, <2>2, PushGoesOn DEF Pushing, me
<1>5. CASE Crash(p) /\ me.pc \in {"apply", "saveFailed"}
  <2>1. ~Undisturbed /\ End(p)
    BY <1>5, NoSpend DEF Crash, Budget
  <2>2. Settled(file, secrets, server)
    BY <1>2, <2>1 DEF Settled, AloneOK, KeepOK
  <2> QED BY <1>1, <2>1, <2>2, EndAlone
<1> QED BY <1>3, <1>4, <1>5 DEF RpcFails, Crash

LEMMA WriteAlone ==
    ASSUME OneAtATime, AInv, IInv', NEW p \in Procs, NEW u, NEW k, NEW stored, NEW me,
           Write(p, u, k, stored, me), UNCHANGED <<file, secrets>>,
           AloneOK(me, file, secrets, server')
    PROVE  AInv'
<1>1. \A q \in Procs : q = p
  BY DEF OneAtATime
<1>2. \A q \in Procs : proc'[q] = me
  BY <1>1 DEF Write
<1> QED BY <1>2, AlonePrimed

(* What is applied and recorded keeps the profile in step with the server  *)
(* and sealed under the saved secret.                                      *)
LEMMA AppliedAlone ==
    ASSUME OneAtATime, AInv, IInv', NEW p \in Procs, proc[p].pc = "apply",
           NEW k \in Keys, NEW stored, NEW state, NEW lost \in BOOLEAN,
           stored = IF state = None THEN None ELSE state.remote,
           state # None /\ state.encrypted => secrets[proc[p].cur] = state.remote.enc,
           Applied(p, k, stored, state, lost), UNCHANGED <<file, secrets>>
    PROVE  AInv'
<1> DEFINE me     == proc[p]
           u      == me.cur
           old    == me.plan[u]
           prof   == [old EXCEPT !.base[k] = state]
           failed == [me EXCEPT !.pc = "saveFailed"]
           done   == [me EXCEPT !.plan[u] = prof]
<1>1. AloneOK(me, file, secrets, server) /\ MemoryOK(me) /\ me \in ProcState /\ me.pc = "apply"
  BY OwnAlone
<1>2. u \in Users /\ old # None
  BY <1>1 DEF MemoryOK, WithUser, WithPlan
<1>3. old \in Profile
  BY <1>1, <1>2 DEF ProcState
<1>4. \/ Spend("lost") /\ Write(p, u, k, stored, failed)
      \/ Write(p, u, k, stored, done)
  BY DEF Applied
<1>5. /\ prof.values = old.values
      /\ \A j \in Keys : prof.base[j] = IF j = k THEN state ELSE old.base[j]
  BY <1>3 DEF Profile
<1>6. ASSUME Write(p, u, k, stored, done)
      PROVE  \A w \in Users, j \in Keys :
                server'[w][j] = IF w = u /\ j = k THEN stored ELSE server[w][j]
  BY <1>2, <1>6 DEF Write, AInv, IInv, SharedOK
<1>7. Covered(prof, secrets[u])
  BY <1>1, <1>2, <1>5 DEF AloneOK, KeepOK, Covered
<1>8. ASSUME Write(p, u, k, stored, done), Undisturbed
      PROVE  Matches(prof, server'[u])
  <2>1. Matches(old, server[u])
    BY <1>1, <1>2, <1>8 DEF AloneOK, RecordOK
  <2> QED BY <1>2, <1>5, <1>6, <1>8, <2>1 DEF Matches
<1>9. ASSUME Spend("lost"), Write(p, u, k, stored, failed) PROVE AInv'
  <2>1. ~Undisturbed
    BY <1>9, NoSpend DEF Budget
  <2> HIDE DEF me
  <2>2. /\ failed.pc = "saveFailed" /\ failed.plan = me.plan /\ failed.known = me.known
    BY <1>1 DEF ProcState
  <2> HIDE DEF failed
  <2>3. AloneOK(failed, file, secrets, server')
    BY <1>1, <2>1, <2>2 DEF AloneOK, KeepOK, Pushing
  <2> QED BY <1>9, <2>3, WriteAlone
<1>10. ASSUME Write(p, u, k, stored, done) PROVE AInv'
  <2> HIDE DEF me, prof
  <2>1. /\ done.pc = "apply" /\ done.known = me.known /\ done.got = me.got /\ done.cur = u
        /\ \A w \in Users : done.plan[w] = IF w = u THEN prof ELSE me.plan[w]
    BY <1>1, <1>2 DEF ProcState
  <2> HIDE DEF done
  <2>2. KeepOK(done, file, secrets)
    BY <1>1, <1>2, <1>5, <1>7, <2>1 DEF AloneOK, KeepOK, Pushing
  <2>3. ASSUME Undisturbed PROVE RecordOK(done, file, server')
    <3>1. RecordOK(me, file, server)
      BY <1>1, <2>3 DEF AloneOK
    <3>2. \A w \in Users : \A x : w # u /\ Matches(x, server[w]) => Matches(x, server'[w])
      BY <1>6, <1>10 DEF Matches
    <3>3. \A w \in Users : done.plan[w] # None => Matches(done.plan[w], server'[w])
      BY <1>8, <1>10, <2>1, <2>3, <3>1, <3>2 DEF RecordOK
    <3>4. \A w \in Users : file[w] # None => Matches(file[w], server'[w]) \/ w = u
      BY <1>1, <3>1, <3>2 DEF RecordOK
    <3> QED BY <1>1, <2>1, <3>1, <3>3, <3>4 DEF RecordOK
  <2>4. AloneOK(done, file, secrets, server')
    BY <2>2, <2>3 DEF AloneOK
  <2> HIDE DEF u
  <2> QED BY <1>10, <2>4, WriteAlone
<1> QED BY <1>4, <1>9, <1>10

LEMMA ApplyDeleteAlone ==
    ASSUME OneAtATime, AInv, IInv', NEW p \in Procs, ApplyDelete(p)
    PROVE  AInv'
<1>1. PICK k \in Deleted(proc[p].plan[proc[p].cur]), lost \in BOOLEAN :
          Applied(p, k, None, None, lost)
  BY DEF ApplyDelete
<1>2. proc[p].pc = "apply" /\ k \in Keys /\ UNCHANGED <<file, secrets>>
  BY DEF ApplyDelete, Deleted
<1> QED BY <1>1, <1>2, AppliedAlone

LEMMA ApplySetAlone ==
    ASSUME OneAtATime, AInv, IInv', NEW p \in Procs, ApplySet(p)
    PROVE  AInv'
<1> DEFINE me      == proc[p]
           prof    == me.plan[me.cur]
           v(k)    == prof.values[k]
           enc(k)  == EncryptsOnPush(prof, k)
           what(k) == IF enc(k) THEN Seal(v(k), me.known[me.cur], nonce + 1)
                                ELSE PlainOf(v(k))
           state(k) == Synced(v(k), what(k), enc(k))
<1>1. PICK k \in Added(prof) \cup Modified(prof), lost \in BOOLEAN :
          Applied(p, k, what(k), state(k), lost)
  BY DEF ApplySet
<1>2. me.pc = "apply" /\ k \in Keys /\ UNCHANGED <<file, secrets>>
  BY DEF ApplySet, Added, Modified
<1>3. AloneOK(me, file, secrets, server) /\ MemoryOK(me) /\ me \in ProcState
  BY OwnAlone
<1>4. me.cur \in Users /\ prof # None /\ me.known = secrets
  BY <1>2, <1>3 DEF MemoryOK, WithUser, WithPlan, AloneOK, KeepOK
<1>5. prof \in Profile
  BY <1>3, <1>4 DEF ProcState
<1>6. v(k) \in Text /\ enc(k) \in BOOLEAN
  BY <1>1, <1>2, <1>5 DEF Added, Modified, Profile, EncryptsOnPush, KeyState
<1>7. enc(k) => me.known[me.cur] \in Secrets
  <2>1. enc(k) => NeedsSecret(prof)
    BY <1>1 DEF EncryptsOnPush, NeedsSecret, Added, Modified
  <2> QED BY <1>2, <1>3, <1>4, <2>1 DEF MemoryOK, ProcState
<1>8. what(k) \in Stored /\ (enc(k) => what(k).enc = secrets[me.cur])
  <2>1. nonce + 1 \in Nat
    BY DEF AInv, IInv, SharedOK
  <2> QED BY <1>4, <1>6, <1>7, <2>1, PlainStored, SealStored DEF PlainOf, Seal
<1>9. state(k) \in KeyState /\ state(k).remote = what(k) /\ (state(k).encrypted <=> enc(k))
  <2> HIDE DEF what, enc
  <2> QED BY <1>6, <1>8 DEF Synced, KeyState
<1>10. state(k) # None
  BY <1>9, NoneAssumption
<1> HIDE DEF what, enc, state
<1> QED BY <1>1, <1>2, <1>8, <1>9, <1>10, AppliedAlone

LEMMA PushSaveAlone ==
    ASSUME OneAtATime, AInv, IInv', NEW p \in Procs, PushSave(p)
    PROVE  AInv'
<1> DEFINE me     == proc[p]
           prof   == me.plan[me.cur]
           new(u) == [me EXCEPT !.plan[me.cur] = None, !.cur = u]
<1>1. /\ me.pc \in {"apply", "saveFailed"} /\ UNCHANGED <<server, secrets>>
      /\ file' = [file EXCEPT ![me.cur] = prof]
  BY DEF PushSave, ToSave
<1>2. End(p) \/ (me.pc = "apply" /\ \E u : Step(p, new(u)))
  BY DEF PushSave
<1>3. AloneOK(me, file, secrets, server) /\ MemoryOK(me) /\ me \in ProcState
  BY OwnAlone
<1>4. me.cur \in Users /\ prof # None
  BY <1>1, <1>3 DEF MemoryOK, WithUser, WithPlan
<1>5. \A w \in Users : file'[w] = IF w = me.cur THEN prof ELSE file[w]
  BY <1>1, <1>4, FileAt
<1>6. Settled(file', secrets, server)
  BY <1>3, <1>4, <1>5 DEF Settled, AloneOK, KeepOK, RecordOK
<1>7. End(p) => AInv'
  BY <1>1, <1>6, EndAlone
<1>8. ASSUME me.pc = "apply", NEW u, Step(p, new(u)) PROVE AInv'
  <2> HIDE DEF me, prof
  <2>1. /\ new(u).pc = "apply" /\ new(u).known = me.known /\ new(u).got = me.got
        /\ \A w \in Users : new(u).plan[w] = IF w = me.cur THEN None ELSE me.plan[w]
    BY <1>3, <1>8 DEF ProcState
  <2> HIDE DEF new
  <2>2. AloneOK(new(u), file', secrets, server)
    BY <1>3, <1>5, <1>6, <1>8, <2>1 DEF AloneOK, KeepOK, RecordOK, Settled, Pushing
  <2> QED BY <1>1, <1>8, <2>2, StepAlone
<1> QED BY <1>2, <1>7, <1>8

-----------------------------------------------------------------------------
(* new, and the rest of the world                                          *)

LEMMA NewListAlone ==
    ASSUME OneAtATime, AInv, IInv', NEW p \in Procs, NewList(p)
    PROVE  AInv'
<1> DEFINE me       == proc[p]
           known(s) == [me.known EXCEPT ![me.cur] = s]
           gen(s)   == [me EXCEPT !.pc = "newSave", !.known = known(s)]
           same     == [me EXCEPT !.pc = "newSave"]
<1>1. me.pc = "newList" /\ UNCHANGED <<server, file>>
  BY DEF NewList
<1>2. \/ End(p) /\ UNCHANGED secrets
      \/ Step(p, same) /\ UNCHANGED secrets /\ OnServer(me.cur) = {}
      \/ /\ me.known[me.cur] = None /\ OnServer(me.cur) = {}
         /\ \E s \in Secrets : secrets' = known(s) /\ Step(p, gen(s))
  BY DEF NewList
<1>3. AloneOK(me, file, secrets, server) /\ me \in ProcState
  BY OwnAlone
<1>4. End(p) /\ UNCHANGED secrets => AInv'
  BY <1>1, QuitAlone
<1>5. OnServer(me.cur) = {} => \A k \in Keys : server[me.cur][k] = None
  BY DEF OnServer
<1>6. me.known[me.cur] = None => \A s \in Secrets, u \in Users :
         /\ file[u] # None => Covered(file[u], known(s)[u])
         /\ me.plan[u] # None => Covered(me.plan[u], known(s)[u])
  BY <1>1, Learns
<1> HIDE DEF me, known
<1>7. /\ same.pc = "newSave" /\ same.plan = me.plan /\ same.known = me.known
      /\ same.got = me.got /\ same.cur = me.cur
  BY <1>3 DEF ProcState
<1>8. \A s : /\ gen(s).pc = "newSave" /\ gen(s).plan = me.plan /\ gen(s).known = known(s)
             /\ gen(s).got = me.got /\ gen(s).cur = me.cur
  BY <1>3 DEF ProcState
<1> HIDE DEF same, gen
<1>9. OnServer(me.cur) = {} => AloneOK(same, file, secrets, server)
  BY <1>1, <1>3, <1>5, <1>7 DEF AloneOK, KeepOK, RecordOK, Pushing
<1>10. ASSUME me.known[me.cur] = None, OnServer(me.cur) = {}, NEW s \in Secrets
       PROVE  AloneOK(gen(s), file, known(s), server)
  <2>1. KeepOK(gen(s), file, known(s))
    BY <1>1, <1>3, <1>6, <1>8, <1>10 DEF AloneOK, KeepOK, Pushing
  <2>2. RecordOK(me, file, server) => RecordOK(gen(s), file, server)
    BY <1>1, <1>5, <1>8, <1>10 DEF RecordOK
  <2> QED BY <1>3, <2>1, <2>2 DEF AloneOK
<1> QED BY <1>1, <1>2, <1>4, <1>9, <1>10, StepAlone

LEMMA NewAlone ==
    ASSUME OneAtATime, AInv, IInv', NEW p \in Procs, NewExists(p) \/ NewList(p) \/ NewSave(p)
    PROVE  AInv'
<1> DEFINE me  == proc[p]
           new == [me EXCEPT !.pc = "newList"]
<1>1. AloneOK(me, file, secrets, server) /\ MemoryOK(me) /\ me \in ProcState
  BY OwnAlone
<1>2. CASE NewExists(p)
  <2>1. /\ me.pc = "newExists" /\ UNCHANGED <<server, file, secrets>>
        /\ End(p) \/ (file[me.cur] = None /\ Step(p, new))
    BY <1>2 DEF NewExists
  <2>2. End(p) => AInv'
    BY <2>1, QuitAlone
  <2> HIDE DEF me
  <2>3. /\ new.pc = "newList" /\ new.plan = me.plan /\ new.known = me.known
        /\ new.got = me.got /\ new.cur = me.cur
    BY <1>1 DEF ProcState
  <2> HIDE DEF new
  <2>4. file[me.cur] = None => AloneOK(new, file, secrets, server)
    BY <1>1, <2>1, <2>3 DEF AloneOK, KeepOK, RecordOK, Pushing
  <2> QED BY <2>1, <2>2, <2>4, StepAlone
<1>3. CASE NewSave(p)
  <2>1. /\ me.pc = "newSave" /\ End(p) /\ UNCHANGED <<server, secrets>>
        /\ file' = [file EXCEPT ![me.cur] = NewProfile]
    BY <1>3 DEF NewSave
  <2>2. me.cur \in Users
    BY <1>1, <2>1 DEF MemoryOK, WithUser
  <2>3. \A w \in Users : file'[w] = IF w = me.cur THEN NewProfile ELSE file[w]
    BY <2>1, <2>2, FileAt
  <2>4. \A k \in Keys : NewProfile.base[k] = None
    BY DEF NewProfile
  <2>5. Settled(file, secrets, server)
    BY <1>1, <2>1, RunningSettled
  <2>6. Covered(NewProfile, secrets[me.cur]) /\ (Undisturbed => Matches(NewProfile, server[me.cur]))
    BY <1>1, <2>1, <2>4 DEF AloneOK, RecordOK, Covered, Matches
  <2>7. Settled(file', secrets, server)
    BY <2>3, <2>5, <2>6 DEF Settled
  <2> QED BY <2>1, <2>7, EndAlone
<1> QED BY <1>2, <1>3, NewListAlone

LEMMA ExternalWriteAlone ==
    ASSUME AInv, IInv', ExternalWrite
    PROVE  AInv'
<1>1. ~Undisturbed /\ UNCHANGED <<file, secrets>>
  BY NoSpend DEF ExternalWrite, Budget
<1>2. PICK u, k, stored : u \in Users /\ k \in Keys /\ Write(None, u, k, stored, Idle)
  BY DEF ExternalWrite
<1> DEFINE noted(q) == [proc[q] EXCEPT !.touched = @ \cup {<<u, k>>}]
<1>3. \A q \in Procs : proc'[q] = proc[q] \/ proc'[q] = noted(q)
  BY <1>2, NoneAssumption DEF Write
<1>4. ASSUME NEW q \in Procs PROVE KeepOK(proc[q], file, secrets) /\ KeepOK(noted(q), file, secrets)
  <2> DEFINE me == proc[q]
             new == [me EXCEPT !.touched = @ \cup {<<u, k>>}]
  <2>1. KeepOK(me, file, secrets) /\ me \in ProcState
    BY OwnAlone DEF AloneOK
  <2> HIDE DEF me
  <2>2. /\ new.pc = me.pc /\ new.plan = me.plan /\ new.known = me.known
        /\ new.cur = me.cur /\ new.force = me.force
    BY <2>1 DEF ProcState
  <2> HIDE DEF new
  <2>3. KeepOK(new, file, secrets)
    BY <2>1, <2>2 DEF KeepOK
  <2> QED BY <2>1, <2>3 DEF new, me
<1> HIDE DEF noted
<1>5. \A q \in Procs : AloneOK(proc'[q], file', secrets', server')
  BY <1>1, <1>3, <1>4 DEF AloneOK
<1> QED BY <1>5, AlonePrimed

-----------------------------------------------------------------------------
LEMMA InitAlone == Init => AInv
<1> SUFFICES ASSUME Init PROVE AInv
  OBVIOUS
<1>1. Settled(file, secrets, server)
  BY DEF Init, Settled
<1>2. \A p \in Procs : proc[p] = Idle
  BY DEF Init
<1> QED BY <1>1, <1>2, InitInv, IdleAlone DEF AInv

LEMMA NextAlone == OneAtATime /\ AInv /\ [Next]_vars => AInv'
<1> SUFFICES ASSUME OneAtATime, AInv, [Next]_vars PROVE AInv'
  OBVIOUS
<1>1. IInv'
  BY NextInv DEF AInv
<1>2. CASE UNCHANGED vars
  <2>1. \A p \in Procs : AloneOK(proc'[p], file', secrets', server')
    BY <1>2 DEF vars, AInv
  <2> QED BY <1>1, <2>1, AlonePrimed
<1>3. CASE ExternalWrite
  BY <1>1, <1>3, ExternalWriteAlone
<1>4. ASSUME NEW p \in Procs, Start(p) \/ Work(p) \/ RpcFails(p) \/ Crash(p) PROVE AInv'
  <2>1. PullEnds(p) => AInv'
    BY <1>1, QuitAlone DEF PullEnds
  <2> QED BY <1>1, <1>4, <2>1, StartAlone, PullListAlone, PullNextAlone, FetchKeyAlone,
        AskSecretAlone, PullSkipsAlone, PullSaveAlone, EditAlone, PushSelectAlone,
        PushLoadAlone, PushCheckAlone, ApplyDeleteAlone, ApplySetAlone, PushSaveAlone,
        NewAlone, FailureAlone DEF Work
<1> QED BY <1>2, <1>3, <1>4 DEF Next

(* The invariant of commands that run one at a time.                       *)
THEOREM AloneInvariance == ASSUME OneAtATime PROVE Spec => []AInv
<1>1. AInv /\ [Next]_vars => AInv'
  BY OneAtATime, NextAlone
<1> QED BY <1>1, InitAlone, PTL DEF Spec

(* Commands that run one at a time always find the secret that their       *)
(* profiles need in the credential store, whatever fails, crashes or is    *)
(* written by others.                                                      *)
THEOREM SecretsAreSaved == ASSUME OneAtATime PROVE Spec => []SecretsSuffice
<1>1. AInv => SecretsSuffice
  <2> SUFFICES ASSUME AInv, NEW u \in Users, NEW k \in Keys, file[u] # None,
                      file[u].base[k] # None, file[u].base[k].encrypted
               PROVE  secrets[u] = file[u].base[k].remote.enc
    BY DEF SecretsSuffice
  <2>1. PICK p \in Procs : AloneOK(proc[p], file, secrets, server)
    BY DEF OneAtATime, AInv
  <2> QED BY <2>1 DEF AloneOK, KeepOK, Covered
<1> QED BY <1>1, AloneInvariance, PTL

(* Between commands that nobody disturbs, every profile says what is on    *)
(* the server, however pushes failed: what was applied was recorded, and   *)
(* nothing else was.                                                       *)
THEOREM AppliedRecorded == ASSUME OneAtATime, Undisturbed PROVE Spec => []AppliedIsRecorded
<1>1. AInv => AppliedIsRecorded
  <2> SUFFICES ASSUME AInv, AllIdle, NEW u \in Users, NEW k \in Keys, file[u] # None
               PROVE  server[u][k] = IF file[u].base[k] = None THEN None
                                     ELSE file[u].base[k].remote
    BY DEF AppliedIsRecorded
  <2>1. PICK p \in Procs : AloneOK(proc[p], file, secrets, server) /\ proc[p].pc = "idle"
    BY DEF OneAtATime, AInv, AllIdle
  <2> QED BY <2>1 DEF AloneOK, RecordOK, Matches
<1> QED BY <1>1, AloneInvariance, PTL

(* Who is alone is who writes the files.                                   *)
LEMMA FileWriters ==
    ASSUME OneAtATime, [Next]_vars, NEW p \in Procs, file' # file
    PROVE  PullSave(p) \/ EditSave(p) \/ PushSave(p) \/ NewSave(p)
<1>1. PICK q \in Procs : PullSave(q) \/ EditSave(q) \/ PushSave(q) \/ NewSave(q)
  <2>1. Next
    BY DEF vars
  <2>2. PICK q \in Procs : Start(q) \/ Work(q) \/ RpcFails(q) \/ Crash(q)
    BY <2>1 DEF Next, ExternalWrite
  <2>3. Work(q)
    BY <2>2 DEF Start, RpcFails, Crash
  <2> QED BY <2>3 DEF Work, PullList, PullNext, PullEnds, FetchKey, AskSecret, PullSkips,
             EditLoad, EditList, EditReload, EditQuits, PushSelect, PushLoad, PushCheckList,
             PushCheckKey, PushStops, PushConfirmed, ApplyDelete, ApplySet, NewExists, NewList
<1>2. q = p
  BY DEF OneAtATime
<1> QED BY <1>1, <1>2

(* What is written by others than the editor and a forced pull keeps edits.*)
LEMMA KeepsEdits ==
    ASSUME OneAtATime, AInv, [Next]_vars, NEW p \in Procs, NEW u \in Users,
           file'[u] # file[u], file[u] # None, proc[p].pc # "editor",
           ~(proc[p].pc = "build" /\ proc[p].force),
           NEW k \in Changed(file[u])
    PROVE  file'[u].values[k] = file[u].values[k]
<1> DEFINE me == proc[p]
<1>1. PullSave(p) \/ PushSave(p) \/ NewSave(p)
  BY FileWriters DEF EditSave
<1>2. AloneOK(me, file, secrets, server) /\ MemoryOK(me)
  BY OwnAlone
<1>3. me.cur \in Users
  BY <1>1, <1>2 DEF MemoryOK, WithUser, PullSave, PushSave, NewSave
<1>4. PICK prof : file' = [file EXCEPT ![me.cur] = prof] /\ (PushSave(p) => prof = me.plan[me.cur])
  BY <1>1 DEF PullSave, PushSave, NewSave, ToSave
<1>5. u = me.cur /\ file'[u] = prof
  BY <1>3, <1>4, FileAt
<1>6. CASE PullSave(p)
  BY <1>2, <1>5, <1>6 DEF PullSave, AloneOK, KeepOK
<1>7. CASE PushSave(p)
  <2>1. me.pc \in {"apply", "saveFailed"} /\ prof = me.plan[u]
    BY <1>4, <1>5, <1>7 DEF PushSave
  <2>2. me.plan[u] # None
    BY <1>2, <1>5, <2>1 DEF MemoryOK, WithPlan
  <2>3. me.plan[u].values = file[u].values
    BY <1>2, <2>1, <2>2 DEF AloneOK, KeepOK, Pushing
  <2> QED BY <1>5, <2>1, <2>3
<1>8. CASE NewSave(p)
  BY <1>2, <1>5, <1>8 DEF NewSave, AloneOK, KeepOK
<1> QED BY <1>1, <1>6, <1>7, <1>8

(* Commands that run one at a time lose no unpushed edit, whatever fails,  *)
(* crashes or is written on the server by others.                          *)
THEOREM EditsAreKept == ASSUME OneAtATime PROVE Spec => EditsKept
<1>1. AInv /\ [Next]_vars =>
        [\A p \in Procs, u \in Users :
          /\ Acts(p) /\ file'[u] # file[u] /\ file[u] # None
          /\ proc[p].pc # "editor"
          /\ ~(proc[p].pc = "build" /\ proc[p].force)
          => \A k \in Changed(file[u]) : file'[u].values[k] = file[u].values[k]]_vars
  BY OneAtATime, KeepsEdits
<1> QED BY <1>1, AloneInvariance, PTL DEF Spec, EditsKept

(* What a pull without --force replaces has no unpushed change.            *)
LEMMA PullReplaces ==
    ASSUME OneAtATime, AInv, [Next]_vars, NEW p \in Procs, NEW u \in Users,
           file'[u] # file[u], file[u] # None, proc[p].pc = "build", ~proc[p].force
    PROVE  Changed(file[u]) = {}
<1> DEFINE me == proc[p]
<1>1. PullSave(p)
  BY FileWriters DEF EditSave, PushSave, NewSave
<1>2. AloneOK(me, file, secrets, server) /\ MemoryOK(me)
  BY OwnAlone
<1>3. me.cur \in Users
  BY <1>2 DEF MemoryOK, WithUser
<1>4. PICK prof : file' = [file EXCEPT ![me.cur] = prof]
  BY <1>1 DEF PullSave
<1>5. u = me.cur
  BY <1>3, <1>4, FileAt
<1> QED BY <1>2, <1>5 DEF AloneOK, KeepOK

(* README.md:526 holds of commands that run one at a time: a pull without  *)
(* --force never overwrites an unpushed edit, whatever fails, crashes or   *)
(* is written on the server by others.                                     *)
THEOREM PullKeepsAlone == ASSUME OneAtATime PROVE Spec => PullKeepsEdits
<1>1. AInv /\ [Next]_vars =>
        [\A p \in Procs, u \in Users :
          /\ Acts(p) /\ file'[u] # file[u] /\ file[u] # None
          /\ proc[p].cmd = "pull" /\ proc[p].pc = "build" /\ ~proc[p].force
          => Changed(file[u]) = {}]_vars
  BY OneAtATime, PullReplaces
<1> QED BY <1>1, AloneInvariance, PTL DEF Spec, PullKeepsEdits

(* Nobody has written behind the back of a process.                        *)
Untouched == \A p \in Procs : proc[p].touched = {}

(* What a step makes of the memory of the process, if nobody touches it.   *)
LEMMA StepUntouched ==
    ASSUME OneAtATime, proc \in [Procs -> ProcState], NEW p \in Procs, NEW me, Step(p, me),
           me.touched = {}
    PROVE  Untouched'
  BY DEF Step, Untouched, OneAtATime

LEMMA EndUntouched ==
    ASSUME OneAtATime, proc \in [Procs -> ProcState], NEW p \in Procs, End(p)
    PROVE  Untouched'
  BY StepUntouched DEF End, Idle

(* Commands keep it so.                                                    *)
LEMMA StaysUntouched ==
    ASSUME OneAtATime, Limit["external"] = 0, IInv, Untouched, [Next]_vars PROVE Untouched'
<1>0. proc \in [Procs -> ProcState]
  BY DEF IInv, MemoryOK
<1>1. CASE UNCHANGED vars
  BY <1>1 DEF vars, Untouched
<1>2. ~ExternalWrite
  BY DEF ExternalWrite, Spend, IInv, SharedOK, Budget
<1>3. ASSUME NEW p \in Procs, Start(p) PROVE Untouched'
  <2>1. PICK c \in Commands, only \in Users \cup {None}, f \in BOOLEAN :
          Step(p, [Idle EXCEPT !.pc = FirstStep[c], !.cmd = c, !.force = f, !.cur = only,
                               !.known = secrets])
    BY <1>3 DEF Start
  <2> QED BY <1>0, <2>1, StepUntouched DEF Idle
<1>4. ASSUME NEW p \in Procs, Work(p) \/ RpcFails(p) \/ Crash(p) PROVE Untouched'
  <2>0. proc[p].touched = {} /\ proc[p] \in ProcState
    BY <1>0 DEF Untouched
  <2>1. CASE \/ PullList(p) \/ PullEnds(p)
             \/ EditList(p) \/ EditReload(p) \/ EditLoad(p) \/ EditQuits(p)
    BY <1>0, <2>0, <2>1, StepUntouched, EndUntouched
       DEF PullList, PullEnds, EditList, EditReload, EditLoad, EditQuits, ProcState
  <2>2. CASE PullNext(p)
    BY <1>0, <2>0, <2>2, StepUntouched DEF PullNext, ProcState
  <2>3. CASE FetchKey(p)
    BY <1>0, <2>0, <2>3, StepUntouched DEF FetchKey, ProcState
  <2>4. CASE AskSecret(p)
    BY <1>0, <2>0, <2>4, StepUntouched DEF AskSecret, ProcState
  <2>5. CASE PullSkips(p) \/ PullSave(p)
    BY <1>0, <2>0, <2>5, StepUntouched, EndUntouched DEF PullSkips, PullSave, SkipUser, ProcState
  <2>6. CASE EditSave(p)
    BY <1>0, <2>0, <2>6, StepUntouched, EndUntouched DEF EditSave, ProcState
  <2>7. CASE PushSelect(p) \/ PushLoad(p)
    BY <1>0, <2>0, <2>7, StepUntouched, EndUntouched DEF PushSelect, PushLoad, ProcState
  <2>8. CASE PushCheckList(p)
    BY <1>0, <2>0, <2>8, StepUntouched DEF PushCheckList, ProcState
  <2>9. CASE PushCheckKey(p)
    BY <1>0, <2>0, <2>9, StepUntouched DEF PushCheckKey, ProcState
  <2>10. CASE PushStops(p) \/ PushConfirmed(p)
    BY <1>0, <2>0, <2>10, StepUntouched, EndUntouched DEF PushStops, PushConfirmed, ProcState
  <2>11. CASE ApplyDelete(p)
    BY <1>0, <2>0, <2>11 DEF ApplyDelete, Applied, Write, Untouched, OneAtATime, ProcState
  <2>12. CASE ApplySet(p)
    BY <1>0, <2>0, <2>12 DEF ApplySet, Applied, Write, Untouched, OneAtATime, ProcState
  <2>13. CASE PushSave(p)
    BY <1>0, <2>0, <2>13, StepUntouched, EndUntouched DEF PushSave, ProcState
  <2>14. CASE NewExists(p) \/ NewList(p) \/ NewSave(p)
    BY <1>0, <2>0, <2>14, StepUntouched, EndUntouched DEF NewExists, NewList, NewSave, ProcState
  <2>15. CASE RpcFails(p) \/ Crash(p)
    BY <1>0, <2>0, <2>15, StepUntouched, EndUntouched DEF RpcFails, Crash, ProcState
  <2> QED BY <1>4, <2>1, <2>2, <2>3, <2>4, <2>5, <2>6, <2>7, <2>8, <2>9, <2>10, <2>11, <2>12,
             <2>13, <2>14, <2>15 DEF Work
<1> QED BY <1>1, <1>2, <1>3, <1>4 DEF Next

(* README.md:519 holds of commands that run one at a time while nobody     *)
(* else writes: an unforced push overwrites only what the profile was last *)
(* synced with, whatever fails, crashes or loses its answer.               *)
THEOREM PushOverwritesAlone ==
    ASSUME OneAtATime, Limit["external"] = 0 PROVE Spec => PushOverwritesOnlySynced
<1>1. CInv /\ Untouched /\ [Next]_vars =>
        [\A p \in Procs, u \in Users, k \in Keys :
          /\ Acts(p) /\ proc[p].pc = "apply" /\ ~proc[p].force
          /\ server'[u][k] # server[u][k]
          => Agrees(proc[p].plan[u], u, k)]_vars
  BY AppliesAChange, CheckedImplies DEF PushIsChecked, Untouched
<1>2. Init => Untouched
  BY DEF Init, Untouched, Idle
<1>3. CInv /\ Untouched /\ [Next]_vars => Untouched'
  BY OneAtATime, Limit["external"] = 0, StaysUntouched DEF CInv
<1> QED BY <1>1, <1>2, <1>3, InitChecked, NextChecked, PTL DEF Spec, PushOverwritesOnlySynced
-----------------------------------------------------------------------------
(* The refinement of WorkingCopy.                                          *)

LEMMA CopiesUnchanged ==
    ASSUME UNCHANGED file
    PROVE  Copies' = Copies
  BY DEF Copies

LEMMA QuietRefines ==
    ASSUME UNCHANGED <<server, file>>
    PROVE  UNCHANGED Copy!vars
  BY CopiesUnchanged DEF Copy!vars

(* A profile that takes its place on disk is one new copy.                 *)
LEMMA CopyAt ==
    ASSUME AInv, NEW u \in Users, NEW prof, prof # None, file' = [file EXCEPT ![u] = prof]
    PROVE  Copies' = [Copies EXCEPT ![u] = prof.values]
<1>1. \A w \in Users : file'[w] = IF w = u THEN prof ELSE file[w]
  BY FileAt
<1>2. \A w \in Users : (IF file'[w] = None THEN None ELSE file'[w].values)
                        = IF w = u THEN prof.values ELSE Copies[w]
  BY <1>1 DEF Copies
<1>3. Copies' = [w \in Users |-> IF w = u THEN prof.values ELSE Copies[w]]
  BY <1>2 DEF Copies
<1> QED BY <1>3 DEF Copies

LEMMA PullSaveRefines ==
    ASSUME OneAtATime, Undisturbed, AInv, NEW p \in Procs, PullSave(p)
    PROVE  \E u \in Users : Copy!Checkout(u)
<1> DEFINE me == proc[p]
<1>1. me.pc = "build" /\ file' = [file EXCEPT ![me.cur] = Pulled(me.got)] /\ UNCHANGED server
  BY DEF PullSave
<1>2. RecordOK(me, file, server) /\ MemoryOK(me) /\ me \in ProcState
  BY OwnAlone DEF AloneOK
<1>3. me.cur \in Users /\ me.got \in [Keys -> Stored \cup {None}]
  BY <1>1, <1>2 DEF MemoryOK, WithUser, ProcState
<1>4. \A k \in Keys : me.got[k] = server[me.cur][k]
  BY <1>1, <1>2 DEF RecordOK
<1>5. Pulled(me.got).values = Copy!Plain(server[me.cur])
  BY <1>4 DEF Pulled, Copy!Plain
<1>6. Pulled(me.got) # None
  BY <1>3, PulledSound, NoneAssumption
<1>7. Copies' = [Copies EXCEPT ![me.cur] = Copy!Plain(server[me.cur])]
  BY <1>1, <1>3, <1>5, <1>6, CopyAt
<1> QED BY <1>1, <1>3, <1>7 DEF Copy!Checkout

LEMMA NewSaveRefines ==
    ASSUME OneAtATime, Undisturbed, AInv, NEW p \in Procs, NewSave(p)
    PROVE  \E u \in Users : Copy!Checkout(u)
<1> DEFINE me == proc[p]
<1>1. me.pc = "newSave" /\ file' = [file EXCEPT ![me.cur] = NewProfile] /\ UNCHANGED server
  BY DEF NewSave
<1>2. RecordOK(me, file, server) /\ MemoryOK(me)
  BY OwnAlone DEF AloneOK
<1>3. me.cur \in Users
  BY <1>1, <1>2 DEF MemoryOK, WithUser
<1>4. NewProfile.values = Copy!Plain(server[me.cur])
  BY <1>1, <1>2 DEF RecordOK, NewProfile, Copy!Plain
<1>5. NewProfile # None
  BY NewSound, NoneAssumption
<1>6. Copies' = [Copies EXCEPT ![me.cur] = Copy!Plain(server[me.cur])]
  BY <1>1, <1>3, <1>4, <1>5, CopyAt
<1> QED BY <1>1, <1>3, <1>6 DEF Copy!Checkout

LEMMA EditSaveRefines ==
    ASSUME OneAtATime, AInv, NEW p \in Procs, EditSave(p)
    PROVE  \E u \in Users : Copy!Edit(u)
<1> DEFINE me      == proc[p]
           prof(v) == [me.plan[me.cur] EXCEPT !.values = v]
<1>1. me.pc = "editor" /\ UNCHANGED server
  BY DEF EditSave
<1>2. PICK v \in [Keys -> Values \cup {None}] : file' = [file EXCEPT ![me.cur] = prof(v)]
  BY DEF EditSave
<1>3. AloneOK(me, file, secrets, server) /\ MemoryOK(me) /\ me \in ProcState
  BY OwnAlone
<1>4. me.cur \in Users /\ me.plan[me.cur] \in Profile /\ file[me.cur] \in Profile
  BY <1>1, <1>3 DEF MemoryOK, WithUser, WithPlan, AloneOK, KeepOK, ProcState, AInv, IInv, SharedOK
<1>5. v \in [Keys -> Text \cup {None}]
  BY DEF Text
<1>6. prof(v) \in Profile /\ prof(v).values = v
  BY <1>4, <1>5 DEF Profile
<1>7. prof(v) # None
  BY <1>6, NoneAssumption
<1> HIDE DEF prof
<1>8. Copies' = [Copies EXCEPT ![me.cur] = v]
  BY <1>2, <1>4, <1>6, <1>7, CopyAt
<1>9. Copies[me.cur] # None
  BY <1>4, NoneAssumption DEF Copies, Profile
<1> QED BY <1>1, <1>4, <1>5, <1>8, <1>9 DEF Copy!Edit

LEMMA PushSaveRefines ==
    ASSUME OneAtATime, AInv, NEW p \in Procs, PushSave(p)
    PROVE  UNCHANGED Copy!vars
<1> DEFINE me   == proc[p]
           prof == me.plan[me.cur]
<1>1. /\ me.pc \in {"apply", "saveFailed"} /\ UNCHANGED server
      /\ file' = [file EXCEPT ![me.cur] = prof]
  BY DEF PushSave, ToSave
<1>2. AloneOK(me, file, secrets, server) /\ MemoryOK(me)
  BY OwnAlone
<1>3. me.cur \in Users /\ prof # None
  BY <1>1, <1>2 DEF MemoryOK, WithUser, WithPlan
<1>4. file[me.cur] # None /\ prof.values = file[me.cur].values
  BY <1>1, <1>2, <1>3 DEF AloneOK, KeepOK, Pushing
<1> HIDE DEF prof
<1>5. Copies' = [Copies EXCEPT ![me.cur] = prof.values]
  BY <1>1, <1>3, CopyAt
<1>6. Copies' = Copies
  BY <1>3, <1>4, <1>5 DEF Copies
<1> QED BY <1>1, <1>6 DEF Copy!vars

(* What a profile in step with the server, about to be pushed, says.       *)
LEMMA AboutToApply ==
    ASSUME OneAtATime, Undisturbed, AInv, NEW p \in Procs, proc[p].pc = "apply",
           NEW k \in Keys
    PROVE  LET u    == proc[p].cur
               prof == proc[p].plan[u]
               base == prof.base[k]
           IN  /\ u \in Users /\ prof \in Profile
               /\ Copies[u] # None /\ Copies[u] = prof.values
               /\ server[u][k] = IF base = None THEN None ELSE base.remote
               /\ base # None => /\ base.remote \in Stored /\ base.value = base.remote.val
                                 /\ (base.encrypted <=> base.remote.enc # None)
<1> DEFINE me   == proc[p]
           u    == me.cur
           prof == me.plan[u]
           base == prof.base[k]
<1>1. KeepOK(me, file, secrets) /\ RecordOK(me, file, server) /\ MemoryOK(me) /\ me \in ProcState
  BY OwnAlone DEF AloneOK
<1>2. u \in Users /\ prof # None
  BY <1>1 DEF MemoryOK, WithUser, WithPlan
<1>3. prof \in Profile /\ Sound(prof)
  BY <1>1, <1>2 DEF ProcState, MemoryOK
<1>4. file[u] # None /\ prof.values = file[u].values
  BY <1>1, <1>2 DEF KeepOK, Pushing
<1>5. Copies[u] = prof.values
  BY <1>2, <1>4 DEF Copies
<1>6. Copies[u] # None
  BY <1>3, <1>5, NoneAssumption DEF Profile
<1>7. server[u][k] = IF base = None THEN None ELSE base.remote
  BY <1>1, <1>2 DEF RecordOK, Matches
<1>8. ASSUME base # None
      PROVE  /\ base.remote \in Stored /\ base.value = base.remote.val
             /\ (base.encrypted <=> base.remote.enc # None)
  <2>1. base \in KeyState
    BY <1>3, <1>8 DEF Profile
  <2>2. base = StateOf(base.remote)
    BY <1>3, <1>8 DEF Sound
  <2>3. \A x : StateOf(x).value = x.val /\ (StateOf(x).encrypted <=> x.enc # None)
    BY DEF StateOf, IsEncrypted
  <2>4. base.remote \in Stored
    BY <2>1 DEF KeyState
  <2> HIDE DEF base
  <2>5. /\ StateOf(base.remote).value = base.remote.val
        /\ StateOf(base.remote).encrypted <=> base.remote.enc # None
    BY <2>3
  <2> QED BY <2>2, <2>4, <2>5
<1> QED BY <1>2, <1>3, <1>5, <1>6, <1>7, <1>8

(* An undisturbed change is one write, and changes no file.                *)
LEMMA AppliedWrites ==
    ASSUME Undisturbed, AInv, NEW p \in Procs, NEW k, NEW stored, NEW state, NEW lost \in BOOLEAN,
           Applied(p, k, stored, state, lost)
    PROVE  \E me : Write(p, proc[p].cur, k, stored, me)
<1>1. ~Spend("lost")
  BY NoSpend DEF Budget
<1> QED BY <1>1 DEF Applied

LEMMA ApplyDeleteRefines ==
    ASSUME OneAtATime, Undisturbed, AInv, NEW p \in Procs, ApplyDelete(p)
    PROVE  \E u \in Users, k \in Keys : Copy!PushUnset(u, k)
<1> DEFINE u    == proc[p].cur
           prof == proc[p].plan[u]
<1>1. proc[p].pc = "apply" /\ UNCHANGED file
  BY DEF ApplyDelete
<1>2. PICK k \in Deleted(prof), lost \in BOOLEAN : Applied(p, k, None, None, lost)
  BY DEF ApplyDelete
<1>3. k \in Keys /\ prof.values[k] = None /\ prof.base[k] # None
  BY <1>2 DEF Deleted
<1>4. /\ u \in Users /\ Copies[u] # None /\ Copies[u] = prof.values
      /\ server[u][k] = prof.base[k].remote /\ prof.base[k].remote \in Stored
  BY <1>1, <1>3, AboutToApply
<1>5. server[u][k] # None /\ server[u][k].val # None
  BY <1>4, NoneAssumption DEF Stored
<1>6. server' = [server EXCEPT ![u][k] = None]
  <2>1. \E x : Write(p, u, k, None, x)
    BY <1>2, AppliedWrites
  <2> QED BY <2>1 DEF Write
<1>7. Copies' = Copies
  BY <1>1, CopiesUnchanged
<1>8. Copy!Differs(u, k) /\ Copies[u][k] = None
  BY <1>3, <1>4, <1>5 DEF Copy!Differs, Copy!Plain
<1> HIDE DEF u
<1> QED BY <1>3, <1>4, <1>6, <1>7, <1>8 DEF Copy!PushUnset

LEMMA ApplySetRefines ==
    ASSUME OneAtATime, Undisturbed, AInv, NEW p \in Procs, ApplySet(p)
    PROVE  \E u \in Users, k \in Keys : Copy!PushSet(u, k)
<1> DEFINE me      == proc[p]
           u       == me.cur
           prof    == me.plan[u]
           v(k)    == prof.values[k]
           enc(k)  == EncryptsOnPush(prof, k)
           what(k) == IF enc(k) THEN Seal(v(k), me.known[u], nonce + 1) ELSE PlainOf(v(k))
<1>1. PICK k \in Added(prof) \cup Modified(prof), lost \in BOOLEAN :
          Applied(p, k, what(k), Synced(v(k), what(k), enc(k)), lost)
  BY DEF ApplySet
<1>2. me.pc = "apply" /\ k \in Keys /\ UNCHANGED file
  BY DEF ApplySet, Added, Modified
<1>3. MemoryOK(me) /\ me \in ProcState
  BY OwnAlone
<1>4. /\ u \in Users /\ prof \in Profile /\ Copies[u] # None /\ Copies[u] = prof.values
      /\ server[u][k] = IF prof.base[k] = None THEN None ELSE prof.base[k].remote
      /\ prof.base[k] # None => /\ prof.base[k].remote \in Stored
                                /\ prof.base[k].value = prof.base[k].remote.val
                                /\ (prof.base[k].encrypted <=> prof.base[k].remote.enc # None)
  BY <1>2, AboutToApply
<1>5. v(k) \in Text /\ v(k) # None /\ (prof.base[k] # None => prof.base[k].value # v(k))
  BY <1>1, <1>2, <1>4 DEF Added, Modified, Profile
<1>6. enc(k) => me.known[u] \in Secrets
  <2>1. enc(k) => NeedsSecret(prof)
    BY <1>1 DEF EncryptsOnPush, NeedsSecret, Added, Modified
  <2>2. prof # None
    BY <1>4, NoneAssumption
  <2> QED BY <1>2, <1>3, <1>4, <2>1, <2>2 DEF MemoryOK, ProcState
<1>7. what(k) \in Stored /\ what(k).val = v(k) /\ ((what(k).enc # None) <=> enc(k))
  <2>1. nonce + 1 \in Nat
    BY DEF AInv, IInv, SharedOK
  <2>2. CASE enc(k)
    BY <1>5, <1>6, <2>1, <2>2, SealStored DEF Seal, IsEncrypted
  <2>3. CASE ~enc(k)
    BY <1>5, <2>3, PlainStored DEF PlainOf
  <2> QED BY <2>2, <2>3
<1>8. enc(k) <=> Copy!Sealed(server[u][k])
  BY <1>4, NoneAssumption DEF EncryptsOnPush, Copy!Sealed
<1> HIDE DEF what, enc
<1>9. server' = [server EXCEPT ![u][k] = what(k)]
  <2>1. \E x : Write(p, u, k, what(k), x)
    BY <1>1, AppliedWrites
  <2> QED BY <2>1 DEF Write
<1>10. server'[u][k] = what(k)
  BY <1>2, <1>4, <1>9 DEF AInv, IInv, SharedOK
<1>11. Copy!Differs(u, k) /\ Copies[u][k] = v(k)
  BY <1>2, <1>4, <1>5, NoneAssumption DEF Copy!Differs, Copy!Plain
<1>12. Copies' = Copies
  BY <1>2, CopiesUnchanged
<1> HIDE DEF u, v
<1>13. Copy!PushSet(u, k)
  BY <1>5, <1>7, <1>8, <1>9, <1>10, <1>11, <1>12 DEF Copy!PushSet, Copy!Sealed
<1> QED BY <1>2, <1>4, <1>13

LEMMA CopyInit == Init => Copy!Init
<1> SUFFICES ASSUME Init PROVE Copy!Init
  OBVIOUS
<1>1. server \in [Users -> [Keys -> Stored \cup {None}]]
  BY InitInv DEF IInv, SharedOK
<1>2. Copies = [u \in Users |-> None]
  BY DEF Init, Copies
<1> QED BY <1>1, <1>2 DEF Copy!Init

LEMMA CopyNext == OneAtATime /\ Undisturbed /\ AInv /\ [Next]_vars => [Copy!Next]_(Copy!vars)
<1> SUFFICES ASSUME OneAtATime, Undisturbed, AInv, [Next]_vars
             PROVE  [Copy!Next]_(Copy!vars)
  OBVIOUS
<1>1. CASE UNCHANGED <<server, file>>
  BY <1>1, QuietRefines
<1>2. CASE ExternalWrite
  BY <1>2, NoSpend DEF ExternalWrite, Budget
<1>3. ASSUME NEW p \in Procs, Start(p) \/ Work(p) \/ RpcFails(p) \/ Crash(p)
      PROVE  [Copy!Next]_(Copy!vars)
  <2>1. CASE PullSave(p)
    BY <2>1, PullSaveRefines DEF Copy!Next
  <2>2. CASE NewSave(p)
    BY <2>2, NewSaveRefines DEF Copy!Next
  <2>3. CASE EditSave(p)
    BY <2>3, EditSaveRefines DEF Copy!Next
  <2>4. CASE PushSave(p)
    BY <2>4, PushSaveRefines
  <2>5. CASE ApplyDelete(p)
    BY <2>5, ApplyDeleteRefines DEF Copy!Next
  <2>6. CASE ApplySet(p)
    BY <2>6, ApplySetRefines DEF Copy!Next
  <2>7. \/ UNCHANGED <<server, file>> \/ PullSave(p) \/ NewSave(p) \/ EditSave(p)
        \/ PushSave(p) \/ ApplyDelete(p) \/ ApplySet(p)
    BY <1>3 DEF Start, RpcFails, Crash, Work, PullList, PullNext, PullEnds, FetchKey, AskSecret,
               PullSkips, EditLoad, EditList, EditReload, EditQuits, PushSelect, PushLoad,
               PushCheckList, PushCheckKey, PushStops, PushConfirmed, NewExists, NewList
  <2> QED BY <1>1, <2>1, <2>2, <2>3, <2>4, <2>5, <2>6, <2>7
<1> QED BY <1>1, <1>2, <1>3 DEF Next, vars

(* Undisturbed commands that run one at a time, whichever of their RPCs    *)
(* fail, treat the profile files as working copies of the server.          *)
THEOREM FilesAreCopies == ASSUME OneAtATime, Undisturbed PROVE Spec => IsWorkingCopy
<1>1. AInv /\ [Next]_vars => [Copy!Next]_(Copy!vars)
  BY OneAtATime, Undisturbed, CopyNext
<1> QED BY <1>1, CopyInit, AloneInvariance, PTL DEF Spec, IsWorkingCopy, Copy!Spec
=============================================================================
