--------------------------- MODULE HostFetchProofs ---------------------------
(***************************************************************************)
(* What a host can rely on while no two fetches, and no two config         *)
(* commands, run at the same time: whole and fresh output files, complete  *)
(* ones after a success, and a config.json that keeps its other fields.    *)
(***************************************************************************)
EXTENDS HostFetch, TLAPS

(* What a fetch has got so far is what it would write.                     *)
TInv == TypeOK /\ \A p \in Procs : proc[p].got \in Output

-----------------------------------------------------------------------------
(* Types.                                                                  *)

LEMMA IdleType == Idle \in ProcState /\ Idle.got = Nothing /\ Idle.pc = "idle" /\ Nothing \in Output
  BY DEF Idle, ProcState, Nothing, Output, NoConfig, Config, Files

LEMMA Own ==
    ASSUME TInv, NEW p \in Procs
    PROVE  proc[p] \in ProcState /\ proc[p].got \in Output
  BY DEF TInv, TypeOK

LEMMA Spent == ASSUME TInv, NEW b \in Budget, Spend(b) PROVE spent' \in [Budget -> Nat]
<1>1. spent \in [Budget -> Nat]
  BY DEF TInv, TypeOK
<1>2. spent[b] + 1 \in Nat
  BY <1>1
<1> QED BY <1>1, <1>2 DEF Spend

LEMMA InitTypes == Init => TInv
<1> SUFFICES ASSUME Init PROVE TInv
  OBVIOUS
<1>1. saved \in Config
  BY DEF Init, NoConfig, Config
<1>2. spent \in [Budget -> Nat] /\ held \in [Keys -> SUBSET Values]
  BY DEF Init
<1>3. tmp \in [Files -> Output \cup {None, Blank, Torn}] /\ out = tmp
  BY DEF Init, NoFiles
<1> QED BY <1>1, <1>2, <1>3, IdleType DEF Init, TInv, TypeOK

(* A step of one process that leaves the other processes alone.            *)
LEMMA StepTypes ==
    ASSUME TInv, NEW p \in Procs, NEW me \in ProcState, me.got \in Output, Step(p, me)
    PROVE  proc' \in [Procs -> ProcState] /\ \A q \in Procs : proc'[q].got \in Output
  BY DEF Step, TInv, TypeOK

LEMMA RemoveTypes ==
    ASSUME NEW procs \in [Procs -> ProcState], \A q \in Procs : procs[q].got \in Output,
           RemoveRuntimeDir(procs)
    PROVE  /\ proc' \in [Procs -> ProcState] /\ \A q \in Procs : proc'[q].got \in Output
           /\ service' = "stopped"
           /\ tmp' \in [Files -> Output \cup {None, Blank, Torn}]
           /\ out' \in [Files -> Output \cup {None, Blank, Torn}]
<1>1. \A q \in Procs : procs[q] \in ProcState
  OBVIOUS
<1>2. \A q \in Procs : /\ [procs[q] EXCEPT !.fd = "gone"] \in ProcState
                       /\ [procs[q] EXCEPT !.fd = "gone"].got = procs[q].got
  BY <1>1 DEF ProcState
<1> QED BY <1>1, <1>2 DEF RemoveRuntimeDir, NoFiles

LEMMA FailsTypes ==
    ASSUME TInv, NEW p \in Procs, Fails(p)
    PROVE  /\ proc' \in [Procs -> ProcState] /\ \A q \in Procs : proc'[q].got \in Output
           /\ service' \in {"stopped", "starting", "active"}
           /\ tmp' \in [Files -> Output \cup {None, Blank, Torn}]
           /\ out' \in [Files -> Output \cup {None, Blank, Torn}]
<1>1. CASE proc[p].unit
  <2> DEFINE procs == [proc EXCEPT ![p] = Idle]
  <2>1. procs \in [Procs -> ProcState] /\ \A q \in Procs : procs[q].got \in Output
    BY IdleType DEF TInv, TypeOK
  <2>2. RemoveRuntimeDir(procs)
    BY <1>1 DEF Fails
  <2> HIDE DEF procs
  <2> QED BY <2>1, <2>2, RemoveTypes
<1>2. CASE ~proc[p].unit
  <2>1. Step(p, Idle) /\ UNCHANGED <<service, tmp, out>>
    BY <1>2 DEF Fails
  <2> QED BY <2>1, IdleType, StepTypes DEF TInv, TypeOK
<1> QED BY <1>1, <1>2

(* A step that changes the memory of p only.                               *)
LEMMA QuietTypes ==
    ASSUME TInv, NEW p \in Procs, NEW me \in ProcState, me.got \in Output, Step(p, me),
           UNCHANGED <<server, config, service, tmp, out, held, saved>>,
           overlapped' \in BOOLEAN, clashed' \in BOOLEAN, spent' \in [Budget -> Nat]
    PROVE  TInv'
<1>1. proc' \in [Procs -> ProcState] /\ \A q \in Procs : proc'[q].got \in Output
  BY StepTypes
<1> QED BY <1>1 DEF TInv, TypeOK

LEMMA FailStepTypes ==
    ASSUME TInv, NEW p \in Procs, Fails(p), UNCHANGED <<server, config, history>>,
           spent' \in [Budget -> Nat]
    PROVE  TInv'
  BY FailsTypes DEF TInv, TypeOK, history

LEMMA StartFetchTypes ==
    ASSUME TInv, NEW p \in Procs, NEW unit \in BOOLEAN, StartFetch(p, unit)
    PROVE  /\ proc' \in [Procs -> ProcState] /\ \A q \in Procs : proc'[q].got \in Output
           /\ overlapped' \in BOOLEAN
<1> DEFINE me == [Idle EXCEPT !.pc = "keys", !.unit = unit]
<1>1. me \in ProcState /\ me.got \in Output
  BY IdleType DEF ProcState
<1>2. Step(p, me) /\ overlapped' \in BOOLEAN
  BY DEF StartFetch, TInv, TypeOK
<1> HIDE DEF me
<1> QED BY <1>1, <1>2, StepTypes

LEMMA GotTypes ==
    ASSUME TInv, NEW k \in Keys, NEW s
    PROVE  Got(server[k], s) \in Values \cup {Empty, None}
<1>1. server[k] \in Stored \cup {None}
  BY DEF TInv, TypeOK
<1>2. server[k] # None => server[k].val \in Values
  BY <1>1 DEF Stored
<1> QED BY <1>2 DEF Got

(* A rename moves files that other processes have open.                    *)
LEMMA RenameTypes ==
    ASSUME TInv, NEW p \in Procs, Rename(p), service # "stopped", tmp[proc[p].at] # None
    PROVE  /\ proc' \in [Procs -> ProcState] /\ \A q \in Procs : proc'[q].got \in Output
           /\ service' \in {service, "active"}
           /\ out' = [out EXCEPT ![proc[p].at] = tmp[proc[p].at]]
           /\ tmp' = [tmp EXCEPT ![proc[p].at] = None]
<1> DEFINE f        == proc[p].at
           Fd(q)    == IF proc[q].fd = "tmp" THEN "out" ELSE "gone"
           Moved(q) == [proc[q] EXCEPT !.fd = Fd(q)]
           next     == [proc[p] EXCEPT !.pc = "open", !.at = f + 1]
<1>1. /\ proc' = [q \in Procs |->
                    IF q # p THEN IF proc[q].pc # "write" \/ proc[q].at # f THEN proc[q]
                                  ELSE Moved(q)
                    ELSE IF f = 3 THEN Idle ELSE next]
      /\ service' \in {service, "active"}
      /\ out' = [out EXCEPT ![f] = tmp[f]] /\ tmp' = [tmp EXCEPT ![f] = None]
  BY DEF Rename, LastFile
<1>2. \A q \in Procs : Moved(q) \in ProcState /\ Moved(q).got = proc[q].got
  BY Own DEF ProcState
<1>3. f # 3 => next \in ProcState /\ next.got = proc[p].got
  <2>1. f \in Files /\ proc[p] \in ProcState
    BY Own DEF ProcState
  <2>2. f # 3 => f + 1 \in Files
    BY <2>1 DEF Files
  <2> HIDE DEF f
  <2> QED BY <2>1, <2>2 DEF ProcState
<1> HIDE DEF Moved, next, f
<1>4. \A q \in Procs : proc'[q] \in ProcState /\ proc'[q].got \in Output
  BY <1>1, <1>2, <1>3, Own, IdleType
<1>5. proc' \in [Procs -> ProcState]
  BY <1>1, <1>4
<1> QED BY <1>1, <1>4, <1>5 DEF f

(* A save changes one field, or tears the file.                            *)
LEMMA SaveTypes ==
    ASSUME TInv, NEW p \in Procs, SaveConfig(p)
    PROVE  /\ config' \in Config \cup {Torn} /\ saved' \in Config
           /\ config' # Torn => config' \in Edits(proc[p].config)
           /\ saved' = IF config' \in Config THEN config' ELSE saved
<1>1. PICK new \in Edits(proc[p].config) : config' \in Overlay(config, new)
  BY DEF SaveConfig
<1>2. proc[p].config \in Config
  BY Own DEF ProcState
<1>3. new \in Config
  BY <1>2 DEF Edits, Config, SyncKeyLists
<1>4. config' \in {new, Torn}
  BY <1>1 DEF Overlay
<1>5. saved' = IF config' \in Config THEN config' ELSE saved
  BY DEF SaveConfig
<1> QED BY <1>1, <1>3, <1>4, <1>5 DEF TInv, TypeOK

(* Every step keeps the types.                                             *)
LEMMA StepTypeCorrect == ASSUME TInv, [Next]_vars PROVE TInv'
<1>u. CASE UNCHANGED vars
  BY <1>u DEF vars, history, TInv, TypeOK
<1>1. ASSUME NEW p \in Procs, StartByHand(p) PROVE TInv'
  <2>1. StartFetch(p, FALSE)
    BY <1>1 DEF StartByHand
  <2>2. spent' \in [Budget -> Nat]
    BY <1>1, Spent DEF StartByHand, Budget
  <2> QED BY <1>1, <2>1, <2>2, StartFetchTypes DEF StartByHand, TInv, TypeOK
<1>2. ASSUME NEW p \in Procs, StartService(p) PROVE TInv'
  <2>1. StartFetch(p, TRUE)
    BY <1>2 DEF StartService
  <2>2. spent' \in [Budget -> Nat]
    BY <1>2, Spent DEF StartService, Budget
  <2>3. \A k \in Keys : Plain(k) \in SUBSET Values
    BY DEF TInv, TypeOK, Plain, Stored
  <2>4. held' \in [Keys -> SUBSET Values] /\ service' = "starting"
    BY <1>2, <2>3 DEF StartService
  <2> QED BY <1>2, <2>1, <2>2, <2>4, StartFetchTypes DEF StartService, TInv, TypeOK
<1>3. ASSUME NEW p \in Procs, LoadKeys(p) PROVE TInv'
  <2>1. UNCHANGED <<server, config, history, spent>>
    BY <1>3 DEF LoadKeys
  <2>2. CASE config \in Config /\ config.syncKeys # {}
    <3> DEFINE me == [proc[p] EXCEPT !.pc = "secret", !.wanted = config.syncKeys,
                                     !.todo = config.syncKeys]
    <3>1. me \in ProcState /\ me.got \in Output
      BY <2>2, Own DEF ProcState, Config
    <3>2. Step(p, me) /\ UNCHANGED <<service, tmp, out>>
      BY <1>3, <2>2 DEF LoadKeys
    <3> HIDE DEF me
    <3> QED BY <2>1, <3>1, <3>2, QuietTypes DEF history, TInv, TypeOK
  <2>3. CASE Fails(p)
    BY <2>1, <2>3, FailStepTypes DEF TInv, TypeOK
  <2> QED BY <1>3, <2>2, <2>3 DEF LoadKeys
<1>4. ASSUME NEW p \in Procs, LoadSecret(p) PROVE TInv'
  <2> DEFINE s  == IF config \in Config THEN config.secret ELSE None
             me == [proc[p] EXCEPT !.pc = "get", !.secret = s]
  <2>1. s \in Secrets \cup {None}
    BY DEF Config
  <2> HIDE DEF s
  <2>2. me \in ProcState /\ me.got \in Output
    BY <2>1, Own DEF ProcState
  <2>3. Step(p, me) /\ UNCHANGED <<server, config, service, tmp, out, history, spent>>
    BY <1>4 DEF LoadSecret, s
  <2> HIDE DEF me
  <2> QED BY <2>2, <2>3, QuietTypes DEF history, TInv, TypeOK
<1>5. ASSUME NEW p \in Procs, GetKey(p) PROVE TInv'
  <2>1. UNCHANGED <<server, config, history, spent>>
    BY <1>5 DEF GetKey
  <2>2. CASE Fails(p)
    BY <2>1, <2>2, FailStepTypes DEF TInv, TypeOK
  <2>3. ASSUME NEW k \in proc[p].todo, Takes(server[k], proc[p].secret), UNCHANGED <<service, tmp, out>>,
               Step(p, [proc[p] EXCEPT !.todo = @ \ {k}, !.got[k] = Got(server[k], proc[p].secret),
                                       !.pc = IF proc[p].todo = {k} THEN "open" ELSE "get"])
        PROVE  TInv'
    <3> DEFINE v  == Got(server[k], proc[p].secret)
               pc == IF proc[p].todo = {k} THEN "open" ELSE "get"
               me == [proc[p] EXCEPT !.todo = @ \ {k}, !.got[k] = v, !.pc = pc]
    <3>1. proc[p] \in ProcState /\ proc[p].got \in Output /\ k \in Keys
      BY Own DEF ProcState
    <3>2. v \in Values
      BY <2>3, <3>1, GotTypes DEF Takes
    <3>3. pc \in {"open", "get"}
      OBVIOUS
    <3> HIDE DEF v, pc
    <3>4. me \in ProcState /\ me.got \in Output
      BY <3>1, <3>2, <3>3 DEF ProcState, Output
    <3>5. Step(p, me)
      BY <2>3 DEF v, pc
    <3> HIDE DEF me
    <3> QED BY <2>1, <2>3, <3>4, <3>5, QuietTypes DEF history, TInv, TypeOK
  <2> QED BY <1>5, <2>2, <2>3 DEF GetKey
<1>6. ASSUME NEW p \in Procs, OpenTemp(p) PROVE TInv'
  <2>1. UNCHANGED <<server, config, history, spent>>
    BY <1>6 DEF OpenTemp
  <2>2. CASE service = "stopped"
    BY <1>6, <2>1, <2>2, FailStepTypes DEF OpenTemp, TInv, TypeOK
  <2>3. CASE service # "stopped"
    <3> DEFINE me == [proc[p] EXCEPT !.pc = "write", !.fd = "tmp"]
    <3>1. me \in ProcState /\ me.got \in Output
      BY Own DEF ProcState
    <3>2. Step(p, me) /\ UNCHANGED <<service, out>>
          /\ tmp' = [tmp EXCEPT ![proc[p].at] = Blank]
      BY <1>6, <2>3 DEF OpenTemp
    <3>3. tmp' \in [Files -> Output \cup {None, Blank, Torn}]
      BY <3>2 DEF TInv, TypeOK
    <3> HIDE DEF me
    <3> QED BY <2>1, <3>1, <3>2, <3>3, StepTypes DEF history, TInv, TypeOK
  <2> QED BY <2>2, <2>3
<1>7. ASSUME NEW p \in Procs, WriteTemp(p) PROVE TInv'
  <2> DEFINE me == [proc[p] EXCEPT !.pc = "rename", !.fd = "gone"]
  <2>1. me \in ProcState /\ me.got \in Output /\ proc[p].got \in Output
    BY Own DEF ProcState
  <2>2. Step(p, me) /\ UNCHANGED <<server, config, service, history, spent>>
    BY <1>7 DEF WriteTemp
  <2>3. \A old : Overlay(old, proc[p].got) \subseteq Output \cup {Torn}
    BY <2>1 DEF Overlay
  <2>4. tmp' \in [Files -> Output \cup {None, Blank, Torn}]
    BY <1>7, <2>3 DEF WriteTemp, TInv, TypeOK
  <2>5. out' \in [Files -> Output \cup {None, Blank, Torn}]
    BY <1>7, <2>3 DEF WriteTemp, TInv, TypeOK
  <2> HIDE DEF me
  <2> QED BY <2>1, <2>2, <2>4, <2>5, StepTypes DEF history, TInv, TypeOK
<1>8. ASSUME NEW p \in Procs, Rename(p) PROVE TInv'
  <2>1. UNCHANGED <<server, config, history, spent>>
    BY <1>8 DEF Rename
  <2>2. CASE service = "stopped" \/ tmp[proc[p].at] = None
    BY <1>8, <2>1, <2>2, FailStepTypes DEF Rename, TInv, TypeOK
  <2>3. CASE ~(service = "stopped" \/ tmp[proc[p].at] = None)
    <3>1. /\ proc' \in [Procs -> ProcState] /\ \A q \in Procs : proc'[q].got \in Output
          /\ service' \in {service, "active"}
          /\ out' = [out EXCEPT ![proc[p].at] = tmp[proc[p].at]]
          /\ tmp' = [tmp EXCEPT ![proc[p].at] = None]
      BY <1>8, <2>3, RenameTypes
    <3>2. proc[p].at \in Files
      BY Own DEF ProcState
    <3>3. /\ tmp' \in [Files -> Output \cup {None, Blank, Torn}]
          /\ out' \in [Files -> Output \cup {None, Blank, Torn}]
      BY <3>1, <3>2 DEF TInv, TypeOK
    <3> QED BY <2>1, <3>1, <3>3 DEF history, TInv, TypeOK
  <2> QED BY <2>2, <2>3
<1>9. ASSUME NEW p \in Procs, StartConfig(p) PROVE TInv'
  <2> DEFINE me == [Idle EXCEPT !.pc = "load"]
  <2>1. me \in ProcState /\ me.got \in Output
    BY IdleType DEF ProcState
  <2>2. spent' \in [Budget -> Nat] /\ Step(p, me)
    BY <1>9, Spent DEF StartConfig, Budget
  <2> HIDE DEF me
  <2> QED BY <1>9, <2>1, <2>2, QuietTypes DEF StartConfig, TInv, TypeOK
<1>10. ASSUME NEW p \in Procs, LoadConfigFile(p) PROVE TInv'
  <2> DEFINE c  == IF config = None THEN NoConfig ELSE config
             at == [proc[p] EXCEPT !.pc = "truncate", !.config = c]
             me == IF config \in {Blank, Torn} THEN Idle ELSE at
  <2>1. config \notin {Blank, Torn} => c \in Config
    BY DEF TInv, TypeOK, NoConfig, Config
  <2> HIDE DEF c
  <2>2. config \notin {Blank, Torn} => at \in ProcState /\ at.got \in Output
    BY <2>1, Own DEF ProcState
  <2>3. Step(p, me) /\ UNCHANGED <<server, config, service, tmp, out, history, spent>>
    BY <1>10 DEF LoadConfigFile, c
  <2> HIDE DEF at
  <2>4. me \in ProcState /\ me.got \in Output
    BY <2>2, IdleType
  <2> HIDE DEF me
  <2> QED BY <2>3, <2>4, QuietTypes DEF history, TInv, TypeOK
<1>11. ASSUME NEW p \in Procs, Truncate(p) PROVE TInv'
  <2> DEFINE me == [proc[p] EXCEPT !.pc = "save"]
  <2>1. me \in ProcState /\ me.got \in Output
    BY Own DEF ProcState
  <2>2. Step(p, me) /\ config' = Blank /\ UNCHANGED <<server, service, tmp, out, history, spent>>
    BY <1>11 DEF Truncate
  <2> HIDE DEF me
  <2> QED BY <2>1, <2>2, StepTypes DEF history, TInv, TypeOK
<1>12. ASSUME NEW p \in Procs, SaveConfig(p) PROVE TInv'
  <2>1. Step(p, Idle) /\ UNCHANGED <<server, service, tmp, out, held, overlapped, clashed, spent>>
    BY <1>12 DEF SaveConfig
  <2>2. config' \in Config \cup {Torn} /\ saved' \in Config
    BY <1>12, SaveTypes
  <2> QED BY <2>1, <2>2, IdleType, StepTypes DEF TInv, TypeOK
<1>13. ASSUME NEW p \in Procs, Fail(p) PROVE TInv'
  BY <1>13, FailStepTypes, Spent DEF Fail, Budget
<1>14. ASSUME StopService PROVE TInv'
  <2> DEFINE procs == [q \in Procs |-> IF proc[q].unit THEN Idle ELSE proc[q]]
  <2>1. procs \in [Procs -> ProcState] /\ \A q \in Procs : procs[q].got \in Output
    BY IdleType DEF TInv, TypeOK
  <2>2. RemoveRuntimeDir(procs) /\ UNCHANGED <<server, config, history, spent>>
    BY <1>14 DEF StopService
  <2> HIDE DEF procs
  <2> QED BY <2>1, <2>2, RemoveTypes DEF history, TInv, TypeOK
<1>15. ASSUME ServerWrites PROVE TInv'
  <2>1. spent' \in [Budget -> Nat]
    BY <1>15, Spent DEF ServerWrites, Budget
  <2>2. server' \in [Keys -> Stored \cup {None}]
    BY <1>15 DEF ServerWrites, TInv, TypeOK
  <2>3. held' \in [Keys -> SUBSET Values]
    BY <1>15 DEF ServerWrites, TInv, TypeOK, Stored
  <2> QED BY <1>15, <2>1, <2>2, <2>3 DEF ServerWrites, TInv, TypeOK
<1> QED
  BY <1>u, <1>1, <1>2, <1>3, <1>4, <1>5, <1>6, <1>7, <1>8, <1>9, <1>10, <1>11, <1>12, <1>13, <1>14, <1>15
  DEF Next

(* Types, for any number of processes, keys, values, secrets and events.   *)
THEOREM TypeCorrect == Spec => []TypeOK
<1>1. TInv => TypeOK
  BY DEF TInv
<1> QED BY <1>1, InitTypes, StepTypeCorrect, PTL DEF Spec

-----------------------------------------------------------------------------
(* One fetch at a time.                                                    *)

FetchPCs == {"keys", "secret", "get", "open", "write", "rename"}
WritePCs == {"open", "write", "rename"}

(* The sync keys that are no longer to get are those that it has got.      *)
GotOK(me) ==
    /\ me.pc = "keys" => me.got = Nothing
    /\ me.pc = "secret" => me.got = Nothing /\ me.todo = me.wanted
    /\ me.pc = "get" => /\ me.todo \subseteq me.wanted
                        /\ {k \in Keys : me.got[k] # None} = me.wanted \ me.todo
    /\ me.pc \in WritePCs => {k \in Keys : me.got[k] # None} = me.wanted
    /\ me.pc \in FetchPCs \ WritePCs => me.at = 1

(* Its temporary file is its own, or went with the directory.  While the   *)
(* directory is there, the files before the current one are written, and   *)
(* everything it has got is fresh.                                         *)
TempOK(me, t) ==
    /\ me.pc = "write" => \/ me.fd = "tmp" /\ t[me.at] = Blank
                          \/ me.fd = "gone" /\ t[me.at] = None
    /\ me.pc = "rename" => t[me.at] \in {me.got, None}

DoneOK(me, o) == me.pc \in WritePCs => \A g \in Files : g < me.at => o[g] = me.got

FreshOK(me, h) == me.pc \in FetchPCs => \A k \in Keys : me.got[k] # None => me.got[k] \in h[k]

(* What the readers see is whole and fresh.                                *)
OutOK(o, h) == \A f \in Files :
    /\ o[f] \notin {Blank, Torn}
    /\ \A k \in Keys : o[f] \in Output /\ o[f][k] # None => o[f][k] \in h[k]

Alone == \A p \in Procs : \A q \in Procs :
            proc[p].pc \in FetchPCs /\ proc[q].pc \in FetchPCs => p = q

Apart ==
    /\ Alone
    /\ OutOK(out, held)
    /\ \A p \in Procs :
          /\ TempOK(proc[p], tmp)
          /\ service # "stopped" => DoneOK(proc[p], out) /\ FreshOK(proc[p], held)

FInv ==
    /\ \A p \in Procs : GotOK(proc[p])
    /\ service = "stopped" => /\ tmp = NoFiles /\ out = NoFiles
                              /\ \A p \in Procs : proc[p].fd = "gone"
    /\ service # "stopped" => \A k \in Keys : Plain(k) \subseteq held[k]
    /\ ~overlapped => Apart

LEMMA IdleOK ==
    /\ GotOK(Idle)
    /\ \A t : TempOK(Idle, t)
    /\ \A o : DoneOK(Idle, o)
    /\ \A h : FreshOK(Idle, h)
    /\ Idle.pc \notin FetchPCs /\ Idle.fd = "gone" /\ \A h : OutOK(NoFiles, h)
<1>1. Idle.pc = "idle" /\ Idle.fd = "gone"
  BY DEF Idle
<1>2. None \notin {Blank, Torn} /\ None \notin Output
  BY NoneAssumption, FileAssumption
<1>3. \A h : OutOK(NoFiles, h)
  BY <1>2 DEF OutOK, NoFiles
<1> QED BY <1>1, <1>3 DEF GotOK, TempOK, DoneOK, FreshOK, FetchPCs, WritePCs

(* Outside a fetch nothing is said of a process.                           *)
LEMMA OtherOK ==
    ASSUME NEW me, me.pc \notin FetchPCs
    PROVE  /\ GotOK(me)
           /\ \A t : TempOK(me, t)
           /\ \A o : DoneOK(me, o)
           /\ \A h : FreshOK(me, h)
  BY DEF GotOK, TempOK, DoneOK, FreshOK, FetchPCs, WritePCs

LEMMA InitFetch == Init => FInv
<1> SUFFICES ASSUME Init PROVE FInv
  OBVIOUS
<1>1. \A p \in Procs : proc[p] = Idle
  BY DEF Init
<1> QED BY <1>1, IdleOK DEF Init, FInv, Apart, Alone

(* A step of the fetch p, which may move a file that others have open.     *)
LEMMA FetchStep ==
    ASSUME FInv, NEW p \in Procs, proc[p].pc \in FetchPCs,
           UNCHANGED <<server, held, overlapped>>,
           service = "stopped" <=> service' = "stopped",
           \A q \in Procs : q # p => proc'[q].pc = proc[q].pc /\ GotOK(proc'[q]),
           GotOK(proc'[p]),
           service = "stopped" => UNCHANGED <<tmp, out>>
                                  /\ \A q \in Procs : proc'[q].fd \in {"gone", proc[q].fd},
           ~overlapped /\ Apart =>
               /\ OutOK(out', held) /\ TempOK(proc'[p], tmp')
               /\ service # "stopped" => DoneOK(proc'[p], out') /\ FreshOK(proc'[p], held)
    PROVE  FInv'
<1>1. \A q \in Procs : GotOK(proc'[q])
  OBVIOUS
<1>2. ASSUME ~overlapped PROVE Apart'
  <2>1. Apart
    BY <1>2 DEF FInv
  <2>2. \A q \in Procs : q # p => proc'[q].pc \notin FetchPCs
    BY <2>1 DEF Apart, Alone
  <2>3. Alone'
    BY <2>2 DEF Alone
  <2>4. \A q \in Procs : q # p => /\ TempOK(proc'[q], tmp')
                                  /\ DoneOK(proc'[q], out') /\ FreshOK(proc'[q], held)
    BY <2>2, OtherOK
  <2> QED BY <1>2, <2>1, <2>3, <2>4 DEF Apart
<1>3. service' # "stopped" => \A k \in Keys : Plain(k)' \subseteq held'[k]
  BY DEF FInv, Plain
<1>4. service' = "stopped" => /\ tmp' = NoFiles /\ out' = NoFiles
                              /\ \A q \in Procs : proc'[q].fd = "gone"
  BY DEF FInv
<1> QED BY <1>1, <1>2, <1>3, <1>4 DEF FInv

(* A step outside fetches.                                                 *)
LEMMA QuietStep ==
    ASSUME TInv, FInv, NEW p \in Procs, NEW me, Step(p, me),
           proc[p].pc \notin FetchPCs \/ me = Idle, me.pc \notin FetchPCs, me.fd \in {"gone", proc[p].fd},
           UNCHANGED <<server, service, tmp, out, held, overlapped>>
    PROVE  FInv'
<1>1. proc'[p] = me /\ \A q \in Procs : q # p => proc'[q] = proc[q]
  BY DEF Step, TInv, TypeOK
<1>2. \A q \in Procs : GotOK(proc'[q])
  BY <1>1, OtherOK DEF FInv
<1>3. ASSUME ~overlapped PROVE Apart'
  BY <1>1, <1>3, OtherOK DEF FInv, Apart, Alone
<1>4. service = "stopped" => \A q \in Procs : proc'[q].fd = "gone"
  BY <1>1 DEF FInv
<1> QED BY <1>2, <1>3, <1>4 DEF FInv, Plain

(* The directory goes, with processes that end or stay as they are.        *)
LEMMA RemoveStep ==
    ASSUME TInv, FInv, NEW procs \in [Procs -> ProcState],
           \A q \in Procs : procs[q] \in {Idle, proc[q]},
           RemoveRuntimeDir(procs), UNCHANGED <<server, held, overlapped>>
    PROVE  FInv'
<1> DEFINE me(q) == [procs[q] EXCEPT !.fd = "gone"]
<1>1. \A q \in Procs : proc'[q] = me(q)
  BY DEF RemoveRuntimeDir
<1>2. \A q \in Procs : /\ me(q).pc = procs[q].pc /\ me(q).got = procs[q].got /\ me(q).at = procs[q].at
                       /\ me(q).wanted = procs[q].wanted /\ me(q).todo = procs[q].todo
                       /\ me(q).fd = "gone" /\ procs[q].at \in Files
  BY DEF ProcState
<1> HIDE DEF me
<1>3. \A q \in Procs : GotOK(procs[q]) /\ (procs[q].pc \in FetchPCs => procs[q] = proc[q])
  BY IdleOK DEF FInv
<1>4. \A q \in Procs : GotOK(proc'[q])
  BY <1>1, <1>2, <1>3 DEF GotOK
<1>5. service' = "stopped" /\ tmp' = NoFiles /\ out' = NoFiles
  BY DEF RemoveRuntimeDir
<1>6. \A q \in Procs : TempOK(proc'[q], tmp')
  BY <1>1, <1>2, <1>5 DEF TempOK, NoFiles
<1>7. ASSUME ~overlapped PROVE Alone'
  BY <1>1, <1>2, <1>3, <1>7 DEF FInv, Apart, Alone
<1>8. \A q \in Procs : proc'[q].fd = "gone"
  BY <1>1, <1>2
<1> QED BY <1>4, <1>5, <1>6, <1>7, <1>8, IdleOK DEF FInv, Apart

LEMMA FailsStep ==
    ASSUME TInv, FInv, NEW p \in Procs, Fails(p), UNCHANGED <<server, held, overlapped>>
    PROVE  FInv'
<1>1. CASE proc[p].unit
  <2> DEFINE procs == [proc EXCEPT ![p] = Idle]
  <2>1. procs \in [Procs -> ProcState] /\ \A q \in Procs : procs[q] \in {Idle, proc[q]}
    BY IdleType DEF TInv, TypeOK
  <2>2. RemoveRuntimeDir(procs)
    BY <1>1 DEF Fails
  <2> HIDE DEF procs
  <2> QED BY <2>1, <2>2, RemoveStep
<1>2. CASE ~proc[p].unit
  BY <1>2, IdleOK, QuietStep DEF Fails
<1> QED BY <1>1, <1>2

LEMMA HistoryIs == history' = history <=> UNCHANGED <<held, saved, overlapped, clashed>>
  BY DEF history

(* A step of the fetch p that touches no file of the directory.            *)
LEMMA ReadStep ==
    ASSUME TInv, FInv, NEW p \in Procs, proc[p].pc \in FetchPCs, NEW me, Step(p, me), GotOK(me),
           UNCHANGED <<server, held, overlapped, service, tmp, out>>,
           me.pc \notin {"write", "rename"}, me.fd = proc[p].fd,
           me.pc \in WritePCs => me.at = 1,
           service # "stopped" /\ FreshOK(proc[p], held) => FreshOK(me, held)
    PROVE  FInv'
<1>1. proc'[p] = me /\ \A q \in Procs : q # p => proc'[q] = proc[q]
  BY DEF Step, TInv, TypeOK
<1>2. TempOK(me, tmp')
  BY DEF TempOK
<1>3. DoneOK(me, out')
  BY DEF DoneOK, Files
<1> QED BY <1>1, <1>2, <1>3, FetchStep DEF FInv, Apart

LEMMA LoadKeysStep == ASSUME TInv, FInv, NEW p \in Procs, LoadKeys(p) PROVE FInv'
<1>1. UNCHANGED <<server, held, overlapped>> /\ proc[p].pc = "keys"
  BY HistoryIs DEF LoadKeys
<1>2. CASE config \in Config /\ config.syncKeys # {}
  <2> DEFINE me == [proc[p] EXCEPT !.pc = "secret", !.wanted = config.syncKeys,
                                   !.todo = config.syncKeys]
  <2>1. Step(p, me) /\ UNCHANGED <<service, tmp, out>>
    BY <1>2 DEF LoadKeys
  <2>2. /\ me.fd = proc[p].fd /\ me.pc = "secret" /\ me.got = proc[p].got /\ me.todo = me.wanted
        /\ me.at = proc[p].at
    BY Own DEF ProcState
  <2>3. GotOK(proc[p])
    BY DEF FInv
  <2> HIDE DEF me
  <2>4. GotOK(me)
    BY <1>1, <2>2, <2>3 DEF GotOK, FetchPCs, WritePCs
  <2>5. FreshOK(proc[p], held) => FreshOK(me, held)
    BY <1>1, <2>2 DEF FreshOK, FetchPCs
  <2> QED BY <1>1, <2>1, <2>2, <2>4, <2>5, ReadStep DEF FetchPCs, WritePCs
<1>3. CASE Fails(p)
  BY <1>1, <1>3, FailsStep
<1> QED BY <1>2, <1>3 DEF LoadKeys

LEMMA LoadSecretStep == ASSUME TInv, FInv, NEW p \in Procs, LoadSecret(p) PROVE FInv'
<1> DEFINE s  == IF config \in Config THEN config.secret ELSE None
           me == [proc[p] EXCEPT !.pc = "get", !.secret = s]
<1>1. /\ UNCHANGED <<server, held, overlapped, service, tmp, out>>
      /\ proc[p].pc = "secret" /\ Step(p, me)
  BY HistoryIs DEF LoadSecret
<1> HIDE DEF s
<1>2. /\ me.fd = proc[p].fd /\ me.pc = "get" /\ me.got = proc[p].got /\ me.todo = proc[p].todo
      /\ me.wanted = proc[p].wanted /\ me.at = proc[p].at
  BY Own DEF ProcState
<1>3. GotOK(proc[p])
  BY DEF FInv
<1> HIDE DEF me
<1>4. {k \in Keys : Nothing[k] # None} = {}
  BY DEF Nothing
<1>5. GotOK(me)
  BY <1>1, <1>2, <1>3, <1>4 DEF GotOK, FetchPCs, WritePCs
<1>6. FreshOK(proc[p], held) => FreshOK(me, held)
  BY <1>1, <1>2 DEF FreshOK, FetchPCs
<1> QED BY <1>1, <1>2, <1>5, <1>6, ReadStep DEF FetchPCs, WritePCs

LEMMA GetKeyStep == ASSUME TInv, FInv, NEW p \in Procs, GetKey(p) PROVE FInv'
<1>1. UNCHANGED <<server, held, overlapped>> /\ proc[p].pc = "get"
  BY HistoryIs DEF GetKey
<1>2. CASE Fails(p)
  BY <1>1, <1>2, FailsStep
<1>3. ASSUME NEW k \in proc[p].todo, Takes(server[k], proc[p].secret), UNCHANGED <<service, tmp, out>>,
             Step(p, [proc[p] EXCEPT !.todo = @ \ {k}, !.got[k] = Got(server[k], proc[p].secret),
                                     !.pc = IF proc[p].todo = {k} THEN "open" ELSE "get"])
      PROVE  FInv'
  <2> DEFINE v  == Got(server[k], proc[p].secret)
             pc == IF proc[p].todo = {k} THEN "open" ELSE "get"
             me == [proc[p] EXCEPT !.todo = @ \ {k}, !.got[k] = v, !.pc = pc]
  <2>1. proc[p] \in ProcState /\ proc[p].got \in Output /\ k \in Keys
    BY Own DEF ProcState
  <2>2. Step(p, me)
    BY <1>3
  <2>3. v # None /\ server[k] # None /\ v \in Plain(k)
    <3>1. v \notin {Empty, None}
      BY <1>3 DEF Takes
    <3> QED BY <3>1 DEF Got, Plain
  <2>4. pc \in {"open", "get"} /\ (pc = "open" <=> proc[p].todo = {k})
    OBVIOUS
  <2> HIDE DEF v, pc
  <2>5. /\ me.fd = proc[p].fd /\ me.pc = pc /\ me.todo = proc[p].todo \ {k} /\ me.wanted = proc[p].wanted
        /\ me.at = proc[p].at /\ me.got = [proc[p].got EXCEPT ![k] = v]
    BY <2>1 DEF ProcState
  <2>6. me.got[k] = v /\ \A j \in Keys : j # k => me.got[j] = proc[p].got[j]
    BY <2>1, <2>5 DEF Output
  <2> HIDE DEF me
  <2>7. /\ proc[p].todo \subseteq proc[p].wanted /\ proc[p].at = 1
        /\ {j \in Keys : proc[p].got[j] # None} = proc[p].wanted \ proc[p].todo
    BY <1>1 DEF FInv, GotOK, FetchPCs, WritePCs
  <2>8. {j \in Keys : me.got[j] # None} = me.wanted \ me.todo
    BY <2>1, <2>3, <2>5, <2>6, <2>7
  <2>9. pc = "open" => me.todo = {}
    BY <2>4, <2>5
  <2>10. GotOK(me)
    BY <2>4, <2>5, <2>7, <2>8, <2>9 DEF GotOK, FetchPCs, WritePCs
  <2>11. service # "stopped" /\ FreshOK(proc[p], held) => FreshOK(me, held)
    BY <1>1, <2>1, <2>3, <2>6 DEF FreshOK, FetchPCs, FInv
  <2> QED BY <1>1, <1>3, <2>2, <2>4, <2>5, <2>7, <2>10, <2>11, ReadStep DEF FetchPCs, WritePCs
<1> QED BY <1>2, <1>3 DEF GetKey

LEMMA OpenTempStep == ASSUME TInv, FInv, NEW p \in Procs, OpenTemp(p) PROVE FInv'
<1>1. UNCHANGED <<server, held, overlapped>> /\ proc[p].pc = "open"
  BY HistoryIs DEF OpenTemp
<1>2. CASE service = "stopped"
  BY <1>1, <1>2, FailsStep DEF OpenTemp
<1>3. CASE service # "stopped"
  <2> DEFINE me == [proc[p] EXCEPT !.pc = "write", !.fd = "tmp"]
  <2>1. Step(p, me) /\ UNCHANGED <<service, out>> /\ tmp' = [tmp EXCEPT ![proc[p].at] = Blank]
    BY <1>3 DEF OpenTemp
  <2>2. /\ me.pc = "write" /\ me.fd = "tmp" /\ me.got = proc[p].got /\ me.wanted = proc[p].wanted
        /\ me.at = proc[p].at /\ me.at \in Files
    BY Own DEF ProcState
  <2> HIDE DEF me
  <2>3. proc'[p] = me /\ \A q \in Procs : q # p => proc'[q] = proc[q]
    BY <2>1 DEF Step, TInv, TypeOK
  <2>4. GotOK(me)
    BY <1>1, <2>2 DEF FInv, GotOK, FetchPCs, WritePCs
  <2>5. TempOK(me, tmp')
    BY <2>1, <2>2 DEF TempOK, TInv, TypeOK
  <2>6. DoneOK(proc[p], out) => DoneOK(me, out')
    BY <1>1, <2>1, <2>2 DEF DoneOK, WritePCs
  <2>7. FreshOK(proc[p], held) => FreshOK(me, held)
    BY <1>1, <2>2 DEF FreshOK, FetchPCs
  <2> QED BY <1>1, <1>3, <2>1, <2>3, <2>4, <2>5, <2>6, <2>7, FetchStep DEF FInv, Apart, FetchPCs
<1> QED BY <1>2, <1>3

LEMMA WriteTempStep == ASSUME TInv, FInv, NEW p \in Procs, WriteTemp(p) PROVE FInv'
<1> DEFINE me == [proc[p] EXCEPT !.pc = "rename", !.fd = "gone"]
           f  == proc[p].at
<1>1. UNCHANGED <<server, service, held, overlapped>> /\ proc[p].pc = "write" /\ Step(p, me)
  BY HistoryIs DEF WriteTemp
<1>2. /\ IF proc[p].fd = "tmp" THEN \E c \in Overlay(tmp[f], proc[p].got) : tmp' = [tmp EXCEPT ![f] = c]
                               ELSE UNCHANGED tmp
      /\ IF proc[p].fd = "out" THEN \E c \in Overlay(out[f], proc[p].got) : out' = [out EXCEPT ![f] = c]
                               ELSE UNCHANGED out
  BY DEF WriteTemp
<1>3. /\ me.pc = "rename" /\ me.fd = "gone" /\ me.got = proc[p].got /\ me.wanted = proc[p].wanted
      /\ me.at = f /\ f \in Files
  BY Own DEF ProcState
<1> HIDE DEF me, f
<1>4. proc'[p] = me /\ \A q \in Procs : q # p => proc'[q] = proc[q]
  BY <1>1 DEF Step, TInv, TypeOK
<1>5. GotOK(me)
  BY <1>1, <1>3 DEF FInv, GotOK, FetchPCs, WritePCs
<1>6. ASSUME Apart PROVE UNCHANGED out /\ TempOK(me, tmp')
  <2>1. TempOK(proc[p], tmp)
    BY <1>6 DEF Apart
  <2>2. CASE proc[p].fd = "tmp" /\ tmp[f] = Blank
    <3>1. tmp' = [tmp EXCEPT ![f] = me.got] /\ UNCHANGED out
      BY <1>2, <1>3, <2>2 DEF Overlay
    <3>2. tmp'[f] = me.got
      BY <3>1, <1>3 DEF TInv, TypeOK
    <3> QED BY <1>3, <3>1, <3>2 DEF TempOK
  <2>3. CASE proc[p].fd = "gone" /\ tmp[f] = None
    BY <1>2, <1>3, <2>3 DEF TempOK
  <2> QED BY <1>1, <2>1, <2>2, <2>3 DEF TempOK, f
<1>7. DoneOK(proc[p], out) => DoneOK(me, out)
  BY <1>1, <1>3 DEF DoneOK, WritePCs, f
<1>8. FreshOK(proc[p], held) => FreshOK(me, held)
  BY <1>1, <1>3 DEF FreshOK, FetchPCs
<1>9. service = "stopped" => UNCHANGED <<tmp, out>>
  BY <1>2 DEF FInv
<1> QED BY <1>1, <1>3, <1>4, <1>5, <1>6, <1>7, <1>8, <1>9, FetchStep DEF FInv, Apart, FetchPCs

LEMMA RenameStep == ASSUME TInv, FInv, NEW p \in Procs, Rename(p) PROVE FInv'
<1>1. UNCHANGED <<server, held, overlapped>> /\ proc[p].pc = "rename"
  BY HistoryIs DEF Rename
<1>2. CASE service = "stopped" \/ tmp[proc[p].at] = None
  BY <1>1, <1>2, FailsStep DEF Rename
<1>3. CASE ~(service = "stopped" \/ tmp[proc[p].at] = None)
  <2> DEFINE f        == proc[p].at
             Fd(q)    == IF proc[q].fd = "tmp" THEN "out" ELSE "gone"
             Moved(q) == [proc[q] EXCEPT !.fd = Fd(q)]
             next     == [proc[p] EXCEPT !.pc = "open", !.at = f + 1]
  <2>1. /\ proc' = [q \in Procs |->
                      IF q # p THEN IF proc[q].pc # "write" \/ proc[q].at # f THEN proc[q]
                                    ELSE Moved(q)
                      ELSE IF f = 3 THEN Idle ELSE next]
        /\ service' \in {service, "active"}
        /\ out' = [out EXCEPT ![f] = tmp[f]] /\ tmp' = [tmp EXCEPT ![f] = None]
    BY <1>3 DEF Rename, LastFile
  <2>2. f \in Files /\ proc[p].got \in Output
    BY Own DEF ProcState
  <2>3. /\ next.pc = "open" /\ next.at = f + 1 /\ next.got = proc[p].got
        /\ next.wanted = proc[p].wanted
    BY Own DEF ProcState
  <2>4. \A q \in Procs : /\ Moved(q).pc = proc[q].pc /\ Moved(q).got = proc[q].got
                         /\ Moved(q).todo = proc[q].todo /\ Moved(q).wanted = proc[q].wanted
                         /\ Moved(q).at = proc[q].at
    BY Own DEF ProcState
  <2>5. tmp[f] # None
    BY <1>3
  <2> HIDE DEF Moved, next, f
  <2>6. \A q \in Procs : GotOK(proc[q])
    BY DEF FInv
  <2>7. \A q \in Procs : GotOK(Moved(q))
    BY <2>4, <2>6 DEF GotOK
  <2>8. GotOK(next)
    BY <1>1, <2>3, <2>6 DEF GotOK, FetchPCs, WritePCs
  <2>9. \A q \in Procs : q # p => proc'[q].pc = proc[q].pc /\ GotOK(proc'[q])
    BY <2>1, <2>4, <2>6, <2>7
  <2>10. proc'[p] \in {Idle, next} /\ GotOK(proc'[p])
    BY <2>1, <2>8, IdleOK
  <2>11. ASSUME Apart
         PROVE  /\ OutOK(out', held) /\ TempOK(proc'[p], tmp')
                /\ DoneOK(proc'[p], out') /\ FreshOK(proc'[p], held)
    <3>1. /\ TempOK(proc[p], tmp) /\ DoneOK(proc[p], out) /\ FreshOK(proc[p], held)
          /\ OutOK(out, held)
      BY <1>3, <2>11 DEF Apart
    <3>2. tmp[f] = proc[p].got
      BY <1>1, <2>5, <3>1 DEF TempOK, f
    <3>3. \A g \in Files : out'[g] = IF g = f THEN proc[p].got ELSE out[g]
      BY <2>1, <3>2 DEF TInv, TypeOK
    <3>4. proc[p].got \notin {Blank, Torn}
      BY <2>2, FileAssumption
    <3>5. OutOK(out', held)
      BY <1>1, <3>1, <3>3, <3>4 DEF OutOK, FreshOK, FetchPCs
    <3>6. DoneOK(next, out')
      BY <1>1, <2>2, <2>3, <3>1, <3>3 DEF DoneOK, WritePCs, Files, f
    <3>7. FreshOK(next, held) /\ TempOK(next, tmp')
      BY <1>1, <2>3, <3>1 DEF FreshOK, TempOK, FetchPCs
    <3> QED BY <2>10, <3>5, <3>6, <3>7, IdleOK
  <2>12. service # "stopped" /\ service' # "stopped"
    BY <1>3, <2>1
  <2> QED BY <1>1, <2>9, <2>10, <2>11, <2>12, FetchStep DEF FetchPCs
<1> QED BY <1>2, <1>3

(* A fetch starts, by hand or with the directory's next life.              *)
LEMMA StartStep ==
    ASSUME TInv, FInv, NEW p \in Procs, NEW unit \in BOOLEAN, StartFetch(p, unit),
           UNCHANGED <<server, tmp, out>>,
           \/ UNCHANGED <<service, held>>
           \/ /\ service = "stopped" /\ service' = "starting"
              /\ held' = [k \in Keys |-> Plain(k)]
    PROVE  FInv'
<1> DEFINE me == [Idle EXCEPT !.pc = "keys", !.unit = unit]
<1>1. Step(p, me) /\ overlapped' = (overlapped \/ Fetching # {})
  BY DEF StartFetch
<1>2. me.pc = "keys" /\ me.fd = "gone" /\ me.got = Nothing /\ me.at = 1
  BY DEF Idle
<1> HIDE DEF me
<1>3. proc'[p] = me /\ \A q \in Procs : q # p => proc'[q] = proc[q]
  BY <1>1 DEF Step, TInv, TypeOK
<1>4. GotOK(me) /\ (\A t : TempOK(me, t)) /\ (\A o : DoneOK(me, o)) /\ (\A h : FreshOK(me, h))
  BY <1>2 DEF GotOK, TempOK, DoneOK, FreshOK, WritePCs, Nothing
<1>5. ASSUME ~overlapped' PROVE Apart'
  <2>1. ~overlapped /\ \A q \in Procs : proc[q].pc \notin FetchPCs
    BY <1>1, <1>5 DEF Fetching, FetchPCs
  <2>2. \A q \in Procs : q # p => /\ proc'[q].pc \notin FetchPCs
                                  /\ TempOK(proc'[q], tmp') /\ DoneOK(proc'[q], out')
                                  /\ FreshOK(proc'[q], held')
    BY <1>3, <2>1, OtherOK
  <2>3. OutOK(out', held')
    BY <2>1, IdleOK DEF FInv, Apart
  <2> QED BY <1>3, <1>4, <2>2, <2>3 DEF Apart, Alone
<1>6. \A k \in Keys : Plain(k)' = Plain(k)
  BY DEF Plain
<1>7. service' # "stopped" => \A k \in Keys : Plain(k)' \subseteq held'[k]
  BY <1>6 DEF FInv
<1>8. \A q \in Procs : GotOK(proc'[q])
  BY <1>3, <1>4 DEF FInv
<1>9. service' = "stopped" => /\ tmp' = NoFiles /\ out' = NoFiles
                              /\ \A q \in Procs : proc'[q].fd = "gone"
  BY <1>2, <1>3 DEF FInv
<1> QED BY <1>5, <1>7, <1>8, <1>9 DEF FInv

LEMMA ConfigStep ==
    ASSUME TInv, FInv, NEW p \in Procs,
           StartConfig(p) \/ LoadConfigFile(p) \/ Truncate(p) \/ SaveConfig(p)
    PROVE  FInv'
<1>1. UNCHANGED <<server, service, tmp, out, held, overlapped>> /\ proc[p].pc \notin FetchPCs
  BY HistoryIs DEF StartConfig, LoadConfigFile, Truncate, SaveConfig, FetchPCs
<1>2. CASE StartConfig(p)
  <2>1. Step(p, [Idle EXCEPT !.pc = "load"])
    BY <1>2 DEF StartConfig
  <2>2. /\ [Idle EXCEPT !.pc = "load"].pc \notin FetchPCs
        /\ [Idle EXCEPT !.pc = "load"].fd = "gone"
    BY DEF Idle, FetchPCs
  <2> QED BY <1>1, <2>1, <2>2, QuietStep
<1>3. CASE LoadConfigFile(p)
  <2> DEFINE c  == IF config = None THEN NoConfig ELSE config
             me == [proc[p] EXCEPT !.pc = "truncate", !.config = c]
  <2>1. Step(p, IF config \in {Blank, Torn} THEN Idle ELSE me)
    BY <1>3 DEF LoadConfigFile
  <2> HIDE DEF c
  <2>2. me.pc \notin FetchPCs /\ me.fd = proc[p].fd
    BY Own DEF ProcState, FetchPCs
  <2> HIDE DEF me
  <2> QED BY <1>1, <2>1, <2>2, IdleOK, QuietStep
<1>4. CASE Truncate(p)
  <2> DEFINE me == [proc[p] EXCEPT !.pc = "save"]
  <2>1. Step(p, me)
    BY <1>4 DEF Truncate
  <2>2. me.pc \notin FetchPCs /\ me.fd = proc[p].fd
    BY Own DEF ProcState, FetchPCs
  <2> HIDE DEF me
  <2> QED BY <1>1, <2>1, <2>2, QuietStep
<1>5. CASE SaveConfig(p)
  BY <1>1, <1>5, IdleOK, QuietStep DEF SaveConfig
<1> QED BY <1>2, <1>3, <1>4, <1>5

LEMMA WritesStep == ASSUME TInv, FInv, ServerWrites PROVE FInv'
<1>1. UNCHANGED <<config, service, tmp, out, proc, overlapped>>
  BY DEF ServerWrites
<1>2. PICK k \in Keys, stored \in Stored \cup {None} :
          /\ server' = [server EXCEPT ![k] = stored]
          /\ held' = IF stored = None THEN held ELSE [held EXCEPT ![k] = @ \cup {stored.val}]
  BY DEF ServerWrites
<1>3. \A j \in Keys : held[j] \subseteq held'[j]
  BY <1>2 DEF TInv, TypeOK
<1>4. \A j \in Keys : Plain(j)' \subseteq Plain(j) \cup held'[j]
  BY <1>2 DEF TInv, TypeOK, Plain
<1>5. \A q \in Procs : FreshOK(proc[q], held) => FreshOK(proc[q], held')
  BY <1>3 DEF FreshOK
<1>6. OutOK(out, held) => OutOK(out, held')
  BY <1>3 DEF OutOK
<1>7. ~overlapped' => Apart'
  BY <1>1, <1>5, <1>6 DEF FInv, Apart, Alone
<1>8. service' # "stopped" => \A j \in Keys : Plain(j)' \subseteq held'[j]
  BY <1>1, <1>3, <1>4 DEF FInv
<1> QED BY <1>1, <1>7, <1>8 DEF FInv

LEMMA StopStep == ASSUME TInv, FInv, StopService PROVE FInv'
<1> DEFINE procs == [q \in Procs |-> IF proc[q].unit THEN Idle ELSE proc[q]]
<1>1. procs \in [Procs -> ProcState] /\ \A q \in Procs : procs[q] \in {Idle, proc[q]}
  BY IdleType DEF TInv, TypeOK
<1>2. RemoveRuntimeDir(procs) /\ UNCHANGED <<server, held, overlapped>>
  BY HistoryIs DEF StopService
<1> HIDE DEF procs
<1> QED BY <1>1, <1>2, RemoveStep

LEMMA FetchInductive == ASSUME TInv, FInv, [Next]_vars PROVE FInv'
<1>u. CASE UNCHANGED vars
  BY <1>u, HistoryIs DEF vars, FInv, Apart, Alone, Plain
<1>1. ASSUME NEW p \in Procs, StartByHand(p) PROVE FInv'
  BY <1>1, StartStep DEF StartByHand
<1>2. ASSUME NEW p \in Procs, StartService(p) PROVE FInv'
  BY <1>2, StartStep DEF StartService
<1>3. ASSUME NEW p \in Procs, Fail(p) PROVE FInv'
  BY <1>3, HistoryIs, FailsStep DEF Fail
<1> QED
  BY <1>u, <1>1, <1>2, <1>3, LoadKeysStep, LoadSecretStep, GetKeyStep, OpenTempStep, WriteTempStep,
     RenameStep, ConfigStep, WritesStep, StopStep DEF Next

(* The two invariants of fetch hold in every reachable state.              *)
THEOREM FetchInvariance == Spec => [](TInv /\ FInv)
<1>1. Init => TInv /\ FInv
  BY InitTypes, InitFetch
<1>2. TInv /\ FInv /\ [Next]_vars => (TInv /\ FInv)'
  BY StepTypeCorrect, FetchInductive
<1> QED BY <1>1, <1>2, PTL DEF Spec

(* Readers see whole files as long as no two fetches have overlapped,      *)
(* whatever fails, is killed or restarted.                                 *)
THEOREM OneFetch == Spec => []OneFetchIsAtomic
<1>1. FInv => OneFetchIsAtomic
  BY DEF FInv, Apart, OutOK, OneFetchIsAtomic, ReadersSeeWhole
<1> QED BY <1>1, FetchInvariance, PTL

(* Nothing a reader sees is older than the last start of the service.      *)
THEOREM RestartIsFresh == Spec => []NothingStale
<1>1. FInv => NothingStale
  BY DEF FInv, Apart, OutOK, NothingStale
<1> QED BY <1>1, FetchInvariance, PTL

-----------------------------------------------------------------------------
(* What a success means.                                                   *)

LEMMA SuccessIsRename ==
    ASSUME TInv, FInv, Next, ~overlapped, NEW p \in Procs, Succeeds(p)
    PROVE  Rename(p) /\ service # "stopped" /\ tmp[proc[p].at] # None /\ proc[p].at = 3
<1>1. proc[p].pc = "rename" /\ proc'[p] = Idle /\ tmp' # tmp /\ service' # "stopped"
  BY DEF Succeeds
<1>2. \A q \in Procs : ~Fails(q)
  BY <1>1 DEF Fails, RemoveRuntimeDir
<1>3. \A q \in Procs : q # p => proc[q].pc \notin FetchPCs
  BY <1>1 DEF FInv, Apart, Alone, FetchPCs
<1>4. \A q \in Procs : ~LoadKeys(q) /\ ~LoadSecret(q) /\ ~GetKey(q) /\ ~Fail(q)
                      /\ ~StartByHand(q) /\ ~StartService(q)
  BY <1>1, <1>2 DEF LoadKeys, LoadSecret, GetKey, Fail, StartByHand, StartService
<1>5. \A q \in Procs : ~StartConfig(q) /\ ~LoadConfigFile(q) /\ ~Truncate(q) /\ ~SaveConfig(q)
  BY <1>1 DEF StartConfig, LoadConfigFile, Truncate, SaveConfig
<1>6. ~StopService /\ ~ServerWrites
  BY <1>1 DEF StopService, ServerWrites, RemoveRuntimeDir
<1>7. \A q \in Procs : ~OpenTemp(q) /\ ~WriteTemp(q)
  BY <1>1, <1>3 DEF OpenTemp, WriteTemp, FetchPCs
<1>8. \A q \in Procs : Rename(q) => q = p
  BY <1>3 DEF Rename, FetchPCs
<1>9. Rename(p)
  BY <1>4, <1>5, <1>6, <1>7, <1>8 DEF Next
<1>10. service # "stopped" /\ tmp[proc[p].at] # None
  BY <1>2, <1>9 DEF Rename
<1>11. proc[p].at = 3
  <2>1. SUFFICES ASSUME proc[p].at # 3 PROVE FALSE
    OBVIOUS
  <2> DEFINE next == [proc[p] EXCEPT !.pc = "open", !.at = proc[p].at + 1]
  <2>2. proc'[p] = next
    BY <1>9, <1>10, <2>1 DEF Rename, LastFile
  <2>3. next.pc = "open"
    BY Own DEF ProcState
  <2> QED BY <1>1, <2>2, <2>3, IdleType
<1> QED BY <1>9, <1>10, <1>11

LEMMA SuccessStep ==
    ASSUME TInv, FInv, [Next]_vars
    PROVE  \A p \in Procs : ~overlapped /\ Succeeds(p) =>
              \A f \in Files : /\ out'[f] = proc[p].got
                               /\ {k \in Keys : out'[f][k] # None} = proc[p].wanted
<1> SUFFICES ASSUME NEW p \in Procs, ~overlapped, Succeeds(p), NEW f \in Files
             PROVE  /\ out'[f] = proc[p].got
                    /\ {k \in Keys : out'[f][k] # None} = proc[p].wanted
  OBVIOUS
<1>1. Next
  BY DEF Succeeds, vars
<1>2. Rename(p) /\ service # "stopped" /\ tmp[3] # None /\ proc[p].at = 3 /\ proc[p].pc = "rename"
  BY <1>1, SuccessIsRename DEF Succeeds
<1>3. /\ TempOK(proc[p], tmp) /\ DoneOK(proc[p], out) /\ GotOK(proc[p])
  BY <1>2 DEF FInv, Apart
<1>4. out' = [out EXCEPT ![3] = tmp[3]]
  BY <1>2, RenameTypes
<1>5. tmp[3] = proc[p].got
  BY <1>2, <1>3 DEF TempOK
<1>6. 3 \in Files /\ (f # 3 => f < 3)
  BY DEF Files
<1>7. out'[f] = IF f = 3 THEN tmp[3] ELSE out[f]
  BY <1>4, <1>6 DEF TInv, TypeOK
<1>8. f # 3 => out[f] = proc[p].got
  BY <1>2, <1>3, <1>6 DEF DoneOK, WritePCs
<1>9. {k \in Keys : proc[p].got[k] # None} = proc[p].wanted
  BY <1>2, <1>3 DEF GotOK, WritePCs
<1> QED BY <1>5, <1>7, <1>8, <1>9

(* A fetch that reports success leaves three files that agree and hold     *)
(* exactly the sync keys of its configuration.                             *)
THEOREM Success == Spec => SuccessIsComplete
<1>1. TInv /\ FInv /\ [Next]_vars =>
        [\A p \in Procs : ~overlapped /\ Succeeds(p) =>
            \A f \in Files : /\ out'[f] = proc[p].got
                             /\ {k \in Keys : out'[f][k] # None} = proc[p].wanted]_vars
  BY SuccessStep
<1> QED BY <1>1, FetchInvariance, PTL DEF Spec, SuccessIsComplete

-----------------------------------------------------------------------------
(* One config command at a time.                                           *)

ConfigPCs == {"load", "truncate", "save"}

CInv ==
    /\ config \in Config => saved = config
    /\ config = None => saved = NoConfig
    /\ ~clashed =>
         /\ \A p \in Procs : \A q \in Procs :
               proc[p].pc \in ConfigPCs /\ proc[q].pc \in ConfigPCs => p = q
         /\ \A p \in Procs : proc[p].pc \in {"truncate", "save"} => proc[p].config = saved

LEMMA InitConfig == Init => CInv
<1> SUFFICES ASSUME Init PROVE CInv
  OBVIOUS
<1>1. \A p \in Procs : proc[p].pc = "idle"
  BY DEF Init, Idle
<1>2. None \notin Config /\ Blank \notin Config /\ None # Blank
  BY NoneAssumption, FileAssumption
<1> QED BY <1>1, <1>2 DEF Init, CInv, ConfigPCs

(* A step that leaves config.json, and who is to save it, alone.           *)
LEMMA ApartStep ==
    ASSUME CInv, UNCHANGED <<config, saved, clashed>>,
           \A q \in Procs : \/ proc'[q].pc \notin ConfigPCs
                            \/ proc'[q].pc = proc[q].pc /\ proc'[q].config = proc[q].config
    PROVE  CInv'
  BY DEF CInv, ConfigPCs

LEMMA ProcApart ==
    ASSUME TInv, CInv, NEW p \in Procs, NEW me, Step(p, me), me.pc \notin ConfigPCs,
           UNCHANGED <<config, saved, clashed>>
    PROVE  CInv'
<1>1. \A q \in Procs : proc'[q] = IF q = p THEN me ELSE proc[q]
  BY DEF Step, TInv, TypeOK
<1>2. \A q \in Procs : \/ proc'[q].pc \notin ConfigPCs
                       \/ proc'[q].pc = proc[q].pc /\ proc'[q].config = proc[q].config
  BY <1>1
<1> QED BY <1>2, ApartStep

LEMMA RemoveApart ==
    ASSUME CInv, NEW procs \in [Procs -> ProcState], \A q \in Procs : procs[q] \in {Idle, proc[q]},
           RemoveRuntimeDir(procs), UNCHANGED <<config, saved, clashed>>
    PROVE  CInv'
<1> DEFINE me(q) == [procs[q] EXCEPT !.fd = "gone"]
<1>1. \A q \in Procs : proc'[q] = me(q)
  BY DEF RemoveRuntimeDir
<1>2. \A q \in Procs : me(q).pc = procs[q].pc /\ me(q).config = procs[q].config
  BY DEF ProcState
<1> HIDE DEF me
<1>3. Idle.pc \notin ConfigPCs
  BY IdleType DEF ConfigPCs
<1>4. \A q \in Procs : \/ proc'[q].pc \notin ConfigPCs
                       \/ proc'[q].pc = proc[q].pc /\ proc'[q].config = proc[q].config
  BY <1>1, <1>2, <1>3
<1> QED BY <1>4, ApartStep

LEMMA FailsApart ==
    ASSUME TInv, CInv, NEW p \in Procs, Fails(p), UNCHANGED <<config, saved, clashed>>
    PROVE  CInv'
<1>1. CASE proc[p].unit
  <2> DEFINE procs == [proc EXCEPT ![p] = Idle]
  <2>1. procs \in [Procs -> ProcState] /\ \A q \in Procs : procs[q] \in {Idle, proc[q]}
    BY IdleType DEF TInv, TypeOK
  <2>2. RemoveRuntimeDir(procs)
    BY <1>1 DEF Fails
  <2> HIDE DEF procs
  <2> QED BY <2>1, <2>2, RemoveApart
<1>2. CASE ~proc[p].unit
  <2>1. Idle.pc \notin ConfigPCs
    BY IdleType DEF ConfigPCs
  <2> QED BY <1>2, <2>1, ProcApart DEF Fails
<1> QED BY <1>1, <1>2

LEMMA FetchApart ==
    ASSUME TInv, CInv, NEW p \in Procs,
           \/ LoadKeys(p) \/ LoadSecret(p) \/ GetKey(p)
           \/ OpenTemp(p) \/ WriteTemp(p) \/ Rename(p)
    PROVE  CInv'
<1>1. UNCHANGED <<config, saved, clashed>> /\ proc[p].pc \notin ConfigPCs
  BY HistoryIs DEF LoadKeys, LoadSecret, GetKey, OpenTemp, WriteTemp, Rename, ConfigPCs
<1>2. CASE Fails(p)
  BY <1>1, <1>2, FailsApart
<1>3. CASE \E me : Step(p, me) /\ me.pc \notin ConfigPCs
  BY <1>1, <1>3, ProcApart
<1>4. CASE LoadKeys(p)
  <2> DEFINE me == [proc[p] EXCEPT !.pc = "secret", !.wanted = config.syncKeys,
                                   !.todo = config.syncKeys]
  <2>1. me.pc \notin ConfigPCs
    BY Own DEF ProcState, ConfigPCs
  <2>2. Step(p, me) \/ Fails(p)
    BY <1>4 DEF LoadKeys
  <2> HIDE DEF me
  <2> QED BY <1>2, <1>3, <2>1, <2>2
<1>5. CASE LoadSecret(p)
  <2> DEFINE s  == IF config \in Config THEN config.secret ELSE None
             me == [proc[p] EXCEPT !.pc = "get", !.secret = s]
  <2>1. Step(p, me)
    BY <1>5 DEF LoadSecret
  <2> HIDE DEF s
  <2>2. me.pc \notin ConfigPCs
    BY Own DEF ProcState, ConfigPCs
  <2> HIDE DEF me
  <2> QED BY <1>3, <2>1, <2>2
<1>6. CASE GetKey(p)
  <2>1. CASE Fails(p)
    BY <1>2, <2>1
  <2>2. ASSUME NEW k \in proc[p].todo,
               Step(p, [proc[p] EXCEPT !.todo = @ \ {k}, !.got[k] = Got(server[k], proc[p].secret),
                                       !.pc = IF proc[p].todo = {k} THEN "open" ELSE "get"])
        PROVE  CInv'
    <3> DEFINE v  == Got(server[k], proc[p].secret)
               pc == IF proc[p].todo = {k} THEN "open" ELSE "get"
               me == [proc[p] EXCEPT !.todo = @ \ {k}, !.got[k] = v, !.pc = pc]
    <3>1. Step(p, me)
      BY <2>2
    <3>2. pc \notin ConfigPCs
      BY DEF ConfigPCs
    <3> HIDE DEF v, pc
    <3>3. me.pc = pc
      BY Own DEF ProcState
    <3> HIDE DEF me
    <3> QED BY <1>3, <3>1, <3>2, <3>3
  <2> QED BY <1>6, <2>1, <2>2 DEF GetKey
<1>7. CASE OpenTemp(p)
  <2> DEFINE me == [proc[p] EXCEPT !.pc = "write", !.fd = "tmp"]
  <2>1. me.pc \notin ConfigPCs
    BY Own DEF ProcState, ConfigPCs
  <2>2. Step(p, me) \/ Fails(p)
    BY <1>7 DEF OpenTemp
  <2> HIDE DEF me
  <2> QED BY <1>2, <1>3, <2>1, <2>2
<1>8. CASE WriteTemp(p)
  <2> DEFINE me == [proc[p] EXCEPT !.pc = "rename", !.fd = "gone"]
  <2>1. me.pc \notin ConfigPCs
    BY Own DEF ProcState, ConfigPCs
  <2>2. Step(p, me)
    BY <1>8 DEF WriteTemp
  <2> HIDE DEF me
  <2> QED BY <1>3, <2>1, <2>2
<1>9. CASE Rename(p) /\ ~Fails(p)
  <2> DEFINE Fd(q)    == IF proc[q].fd = "tmp" THEN "out" ELSE "gone"
             Moved(q) == [proc[q] EXCEPT !.fd = Fd(q)]
             next     == [proc[p] EXCEPT !.pc = "open", !.at = proc[p].at + 1]
  <2>1. proc' = [q \in Procs |->
                   IF q # p THEN IF proc[q].pc # "write" \/ proc[q].at # proc[p].at THEN proc[q]
                                 ELSE Moved(q)
                   ELSE IF proc[p].at = 3 THEN Idle ELSE next]
    BY <1>9 DEF Rename, LastFile
  <2>2. \A q \in Procs : Moved(q).pc = proc[q].pc /\ Moved(q).config = proc[q].config
    BY Own DEF ProcState
  <2>3. next.pc \notin ConfigPCs /\ Idle.pc \notin ConfigPCs
    BY Own, IdleType DEF ProcState, ConfigPCs
  <2> HIDE DEF Moved, next
  <2>4. \A q \in Procs : \/ proc'[q].pc \notin ConfigPCs
                         \/ proc'[q].pc = proc[q].pc /\ proc'[q].config = proc[q].config
    BY <2>1, <2>2, <2>3
  <2> QED BY <1>1, <2>4, ApartStep
<1> QED BY <1>2, <1>4, <1>5, <1>6, <1>7, <1>8, <1>9

LEMMA StartApart ==
    ASSUME TInv, CInv, NEW p \in Procs, StartByHand(p) \/ StartService(p)
    PROVE  CInv'
<1>1. PICK unit \in BOOLEAN : StartFetch(p, unit)
  BY DEF StartByHand, StartService
<1> DEFINE me == [Idle EXCEPT !.pc = "keys", !.unit = unit]
<1>2. Step(p, me) /\ UNCHANGED <<config, saved, clashed>>
  BY <1>1 DEF StartFetch, StartByHand, StartService
<1>3. me.pc \notin ConfigPCs
  BY DEF Idle, ConfigPCs
<1> HIDE DEF me
<1> QED BY <1>2, <1>3, ProcApart

(* The four steps of a config command.                                     *)
LEMMA ConfigApart ==
    ASSUME TInv, CInv, NEW p \in Procs,
           StartConfig(p) \/ LoadConfigFile(p) \/ Truncate(p) \/ SaveConfig(p)
    PROVE  CInv'
<1>1. CASE StartConfig(p)
  <2> DEFINE me == [Idle EXCEPT !.pc = "load"]
  <2>1. /\ Step(p, me) /\ UNCHANGED <<config, saved>>
        /\ clashed' = (clashed \/ Configuring # {})
    BY <1>1 DEF StartConfig
  <2>2. me.pc = "load"
    BY DEF Idle
  <2> HIDE DEF me
  <2>3. \A q \in Procs : proc'[q] = IF q = p THEN me ELSE proc[q]
    BY <2>1 DEF Step, TInv, TypeOK
  <2>4. ~clashed' => ~clashed /\ \A q \in Procs : proc[q].pc \notin ConfigPCs
    BY <2>1 DEF Configuring, ConfigPCs
  <2> QED BY <2>1, <2>2, <2>3, <2>4 DEF CInv, ConfigPCs
<1>2. CASE LoadConfigFile(p)
  <2> DEFINE c  == IF config = None THEN NoConfig ELSE config
             me == [proc[p] EXCEPT !.pc = "truncate", !.config = c]
  <2>1. /\ Step(p, IF config \in {Blank, Torn} THEN Idle ELSE me)
        /\ UNCHANGED <<config, saved, clashed>> /\ proc[p].pc = "load"
    BY <1>2, HistoryIs DEF LoadConfigFile
  <2>2. config \notin {Blank, Torn} => c = saved
    BY DEF CInv, TInv, TypeOK
  <2> HIDE DEF c
  <2>3. me.pc = "truncate" /\ me.config = c
    BY Own DEF ProcState
  <2> HIDE DEF me
  <2>4. \A q \in Procs : q # p => proc'[q] = proc[q]
    BY <2>1 DEF Step, TInv, TypeOK
  <2>5. proc'[p] = IF config \in {Blank, Torn} THEN Idle ELSE me
    BY <2>1 DEF Step, TInv, TypeOK
  <2> QED BY <2>1, <2>2, <2>3, <2>4, <2>5, IdleType DEF CInv, ConfigPCs
<1>3. CASE Truncate(p)
  <2> DEFINE me == [proc[p] EXCEPT !.pc = "save"]
  <2>1. /\ Step(p, me) /\ config' = Blank /\ UNCHANGED <<saved, clashed>>
        /\ proc[p].pc = "truncate"
    BY <1>3, HistoryIs DEF Truncate
  <2>2. me.pc = "save" /\ me.config = proc[p].config
    BY Own DEF ProcState
  <2> HIDE DEF me
  <2>3. \A q \in Procs : proc'[q] = IF q = p THEN me ELSE proc[q]
    BY <2>1 DEF Step, TInv, TypeOK
  <2>4. Blank \notin Config /\ Blank # None
    BY NoneAssumption, FileAssumption
  <2> QED BY <2>1, <2>2, <2>3, <2>4 DEF CInv, ConfigPCs
<1>4. CASE SaveConfig(p)
  <2>1. Step(p, Idle) /\ UNCHANGED clashed /\ proc[p].pc = "save"
    BY <1>4 DEF SaveConfig
  <2>2. config' \in Config \cup {Torn} /\ saved' = IF config' \in Config THEN config' ELSE saved
    BY <1>4, SaveTypes
  <2>3. \A q \in Procs : proc'[q] = IF q = p THEN Idle ELSE proc[q]
    BY <2>1 DEF Step, TInv, TypeOK
  <2>4. None \notin Config \cup {Torn}
    BY NoneAssumption, FileAssumption
  <2> QED BY <2>1, <2>2, <2>3, <2>4, IdleType DEF CInv, ConfigPCs
<1> QED BY <1>1, <1>2, <1>3, <1>4

LEMMA ConfigInductive == ASSUME TInv, CInv, [Next]_vars PROVE CInv'
<1>u. CASE UNCHANGED vars
  BY <1>u, HistoryIs DEF vars, CInv
<1>1. ASSUME NEW p \in Procs, Fail(p) PROVE CInv'
  BY <1>1, HistoryIs, FailsApart DEF Fail
<1>2. CASE ServerWrites
  BY <1>2 DEF ServerWrites, CInv
<1>3. CASE StopService
  <2> DEFINE procs == [q \in Procs |-> IF proc[q].unit THEN Idle ELSE proc[q]]
  <2>1. procs \in [Procs -> ProcState] /\ \A q \in Procs : procs[q] \in {Idle, proc[q]}
    BY IdleType DEF TInv, TypeOK
  <2>2. RemoveRuntimeDir(procs) /\ UNCHANGED <<config, saved, clashed>>
    BY <1>3, HistoryIs DEF StopService
  <2> HIDE DEF procs
  <2> QED BY <2>1, <2>2, RemoveApart
<1> QED
  BY <1>u, <1>1, <1>2, <1>3, FetchApart, StartApart, ConfigApart DEF Next

(* saved changes only when a config command writes a whole file, which is  *)
(* then what it loaded but for one field.                                  *)
LEMMA KeepsRestStep ==
    ASSUME TInv, CInv, [Next]_vars
    PROVE  ~clashed /\ saved' # saved =>
              saved'.secret = saved.secret \/ saved'.syncKeys = saved.syncKeys
<1> SUFFICES ASSUME ~clashed, saved' # saved
             PROVE  saved'.secret = saved.secret \/ saved'.syncKeys = saved.syncKeys
  OBVIOUS
<1>1. PICK p \in Procs : SaveConfig(p)
  BY HistoryIs DEF Next, vars, StartByHand, StartService, LoadKeys, LoadSecret, GetKey, OpenTemp,
     WriteTemp, Rename, StartConfig, LoadConfigFile, Truncate, Fail, StopService, ServerWrites
<1>2. saved' = config' /\ config' \in Config /\ config' # Torn
  BY <1>1, SaveTypes, FileAssumption
<1>3. config' \in Edits(saved)
  BY <1>1, <1>2, SaveTypes DEF CInv, SaveConfig
<1>4. saved \in Config
  BY DEF TInv, TypeOK
<1> QED BY <1>2, <1>3, <1>4 DEF Edits, Config

(* A config command keeps what it does not set, however it is interrupted, *)
(* as long as no two of them have overlapped.                              *)
THEOREM RestIsKept == Spec => ConfigKeepsRest
<1>1. Init => TInv /\ CInv
  BY InitTypes, InitConfig
<1>2. TInv /\ CInv /\ [Next]_vars => (TInv /\ CInv)'
  BY StepTypeCorrect, ConfigInductive
<1>3. TInv /\ CInv /\ [Next]_vars =>
        [~clashed /\ saved' # saved =>
            saved'.secret = saved.secret \/ saved'.syncKeys = saved.syncKeys]_vars
  BY KeepsRestStep
<1> QED BY <1>1, <1>2, <1>3, PTL DEF Spec, ConfigKeepsRest
==============================================================================
