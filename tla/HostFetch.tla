------------------------------ MODULE HostFetch ------------------------------
(***************************************************************************)
(* A host that runs `kilovault fetch` (cmd/kilovault/fetch.go) from its    *)
(* systemd unit (pkg/service/install.go), or by hand, beside commands that *)
(* change config.json (cmd/kilovault/main.go, pkg/client/client.go).       *)
(* config.json is rewritten in place; the output files go through a        *)
(* temporary file with a fixed name.  One action is one RPC or one call of *)
(* the file system.                                                        *)
(***************************************************************************)
EXTENDS Naturals, FiniteSets

CONSTANTS
    Procs,      \* processes: `fetch` and `config set`
    Keys,       \* vault keys
    Values,     \* non-empty values
    Secrets,    \* E2E secrets
    Empty,      \* what the server answers for a key that is not set
    None,       \* absent: no file, no secret, no key
    Blank,      \* a file that was truncated and not written yet
    Torn,       \* a file with parts of two writes
    Limit       \* how often each kind of event in Budget may happen

Budget == {"fetch", "config", "service", "write", "failure"}

(* A value on the server, encrypted under `enc` or plaintext.              *)
Stored == [val : Values, enc : Secrets \cup {None}]

(* config.json.  A command that sets another field, and `init`, rewrite    *)
(* these two as they loaded them.                                          *)
Config == [secret : Secrets \cup {None}, syncKeys : SUBSET Keys]
NoConfig == [secret |-> None, syncKeys |-> {}]

(* What the output files hold: the values under their output names.        *)
Output == [Keys -> Values \cup {None}]
Nothing == [k \in Keys |-> None]

(* env.yaml, .env and kilovault.fact, in the order they are written.       *)
Files == 1..3

ASSUME NoneAssumption == None \notin Stored \cup Values \cup Secrets \cup {Blank, Torn}
ASSUME FileAssumption == {None, Blank, Torn} \cap (Config \cup Output) = {}
ASSUME LimitAssumption == Limit \in [Budget -> Nat]

VARIABLES
    server,     \* server[k]: the stored value, or None
    config,     \* config.json: a configuration, None, Blank or Torn
    service,    \* the unit; /run/kilovault is there unless it is stopped
    tmp, out,   \* tmp[f], out[f]: the temporary and the output file
    proc,       \* proc[p]: the memory of process p
    held,       \* history: held[k], what k was on the server since the start
    saved,      \* history: the last whole configuration
    overlapped, \* history: two fetches have run at the same time
    clashed,    \* history: two config commands have
    spent       \* how much of each budget is used up

history == <<held, saved, overlapped, clashed>>
vars == <<server, config, service, tmp, out, proc, history, spent>>

ProcState ==
    [pc     : {"idle", "keys", "secret", "get", "open", "write", "rename",
               "load", "truncate", "save"},
     unit   : BOOLEAN,                       \* started by the systemd unit
     wanted : SUBSET Keys,                   \* the sync keys
     todo   : SUBSET Keys,                   \* those still to get
     secret : Secrets \cup {None},
     got    : [Keys -> Values \cup {Empty, None}],
     at     : Files,                         \* the file being written
     fd     : {"tmp", "out", "gone"},        \* where the open file is by now
     config : Config]                        \* config set: what it loaded

Idle == [pc |-> "idle", unit |-> FALSE, wanted |-> {}, todo |-> {}, secret |-> None,
         got |-> Nothing, at |-> 1, fd |-> "gone", config |-> NoConfig]

NoFiles == [f \in Files |-> None]

(* A config command may have been killed half-way before.                  *)
Init ==
    /\ server \in [Keys -> Stored \cup {None}]
    /\ config \in Config \cup {None, Blank}
    /\ service = "stopped" /\ tmp = NoFiles /\ out = NoFiles
    /\ proc = [p \in Procs |-> Idle]
    /\ held = [k \in Keys |-> {}]
    /\ saved \in IF config = Blank THEN Config ELSE {IF config = None THEN NoConfig ELSE config}
    /\ overlapped = FALSE /\ clashed = FALSE
    /\ spent = [b \in Budget |-> 0]

-----------------------------------------------------------------------------
Spend(b) == /\ spent[b] < Limit[b]
            /\ spent' = [spent EXCEPT ![b] = @ + 1]

Step(p, me) == proc' = [proc EXCEPT ![p] = me]

Fetching == {p \in Procs : proc[p].pc \in {"keys", "secret", "get", "open", "write", "rename"}}
Configuring == {p \in Procs : proc[p].pc \in {"load", "truncate", "save"}}

(* The runtime directory goes with its files; what is open stays open.     *)
RemoveRuntimeDir(procs) ==
    /\ service' = "stopped" /\ tmp' = NoFiles /\ out' = NoFiles
    /\ proc' = [q \in Procs |-> [procs[q] EXCEPT !.fd = "gone"]]

(* A fetch ends in an error; the unit's failure stops the service.         *)
Fails(p) ==
    IF proc[p].unit
      THEN RemoveRuntimeDir([proc EXCEPT ![p] = Idle])
      ELSE Step(p, Idle) /\ UNCHANGED <<service, tmp, out>>

(* What a write from the start of a file that others write too leaves.     *)
Overlay(old, new) == IF old = Blank THEN {new} ELSE {new, Torn}

-----------------------------------------------------------------------------
(* fetch                                                                   *)

StartFetch(p, unit) ==
    /\ proc[p].pc = "idle"
    /\ Step(p, [Idle EXCEPT !.pc = "keys", !.unit = unit])
    /\ overlapped' = (overlapped \/ Fetching # {})

StartByHand(p) ==
    /\ Spend("fetch")
    /\ StartFetch(p, FALSE)
    /\ UNCHANGED <<server, config, service, tmp, out, held, saved, clashed>>

LoadKeys(p) ==
    /\ proc[p].pc = "keys"
    /\ IF config \in Config /\ config.syncKeys # {}
         THEN /\ Step(p, [proc[p] EXCEPT !.pc = "secret", !.wanted = config.syncKeys,
                                         !.todo = config.syncKeys])
              /\ UNCHANGED <<service, tmp, out>>
         ELSE Fails(p)
    /\ UNCHANGED <<server, config, history, spent>>

(* ResolveSecret loads config.json again and takes an error for no secret. *)
LoadSecret(p) ==
    /\ proc[p].pc = "secret"
    /\ Step(p, [proc[p] EXCEPT !.pc = "get",
                  !.secret = IF config \in Config THEN config.secret ELSE None])
    /\ UNCHANGED <<server, config, service, tmp, out, history, spent>>

Got(stored, secret) ==
    IF stored = None THEN Empty
    ELSE IF stored.enc \in {None, secret} THEN stored.val
    ELSE None

TakesAny(stored, secret) == Got(stored, secret) # None
Takes(stored, secret) == Got(stored, secret) \notin {Empty, None}

(* A key that is not set, or that the secret does not open, ends the fetch *)
(* before anything is written.                                             *)
GetKey(p) ==
    LET me == proc[p]
    IN  /\ me.pc = "get"
        /\ \E k \in me.todo :
              IF Takes(server[k], me.secret)
                THEN /\ Step(p, [me EXCEPT !.todo = @ \ {k},
                                  !.got[k] = Got(server[k], me.secret),
                                  !.pc = IF me.todo = {k} THEN "open" ELSE "get"])
                     /\ UNCHANGED <<service, tmp, out>>
                ELSE Fails(p)
        /\ UNCHANGED <<server, config, history, spent>>

(* writeAtomic: the temporary file is opened and truncated, ...            *)
OpensTarget(p) ==
    LET me == proc[p]
    IN  /\ me.pc = "open"
        /\ IF service = "stopped"
             THEN Fails(p)
             ELSE /\ out' = [out EXCEPT ![me.at] = Blank]
                  /\ tmp' = [tmp EXCEPT ![me.at] = Blank]
                  /\ Step(p, [me EXCEPT !.pc = "write", !.fd = "tmp"])
                  /\ UNCHANGED service
        /\ UNCHANGED <<server, config, history, spent>>
OpenTemp(p) ==
    LET me == proc[p]
    IN  /\ me.pc = "open"
        /\ IF service = "stopped"
             THEN Fails(p)
             ELSE /\ tmp' = [tmp EXCEPT ![me.at] = Blank]
                  /\ Step(p, [me EXCEPT !.pc = "write", !.fd = "tmp"])
                  /\ UNCHANGED <<service, out>>
        /\ UNCHANGED <<server, config, history, spent>>

(* ... written, wherever it has been moved meanwhile, ...                  *)
WriteTemp(p) ==
    LET me == proc[p]
        f  == me.at
    IN  /\ me.pc = "write"
        /\ IF me.fd = "tmp" THEN \E c \in Overlay(tmp[f], me.got) : tmp' = [tmp EXCEPT ![f] = c]
                            ELSE UNCHANGED tmp
        /\ IF me.fd = "out" THEN \E c \in Overlay(out[f], me.got) : out' = [out EXCEPT ![f] = c]
                            ELSE UNCHANGED out
        /\ Step(p, [me EXCEPT !.pc = "rename", !.fd = "gone"])
        /\ UNCHANGED <<server, config, service, history, spent>>

WithoutFacts == 2
LastFile == 3

(* ... and renamed by its name, whoever wrote it.  A file open in another  *)
(* process moves with its name.                                            *)
Rename(p) ==
    LET me   == proc[p]
        f    == me.at
        Moved(q) == IF proc[q].pc # "write" \/ proc[q].at # f THEN proc[q]
                    ELSE [proc[q] EXCEPT !.fd = IF @ = "tmp" THEN "out" ELSE "gone"]
        done == f = LastFile
    IN  /\ me.pc = "rename"
        /\ IF service = "stopped" \/ tmp[f] = None
             THEN Fails(p)
             ELSE /\ out' = [out EXCEPT ![f] = tmp[f]]
                  /\ tmp' = [tmp EXCEPT ![f] = None]
                  /\ proc' = [q \in Procs |->
                                IF q # p THEN Moved(q)
                                ELSE IF done THEN Idle
                                ELSE [me EXCEPT !.pc = "open", !.at = f + 1]]
                  /\ service' = IF done /\ me.unit THEN "active" ELSE service
        /\ UNCHANGED <<server, config, history, spent>>

-----------------------------------------------------------------------------
(* config set, config clear and the other commands that save config.json.  *)

StartConfig(p) ==
    /\ proc[p].pc = "idle"
    /\ Spend("config")
    /\ Step(p, [Idle EXCEPT !.pc = "load"])
    /\ clashed' = (clashed \/ Configuring # {})
    /\ UNCHANGED <<server, config, service, tmp, out, held, saved, overlapped>>

LoadsAnything(p) ==
    /\ proc[p].pc = "load"
    /\ Step(p, [proc[p] EXCEPT !.pc = "truncate",
                  !.config = IF config \in Config THEN config ELSE NoConfig])
    /\ UNCHANGED <<server, config, service, tmp, out, history, spent>>
LoadConfigFile(p) ==
    /\ proc[p].pc = "load"
    /\ Step(p, IF config \in {Blank, Torn} THEN Idle
               ELSE [proc[p] EXCEPT !.pc = "truncate",
                       !.config = IF config = None THEN NoConfig ELSE config])
    /\ UNCHANGED <<server, config, service, tmp, out, history, spent>>

Truncate(p) ==
    /\ proc[p].pc = "truncate"
    /\ config' = Blank
    /\ Step(p, [proc[p] EXCEPT !.pc = "save"])
    /\ UNCHANGED <<server, service, tmp, out, history, spent>>

(* What ParseSyncKeys accepts; only `clear` leaves none.                   *)
SyncKeyLists == SUBSET Keys \ {{}}

(* One field, or one the model does not have.                              *)
Edits(c) == {c} \cup {[c EXCEPT !.secret = s] : s \in Secrets \cup {None}}
                \cup {[c EXCEPT !.syncKeys = ks] : ks \in SyncKeyLists \cup {{}}}

SaveConfig(p) ==
    /\ proc[p].pc = "save"
    /\ \E new \in Edits(proc[p].config) : config' \in Overlay(config, new)
    /\ saved' = IF config' \in Config THEN config' ELSE saved
    /\ Step(p, Idle)
    /\ UNCHANGED <<server, service, tmp, out, held, overlapped, clashed, spent>>

-----------------------------------------------------------------------------
(* The unit, the server and failures.                                      *)

Plain(k) == IF server[k] = None THEN {} ELSE {server[k].val}

(* systemd makes the runtime directory and runs fetch in it.               *)
StartService(p) ==
    /\ service = "stopped"
    /\ Spend("service")
    /\ service' = "starting"
    /\ StartFetch(p, TRUE)
    /\ held' = [k \in Keys |-> Plain(k)]
    /\ UNCHANGED <<server, config, tmp, out, saved, clashed>>

(* stop, or the first half of restart: the unit's process is killed and    *)
(* the directory removed.                                                  *)
PreservesDir ==
    /\ service # "stopped"
    /\ service' = "stopped"
    /\ proc' = [q \in Procs |-> IF proc[q].unit THEN Idle ELSE proc[q]]
    /\ UNCHANGED <<server, config, tmp, out, history, spent>>
StopService ==
    /\ service # "stopped"
    /\ RemoveRuntimeDir([q \in Procs |-> IF proc[q].unit THEN Idle ELSE proc[q]])
    /\ UNCHANGED <<server, config, history, spent>>

(* An RPC or a call of the file system fails, or the process is killed.    *)
Fail(p) ==
    /\ proc[p].pc # "idle"
    /\ Spend("failure")
    /\ Fails(p)
    /\ UNCHANGED <<server, config, history>>

ServerWrites ==
    /\ Spend("write")
    /\ \E k \in Keys, stored \in Stored \cup {None} :
          /\ server' = [server EXCEPT ![k] = stored]
          /\ held' = IF stored = None THEN held ELSE [held EXCEPT ![k] = @ \cup {stored.val}]
    /\ UNCHANGED <<config, service, tmp, out, proc, saved, overlapped, clashed>>

Next ==
    \/ \E p \in Procs :
         \/ StartByHand(p) \/ StartService(p)
         \/ LoadKeys(p) \/ LoadSecret(p) \/ GetKey(p)
         \/ OpenTemp(p) \/ WriteTemp(p) \/ Rename(p)
         \/ StartConfig(p) \/ LoadConfigFile(p) \/ Truncate(p) \/ SaveConfig(p)
         \/ Fail(p)
    \/ StopService \/ ServerWrites

Spec == Init /\ [][Next]_vars

-----------------------------------------------------------------------------
(* Properties.                                                             *)

(* Every variable keeps its type.                                          *)
TypeOK ==
    /\ server \in [Keys -> Stored \cup {None}]
    /\ config \in Config \cup {None, Blank, Torn}
    /\ service \in {"stopped", "starting", "active"}
    /\ tmp \in [Files -> Output \cup {None, Blank, Torn}]
    /\ out \in [Files -> Output \cup {None, Blank, Torn}]
    /\ proc \in [Procs -> ProcState]
    /\ held \in [Keys -> SUBSET Values]
    /\ saved \in Config
    /\ overlapped \in BOOLEAN /\ clashed \in BOOLEAN
    /\ spent \in [Budget -> Nat]

(* fetch.go:82-84: a concurrent reader never observes a partially-written  *)
(* file.                                                                   *)
ReadersSeeWhole == \A f \in Files : out[f] \notin {Blank, Torn}

(* It holds as long as two fetches do not run at once, whatever fails or   *)
(* is killed in between, restarts of the service included.                 *)
OneFetchIsAtomic == ~overlapped => ReadersSeeWhole

(* A restart never leaves stale secrets: whatever a file gives for a key   *)
(* was that key's value on the server after the service was last started,  *)
(* through failed fetches, changed configurations and fetches by hand.     *)
NothingStale ==
    ~overlapped => \A f \in Files, k \in Keys :
        out[f] \in Output /\ out[f][k] # None => out[f][k] \in held[k]

(* The step in which p reports success.                                    *)
Succeeds(p) ==
    /\ proc[p].pc = "rename" /\ proc'[p] = Idle
    /\ tmp' # tmp /\ service' # "stopped"

(* A fetch that reports success leaves three files that agree and hold     *)
(* every sync key of its configuration and no other, even when config      *)
(* commands and foreign writes run beside it.                              *)
SuccessIsComplete ==
    [][\A p \in Procs : ~overlapped /\ Succeeds(p) =>
          \A f \in Files : /\ out'[f] = proc[p].got
                           /\ {k \in Keys : out'[f][k] # None} = proc[p].wanted]_vars

(* A config command changes one field of the last whole configuration: one *)
(* that finds config.json truncated, by a command that was killed half-way,*)
(* stops instead of saving a nearly empty one.                             *)
ConfigKeepsRest ==
    [][~clashed /\ saved' # saved =>
          saved'.secret = saved.secret \/ saved'.syncKeys = saved.syncKeys]_vars
=============================================================================
