------------------------------- MODULE BatchRun -------------------------------
(***************************************************************************)
(* `batch run` and `batch export` (cmd/kilovault/batch.go) and the single  *)
(* commands `set`, `attr`, `admin set` and `admin delete` that make the    *)
(* same calls (cmd/kilovault/main.go): operations on the server one after  *)
(* another, without rollback, beside other clients.  One action is one RPC *)
(* or one call of the file system.  How `attr` edits a JSON value is the   *)
(* parameter AttrEdit; AttrPath has what the code does.                    *)
(***************************************************************************)
EXTENDS Naturals, Sequences

CONSTANTS
    Procs,      \* processes
    Users,      \* vault users
    Caller,     \* the user of the token the commands run with, an admin
    Keys,       \* vault keys
    Secrets,    \* E2E secrets
    Contents,   \* plaintexts of values
    NoText,     \* the empty plaintext
    NoAttrs,    \* the JSON object without attributes
    Edits,      \* what an "attr" removes and sets
    AttrEdit(_, _), \* AttrEdit(content, edits): the edited content, or Failed
    Batches,    \* batch files: sequences of operations
    Servers,    \* what the server may hold at first
    Failed,     \* an error instead of a result
    None,       \* absent: no value, no user, no secret, no file
    Blank,      \* a file that was truncated and not written yet
    Torn,       \* a file with parts of two writes
    Limit       \* how often each kind of event in Budget may happen

Budget == {"start", "trouble"}
Slots == Users \X Keys

(* A value as the server stores it: a plaintext under layers of            *)
(* encryption, the outermost first.                                        *)
Stored == [plain : Contents, layers : Seq(Secrets)]
Plain(content) == [plain |-> content, layers |-> <<>>]

BatchOp == [op : {"set", "attr", "delete", "other"}, key : Keys, user : Users \cup {None},
            value : Stored \cup {None}, raw : BOOLEAN, edits : Edits \cup {None}]

ASSUME CallerAssumption == Caller \in Users
ASSUME ContentAssumption == {NoText, NoAttrs} \subseteq Contents
ASSUME EditAssumption == \A c \in Contents, e \in Edits : AttrEdit(c, e) \in Contents \cup {Failed}
ASSUME NoneAssumption == None \notin Stored \cup Users \cup Secrets \cup Edits \cup Procs
ASSUME FailedAssumption == Failed \notin Contents \cup Stored
ASSUME FileAssumption == {None, Blank, Torn} \cap Seq(BatchOp) = {}
ASSUME BatchAssumption == Batches \subseteq Seq(BatchOp)
ASSUME ServerAssumption == Servers \subseteq [Slots -> Stored \cup {None}]
ASSUME LimitAssumption == Limit \in [Budget -> Nat]

VARIABLES
    server,     \* server[slot]: the stored value, or None
    backup,     \* the file of `batch export`
    exported,   \* history: what the backup should bring back, per slot
    proc,       \* proc[p]: the memory of process p
    hist,       \* history: what p's command started from, see HistState
    spent       \* how much of each budget is used up

vars == <<server, backup, exported, proc, hist, spent>>

ProcState ==
    [pc     : {"idle", "run", "attr", "done", "stopped", "get", "open", "save"},
     ops    : Seq(BatchOp),
     at     : Nat \ {0},                     \* the operation it is at
     secret : Secrets \cup {None},
     got    : Stored \cup {None},            \* attr: what it read
     new    : Contents \cup {Failed, None},  \* attr: what it makes of it
     todo   : SUBSET Slots]                  \* export: keys still to get

Idle == [pc |-> "idle", ops |-> <<>>, at |-> 1, secret |-> None, got |-> None, new |-> None,
         todo |-> {}]

NoValues == [slot \in Slots |-> None]

HistState ==
    [before   : [Slots -> Stored \cup {None}],   \* the server when it started
     touched  : SUBSET Slots,                    \* written by others since
     expected : [Slots -> Stored \cup {None}]]   \* what a restore should bring

NoHist == [before |-> NoValues, touched |-> {}, expected |-> NoValues]

Init ==
    /\ server \in Servers
    /\ backup = None /\ exported = NoValues
    /\ proc = [p \in Procs |-> Idle]
    /\ hist = [p \in Procs |-> NoHist]
    /\ spent = [b \in Budget |-> 0]

-----------------------------------------------------------------------------
Spend(b) == /\ spent[b] < Limit[b]
            /\ spent' = [spent EXCEPT ![b] = @ + 1]

Step(p, me) == proc' = [proc EXCEPT ![p] = me]

Resting(p) == proc[p].pc \in {"idle", "done", "stopped"}
Current(p) == proc[p].ops[proc[p].at]

(* An operation of the caller's own, or of a user it names.                *)
Slot(o) == <<IF o.user = None THEN Caller ELSE o.user, o.key>>

Begins(p, expected) ==
    hist' = [hist EXCEPT ![p] = [before |-> server, touched |-> {}, expected |-> expected]]

(* A write by p, or by another client when p is None.                      *)
Write(p, slot, value) ==
    /\ server' = [server EXCEPT ![slot] = value]
    /\ hist' = [q \in Procs |-> IF q = p THEN hist[q]
                                ELSE [hist[q] EXCEPT !.touched = @ \cup {slot}]]

Encrypted(stored) == stored.layers # <<>>

(* encryptIfSecret and decryptIfNeeded: one layer more, one layer less.    *)
Seal(stored, secret) ==
    IF secret = None THEN stored ELSE [stored EXCEPT !.layers = <<secret>> \o @]
Open(stored, secret) ==
    IF ~Encrypted(stored) THEN stored
    ELSE IF secret = Head(stored.layers) THEN [stored EXCEPT !.layers = Tail(@)]
    ELSE Failed

-----------------------------------------------------------------------------
(* batch run                                                               *)

Valid(o) ==
    \/ o.op = "set" /\ o.value # None /\ o.edits = None
    \/ o.op = "attr" /\ o.value = None /\ o.user = None /\ ~o.raw /\ o.edits # None
    \/ o.op = "delete" /\ o.user # None /\ o.value = None /\ ~o.raw /\ o.edits = None

ParsesFirst(ops) == ops # <<>> /\ Valid(ops[1])
ParseBatch(ops) == ops # <<>> /\ \A i \in DOMAIN ops : Valid(ops[i])

Fresh(next, ops, secret) == [Idle EXCEPT !.pc = next, !.ops = ops, !.secret = secret]

(* The file is read and parsed before the first operation.                 *)
Load(p, ops, secret, expected) ==
    /\ Resting(p)
    /\ Step(p, Fresh(IF ParseBatch(ops) THEN "run" ELSE "stopped", ops, secret))
    /\ Begins(p, expected)
    /\ UNCHANGED <<server, backup, exported>>

RunBatch(p) ==
    /\ Spend("start")
    /\ \E ops \in Batches, secret \in Secrets \cup {None} : Load(p, ops, secret, NoValues)

(* A file that is not whole does not decrypt.                              *)
RunBackup(p) ==
    /\ backup \notin {None, Blank, Torn}
    /\ Spend("start")
    /\ \E secret \in Secrets \cup {None} : Load(p, backup, secret, exported)

(* One command is a batch of one operation, without a file.                *)
RunCommand(p, o) ==
    /\ Valid(o) /\ ~o.raw
    /\ Spend("start")
    /\ \E secret \in Secrets \cup {None} : Load(p, <<o>>, secret, NoValues)

Commands == UNION {{ops[i] : i \in DOMAIN ops} : ops \in Batches}
RunSetCommand(p) == \E o \in Commands : o.op = "set" /\ RunCommand(p, o)
RunAttrCommand(p) == \E o \in Commands : o.op = "attr" /\ RunCommand(p, o)
RunDeleteCommand(p) == \E o \in Commands : o.op = "delete" /\ RunCommand(p, o)

SealedAlways(o, secret) == Seal(o.value, secret)
ToStore(o, secret) == IF o.raw THEN o.value ELSE Seal(o.value, secret)

Advanced(me) ==
    [me EXCEPT !.pc = IF me.at = Len(me.ops) THEN "done" ELSE "run",
               !.at = @ + 1, !.got = None, !.new = None]

(* The call takes effect and the batch goes on, or the answer is lost.     *)
Apply(p, value) ==
    /\ Write(p, Slot(Current(p)), value)
    /\ \/ Step(p, Advanced(proc[p])) /\ UNCHANGED spent
       \/ Step(p, [proc[p] EXCEPT !.pc = "stopped"]) /\ Spend("trouble")
    /\ UNCHANGED <<backup, exported>>

RunSet(p) ==
    /\ proc[p].pc = "run" /\ Current(p).op = "set"
    /\ Apply(p, ToStore(Current(p), proc[p].secret))

RunDelete(p) ==
    /\ proc[p].pc = "run" /\ Current(p).op = "delete"
    /\ Apply(p, None)

(* vault.get and vault.admin.get answer "" for a key that is not set.      *)
Answer(slot) == IF server[slot] = None THEN Plain(NoText) ELSE server[slot]

(* The JSON value to edit; ciphertext and "" under a layer are not JSON.   *)
Document(stored, secret) ==
    IF stored = Plain(NoText) THEN NoAttrs
    ELSE IF Open(stored, secret) = Failed THEN Failed
    ELSE IF Encrypted(Open(stored, secret)) THEN Failed
    ELSE Open(stored, secret).plain

AttrResult(stored, secret, edits) ==
    IF Document(stored, secret) = Failed THEN Failed
    ELSE AttrEdit(Document(stored, secret), edits)

Goes(new) == "attr"
GoesOn(new) == IF new = Failed THEN "stopped" ELSE "attr"

RunAttrGet(p) ==
    LET got == Answer(Slot(Current(p)))
        new == AttrResult(got, proc[p].secret, Current(p).edits)
    IN  /\ proc[p].pc = "run" /\ Current(p).op = "attr"
        /\ Step(p, [proc[p] EXCEPT !.pc = GoesOn(new), !.got = got, !.new = new])
        /\ UNCHANGED <<server, backup, exported, hist, spent>>

EncodedPlain(new, secret) == Plain(new)
Encoded(new, secret) == Seal(Plain(new), secret)

RunAttrSet(p) ==
    /\ proc[p].pc = "attr"
    /\ Apply(p, Encoded(proc[p].new, proc[p].secret))

-----------------------------------------------------------------------------
(* batch export                                                            *)

ExportOp(slot, value) ==
    [op |-> "set", key |-> slot[2], user |-> slot[1], value |-> value, raw |-> TRUE, edits |-> None]

(* All keys, or those of one user.                                         *)
ExportList(p) ==
    /\ Resting(p)
    /\ Spend("start")
    /\ \E users \in {Users} \cup {{u} : u \in Users} :
         LET listed == {slot \in Slots : slot[1] \in users /\ server[slot] # None}
         IN  Step(p, IF listed = {} THEN Idle ELSE [Idle EXCEPT !.pc = "get", !.todo = listed])
    /\ Begins(p, NoValues)
    /\ UNCHANGED <<server, backup, exported>>

ExportGet(p) ==
    /\ proc[p].pc = "get"
    /\ \E slot \in proc[p].todo :
         Step(p, [proc[p] EXCEPT !.ops = Append(@, ExportOp(slot, Answer(slot))),
                                 !.todo = @ \ {slot},
                                 !.pc = IF proc[p].todo = {slot} THEN "open" ELSE "get"])
    /\ UNCHANGED <<server, backup, exported, hist, spent>>

ExportOpen(p) ==
    /\ proc[p].pc = "open"
    /\ backup' = Blank
    /\ Step(p, [proc[p] EXCEPT !.pc = "save"])
    /\ UNCHANGED <<server, exported, hist, spent>>

(* Another export may have written since the file was opened.              *)
ExportSave(p) ==
    /\ proc[p].pc = "save"
    /\ backup' \in IF backup = Blank THEN {proc[p].ops} ELSE {proc[p].ops, Torn}
    /\ exported' = [slot \in Slots |->
                      IF /\ slot \notin hist[p].touched
                         /\ \E i \in DOMAIN proc[p].ops : Slot(proc[p].ops[i]) = slot
                        THEN hist[p].before[slot] ELSE None]
    /\ Step(p, Idle)
    /\ hist' = [hist EXCEPT ![p] = NoHist]
    /\ UNCHANGED <<server, spent>>

-----------------------------------------------------------------------------
(* A call fails without effect, or the process is killed.                  *)

FailGoesOn(p) ==
    /\ ~Resting(p)
    /\ Spend("trouble")
    /\ Step(p, IF proc[p].pc \in {"run", "attr"} THEN Advanced(proc[p]) ELSE Idle)
    /\ UNCHANGED <<server, backup, exported, hist>>

Fail(p) ==
    /\ ~Resting(p)
    /\ Spend("trouble")
    /\ Step(p, IF proc[p].pc \in {"run", "attr"} THEN [proc[p] EXCEPT !.pc = "stopped"] ELSE Idle)
    /\ UNCHANGED <<server, backup, exported, hist>>

ForeignWrite ==
    /\ Spend("trouble")
    /\ \E slot \in Slots, value \in {Plain(NoAttrs), None} :
         value # server[slot] /\ Write(None, slot, value)
    /\ UNCHANGED <<backup, exported, proc>>

Next ==
    \/ \E p \in Procs :
         \/ RunBatch(p) \/ RunBackup(p)
         \/ RunSetCommand(p) \/ RunAttrCommand(p) \/ RunDeleteCommand(p)
         \/ RunSet(p) \/ RunDelete(p) \/ RunAttrGet(p) \/ RunAttrSet(p)
         \/ ExportList(p) \/ ExportGet(p) \/ ExportOpen(p) \/ ExportSave(p)
         \/ Fail(p)
    \/ ForeignWrite

Spec == Init /\ [][Next]_vars

-----------------------------------------------------------------------------
(* Types: what is read, computed, exported and stored has the expected     *)
(* form (runBatchRun, execBatchOp, runBatchExport).                        *)
TypeOK ==
    /\ server \in [Slots -> Stored \cup {None}]
    /\ backup \in Seq(BatchOp) \cup {None, Blank, Torn}
    /\ exported \in [Slots -> Stored \cup {None}]
    /\ proc \in [Procs -> ProcState]
    /\ hist \in [Procs -> HistState]
    /\ spent \in [Budget -> Nat]

(* What one operation does to a server that nobody else uses; Failed marks *)
(* a slot whose operation must not be passed.                              *)
Effect(state, o, secret) ==
    LET old == IF state[Slot(o)] = None THEN Plain(NoText) ELSE state[Slot(o)]
        new == AttrResult(old, secret, o.edits)
    IN  [state EXCEPT ![Slot(o)] =
           CASE o.op = "set"    -> ToStore(o, secret)
             [] o.op = "delete" -> None
             [] o.op = "attr"   -> IF old = Failed \/ new = Failed THEN Failed
                                   ELSE Encoded(new, secret)]

(* The states of a batch that runs alone; an invalid one does nothing.     *)
Replay(before, ops, secret) ==
    LET after[n \in 0..Len(ops)] ==
          IF n = 0 \/ \E i \in DOMAIN ops : ~Valid(ops[i]) THEN before
          ELSE Effect(after[n - 1], ops[n], secret)
    IN  after

(* README.md "If any op fails, the batch stops immediately; ops already    *)
(* applied before the failure are not rolled back": at any time the server *)
(* is where exactly the operations before the current one lead, one after  *)
(* another, in every key nobody else has written since.  Only a batch that *)
(* stopped because an answer was lost may have applied the current one     *)
(* too.  An invalid batch has done nothing (ParseBatch, runBatchRun).      *)
AppliesInOrder ==
    \A p \in Procs : proc[p].pc \in {"run", "attr", "done", "stopped"} =>
      LET me == proc[p]
          after == Replay(hist[p].before, me.ops, me.secret)
          Agrees(n) == LET then == after[n]
                       IN  \A slot \in Slots \ hist[p].touched : server[slot] = then[slot]
      IN  \/ Agrees(me.at - 1)
          \/ me.pc = "stopped" /\ me.at \in DOMAIN me.ops /\ Agrees(me.at)

(* README.md "Values are captured exactly as stored on the server": a      *)
(* complete run of a backup, with any secret or none, brings back every    *)
(* key as it was at the export, layer by layer, if nobody else wrote it    *)
(* during the export or during the run (runBatchExport, BatchOp.Raw).      *)
RestoredAsExported ==
    \A p \in Procs : proc[p].pc = "done" =>
      \A slot \in Slots \ hist[p].touched :
         hist[p].expected[slot] # None => server[slot] = hist[p].expected[slot]

(* An "attr" leaves an encrypted value encrypted as it was, although it    *)
(* decrypts, edits and writes it in separate steps, unless someone else    *)
(* wrote the key in between (decryptIfNeeded, encryptIfSecret).            *)
AttrKeepsLayers ==
    [][\A p \in Procs :
         LET slot == Slot(Current(p))
         IN  /\ proc[p].pc = "attr" /\ server' # server /\ proc'[p] # proc[p]
             /\ slot \notin hist[p].touched
             /\ server[slot] # None /\ Encrypted(server[slot])
             => /\ server'[slot] # None
                /\ server'[slot].layers = server[slot].layers]_vars
===============================================================================
