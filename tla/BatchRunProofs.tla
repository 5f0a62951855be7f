---------------------------- MODULE BatchRunProofs ----------------------------
(***************************************************************************)
(* Proofs about BatchRun, for any processes, users, keys, values, batches  *)
(* and failures, and for any way to edit a JSON value: types, that "attr"  *)
(* keeps the encryption of a value, that the operations apply in order,    *)
(* and that a backup brings back what was exported.                        *)
(***************************************************************************)
EXTENDS BatchRun, WellFoundedInduction, TLAPS

(* Induction and recursion over the natural numbers, from a theorem of the *)
(* library that takes no operator.                                         *)

(* Every set of natural numbers with an element has a least one.           *)
LEMMA Least ==
  ASSUME NEW S, S \subseteq Nat, S # {}
  PROVE  \E x \in S : \A y \in S : x <= y
<1> DEFINE R == OpToRel(<, Nat)
<1>1. IsWellFoundedOn(R, Nat)
  BY NatLessThanWellFounded
<1>2. \A x, y \in Nat : y < x => <<y, x>> \in R
  BY DEF OpToRel
<1> HIDE DEF R
<1>3. PICK x \in S : \A y \in S : ~ (<<y, x>> \in R)
  BY <1>1, WFMin
<1>4. \A y \in S : ~(y < x)
  BY <1>2, <1>3
<1> QED
  BY <1>4

(* Induction, over a set.                                                  *)
LEMMA SetInduction ==
  ASSUME NEW S, 0 \in S, \A n \in Nat : n \in S => n + 1 \in S
  PROVE  Nat \subseteq S
<1> SUFFICES ASSUME NEW m \in Nat, m \notin S PROVE FALSE
  OBVIOUS
<1>1. PICK x \in Nat \ S : \A y \in Nat \ S : x <= y
  BY Least
<1>2. x - 1 \in Nat /\ x - 1 \in S
  BY <1>1
<1> QED
  BY <1>1, <1>2

(* The values of f are first, and then what the step makes of each.        *)
Recurs(f, n, first, step) == f[0] = first /\ \A i \in 1..n : f[i] = step[<<i, f[i - 1]>>]

(* Recursion: from a first value, a step at a time.                        *)
LEMMA Recursion ==
  ASSUME NEW S, NEW n \in Nat, NEW first \in S, NEW step \in [(1..n) \X S -> S]
  PROVE  \E f \in [0..n -> S] : Recurs(f, n, first, step)
<1> DEFINE Upto(k, f) == f[0] = first /\ \A i \in 1..k : f[i] = step[<<i, f[i - 1]>>]
           K == {k \in Nat : k <= n => \E f \in [0..k -> S] : Upto(k, f)}
<1>1. 0 \in K
  <2>1. [i \in 0..0 |-> first] \in [0..0 -> S] /\ Upto(0, [i \in 0..0 |-> first])
    OBVIOUS
  <2> QED
    BY <2>1
<1>2. ASSUME NEW k \in Nat, k \in K PROVE k + 1 \in K
  <2> SUFFICES ASSUME k + 1 <= n PROVE \E f \in [0..k + 1 -> S] : Upto(k + 1, f)
    OBVIOUS
  <2>1. PICK f \in [0..k -> S] : Upto(k, f)
    BY <1>2
  <2> DEFINE next == step[<<k + 1, f[k]>>]
             g == [i \in 0..k + 1 |-> IF i = k + 1 THEN next ELSE f[i]]
  <2>2. next \in S
    <3>1. f[k] \in S /\ k + 1 \in 1..n
      OBVIOUS
    <3>2. <<k + 1, f[k]>> \in (1..n) \X S
      BY <3>1
    <3> QED
      BY <3>2
  <2>3. g \in [0..k + 1 -> S]
    BY <2>2
  <2>4. g[0] = first /\ g[k + 1] = next /\ g[k] = f[k] /\ \A i \in 0..k : g[i] = f[i]
    BY <2>1
  <2> HIDE DEF g
  <2>5. ASSUME NEW i \in 1..k + 1 PROVE g[i] = step[<<i, g[i - 1]>>]
    <3>1. CASE i = k + 1
      <4>1. i - 1 = k
        BY <3>1
      <4> QED
        BY <2>4, <3>1, <4>1
    <3>2. CASE i # k + 1
      <4>1. i \in 1..k /\ i \in 0..k /\ i - 1 \in 0..k
        BY <3>2
      <4> QED
        BY <2>1, <2>4, <4>1
    <3> QED
      BY <3>1, <3>2
  <2> QED
    BY <2>3, <2>4, <2>5
<1> HIDE DEF K
<1>3. n \in K
  BY <1>1, <1>2, SetInduction
<1> QED
  BY <1>3 DEF K, Recurs

-----------------------------------------------------------------------------
(* Values: what encryption, decryption and an edit make of them.           *)

(* An empty key, a stored value and a fresh plaintext are stored values.   *)
LEMMA PlainType ==
  ASSUME NEW content \in Contents PROVE Plain(content) \in Stored
  BY DEF Plain, Stored

(* Encryption adds a layer.                                                *)
LEMMA SealType ==
  ASSUME NEW stored \in Stored, NEW secret \in Secrets \cup {None}
  PROVE  Seal(stored, secret) \in Stored
<1>1. CASE secret = None
  BY <1>1 DEF Seal
<1>2. CASE secret # None
  <2>1. stored.layers \in Seq(Secrets) /\ stored.plain \in Contents
    BY DEF Stored
  <2>2. <<secret>> \o stored.layers \in Seq(Secrets)
    BY <1>2, <2>1
  <2>3. Seal(stored, secret) = [plain |-> stored.plain, layers |-> <<secret>> \o stored.layers]
    BY <1>2 DEF Seal, Stored
  <2> QED
    BY <2>1, <2>2, <2>3 DEF Stored
<1> QED
  BY <1>1, <1>2

(* Decryption takes one off, or fails.                                     *)
LEMMA OpenType ==
  ASSUME NEW stored \in Stored, NEW secret
  PROVE  Open(stored, secret) \in Stored \cup {Failed}
<1>1. CASE Encrypted(stored) /\ secret = Head(stored.layers)
  <2>1. stored.layers \in Seq(Secrets) /\ stored.plain \in Contents /\ stored.layers # <<>>
    BY <1>1 DEF Stored, Encrypted
  <2>2. Tail(stored.layers) \in Seq(Secrets)
    BY <2>1
  <2>3. Open(stored, secret) = [plain |-> stored.plain, layers |-> Tail(stored.layers)]
    BY <1>1 DEF Open, Stored
  <2> QED
    BY <2>1, <2>2, <2>3 DEF Stored
<1>2. CASE ~(Encrypted(stored) /\ secret = Head(stored.layers))
  BY <1>2 DEF Open
<1> QED
  BY <1>1, <1>2

(* An edit makes a content of a stored value, or fails.                    *)
LEMMA ResultType ==
  ASSUME NEW stored \in Stored, NEW secret, NEW edits \in Edits
  PROVE  AttrResult(stored, secret, edits) \in Contents \cup {Failed}
<1>1. Document(stored, secret) \in Contents \cup {Failed}
  <2>1. Open(stored, secret) # Failed => Open(stored, secret).plain \in Contents
    BY OpenType DEF Stored
  <2> QED
    BY <2>1, ContentAssumption DEF Document
<1> QED
  BY <1>1, EditAssumption DEF AttrResult

(* A sequence with one element is what is left when its head is not.       *)
LEMMA HeadOnly ==
  ASSUME NEW S, NEW s \in Seq(S), s # <<>>, Tail(s) = <<>>
  PROVE  s = <<Head(s)>>
<1>1. Len(s) \in Nat /\ Len(s) # 0
  OBVIOUS
<1>2. Len(Tail(s)) = Len(s) - 1
  BY <1>1
<1>3. Len(Tail(s)) = 0
  <2>1. Len(<<>>) = 0
    OBVIOUS
  <2> QED
    BY <2>1, Zenon
<1>4. \A n \in Nat : n - 1 = 0 => n = 1
  OBVIOUS
<1>5. Len(s) = 1
  BY <1>1, <1>2, <1>3, <1>4, Zenon
<1> QED
  BY <1>5

(* What is read with a secret and written with it has the same layers.     *)
LEMMA EditKeepsLayers ==
  ASSUME NEW stored \in Stored, NEW secret \in Secrets \cup {None}, NEW edits,
         Encrypted(stored), AttrResult(stored, secret, edits) # Failed, NEW new
  PROVE  Encoded(new, secret).layers = stored.layers
<1>1. /\ stored # Plain(NoText)
      /\ Open(stored, secret) # Failed
      /\ ~Encrypted(Open(stored, secret))
  BY DEF AttrResult, Document, Encrypted, Plain
<1>2. secret = Head(stored.layers) /\ Open(stored, secret) = [stored EXCEPT !.layers = Tail(@)]
  BY <1>1 DEF Open
<1>3. stored.layers \in Seq(Secrets) /\ stored.layers # <<>>
  BY DEF Stored, Encrypted
<1>4. Tail(stored.layers) = <<>>
  BY <1>1, <1>2 DEF Encrypted, Stored
<1>5. stored.layers = <<secret>>
  BY <1>2, <1>3, <1>4, HeadOnly
<1>6. secret # None
  BY <1>2, <1>3, NoneAssumption
<1>7. Encoded(new, secret).layers = <<secret>> \o <<>>
  BY <1>6 DEF Encoded, Seal, Plain
<1> QED
  BY <1>5, <1>6, <1>7

-----------------------------------------------------------------------------
(* Types.                                                                  *)

(* Where a batch is: at one of its valid operations, and between the two   *)
(* calls of an "attr" with what the edit makes of what was read.           *)
RunsWell(p) ==
    /\ proc[p].pc \in {"run", "attr"} => proc[p].at \in DOMAIN proc[p].ops /\ ParseBatch(proc[p].ops)
    /\ proc[p].pc = "attr" =>
         /\ Current(p).op = "attr"
         /\ proc[p].got \in Stored
         /\ proc[p].new \in Contents
         /\ proc[p].new = AttrResult(proc[p].got, proc[p].secret, Current(p).edits)
RunInv == \A p \in Procs : RunsWell(p)

(* The current operation is a valid one.                                   *)
LEMMA CurrentType ==
  ASSUME TypeOK, RunInv, NEW p \in Procs, proc[p].pc \in {"run", "attr"}
  PROVE  Current(p) \in BatchOp /\ Valid(Current(p)) /\ Slot(Current(p)) \in Slots
<1>1. proc[p].ops \in Seq(BatchOp) /\ proc[p].at \in DOMAIN proc[p].ops
  BY DEF TypeOK, ProcState, RunInv, RunsWell
<1>2. Current(p) \in BatchOp
  BY <1>1 DEF Current
<1>3. Valid(Current(p))
  BY <1>1 DEF Current, RunInv, RunsWell, ParseBatch
<1> QED
  BY <1>2, <1>3, CallerAssumption DEF Slot, Slots, BatchOp

(* The operation of an export is on the slot it reads.                     *)
LEMMA ExportOpType ==
  ASSUME NEW slot \in Slots, NEW value \in Stored
  PROVE  /\ ExportOp(slot, value) \in BatchOp
         /\ Valid(ExportOp(slot, value))
         /\ Slot(ExportOp(slot, value)) = slot
<1>1. slot[1] \in Users /\ slot[2] \in Keys /\ slot = <<slot[1], slot[2]>>
  BY DEF Slots
<1>2. slot[1] # None /\ value # None
  BY <1>1, NoneAssumption
<1>3. ExportOp(slot, value) \in BatchOp
  BY <1>1 DEF ExportOp, BatchOp
<1>4. Valid(ExportOp(slot, value))
  BY <1>2 DEF ExportOp, Valid
<1>5. Slot(ExportOp(slot, value)) = slot
  BY <1>1, <1>2 DEF ExportOp, Slot
<1> QED
  BY <1>3, <1>4, <1>5

(* A get answers with a stored value.                                      *)
LEMMA AnswerType ==
  ASSUME TypeOK, NEW slot \in Slots PROVE Answer(slot) \in Stored
  BY PlainType, ContentAssumption DEF TypeOK, Answer

(* A write keeps the types of the server and of the histories.             *)
LEMMA WriteType ==
  ASSUME TypeOK, NEW p, NEW slot \in Slots, NEW value \in Stored \cup {None}, Write(p, slot, value)
  PROVE  /\ server' \in [Slots -> Stored \cup {None}]
         /\ hist' \in [Procs -> HistState]
<1>1. server' \in [Slots -> Stored \cup {None}]
  BY DEF TypeOK, Write
<1>2. ASSUME NEW q \in Procs PROVE [hist[q] EXCEPT !.touched = @ \cup {slot}] \in HistState
  BY DEF TypeOK, HistState
<1> QED
  BY <1>1, <1>2 DEF TypeOK, Write

(* Using up a budget.                                                      *)
LEMMA SpendType ==
  ASSUME TypeOK, NEW b \in Budget, Spend(b) PROVE spent' \in [Budget -> Nat]
  BY DEF TypeOK, Spend

(* A step of one process.                                                  *)
LEMMA ProcType ==
  ASSUME TypeOK, NEW p \in Procs, NEW me \in ProcState, Step(p, me)
  PROVE  /\ proc' \in [Procs -> ProcState]
         /\ proc'[p] = me
         /\ \A q \in Procs \ {p} : proc'[q] = proc[q]
  BY DEF TypeOK, Step

(* Processes that start, stop or go on.                                    *)
LEMMA MemoryTypes ==
  ASSUME NEW me \in ProcState
  PROVE  /\ Idle \in ProcState
         /\ [me EXCEPT !.pc = "stopped"] \in ProcState
         /\ Advanced(me) \in ProcState
<1>1. Idle \in ProcState
  BY DEF Idle, ProcState
<1>2. [me EXCEPT !.pc = "stopped"] \in ProcState
  BY DEF ProcState
<1>3. me.at + 1 \in Nat \ {0}
  BY DEF ProcState
<1>4. Advanced(me) \in ProcState
  BY <1>3 DEF Advanced, ProcState
<1> QED
  BY <1>1, <1>2, <1>4

(* The memory a command starts with.                                       *)
LEMMA FreshType ==
  ASSUME NEW next \in {"run", "stopped"}, NEW ops \in Seq(BatchOp), NEW secret \in Secrets \cup {None}
  PROVE  /\ Fresh(next, ops, secret) \in ProcState
         /\ Fresh(next, ops, secret).ops = ops
         /\ Fresh(next, ops, secret).at = 1
         /\ Fresh(next, ops, secret).pc = next
<1>1. Idle \in ProcState /\ Idle.at = 1
  BY DEF Idle, ProcState
<1> QED
  BY <1>1 DEF Fresh, ProcState

(* The command of an operation starts.                                     *)
LEMMA LoadType ==
  ASSUME TypeOK, NEW p \in Procs, NEW ops \in Seq(BatchOp), NEW secret \in Secrets \cup {None},
         NEW expected \in [Slots -> Stored \cup {None}], Load(p, ops, secret, expected)
  PROVE  /\ proc' \in [Procs -> ProcState]
         /\ hist' \in [Procs -> HistState]
         /\ proc'[p].pc = IF ParseBatch(ops) THEN "run" ELSE "stopped"
         /\ proc'[p].ops = ops /\ proc'[p].at = 1
         /\ hist'[p].touched = {} /\ hist'[p].expected = expected /\ hist'[p].before = server
         /\ \A q \in Procs \ {p} : proc'[q] = proc[q] /\ hist'[q] = hist[q]
<1> DEFINE next == IF ParseBatch(ops) THEN "run" ELSE "stopped"
           me == Fresh(next, ops, secret)
<1>0. next \in {"run", "stopped"}
  OBVIOUS
<1>1. me \in ProcState /\ me.ops = ops /\ me.at = 1 /\ me.pc = next
  <2> HIDE DEF next
  <2> QED
    BY <1>0, FreshType
<1>2. Step(p, me)
  BY DEF Load
<1> HIDE DEF me
<1>3. [before |-> server, touched |-> {}, expected |-> expected] \in HistState
  BY DEF TypeOK, HistState
<1>4. hist' = [hist EXCEPT ![p] = [before |-> server, touched |-> {}, expected |-> expected]]
  BY DEF Load, Begins
<1>5. hist' \in [Procs -> HistState]
  BY <1>3, <1>4 DEF TypeOK
<1>6. hist'[p] = [before |-> server, touched |-> {}, expected |-> expected]
        /\ \A q \in Procs \ {p} : hist'[q] = hist[q]
  BY <1>4 DEF TypeOK
<1> QED
  BY <1>1, <1>2, <1>5, <1>6, ProcType

(* What a command does to the server and to its own memory.                *)
LEMMA AdvancedRuns ==
  ASSUME TypeOK, RunInv, NEW p \in Procs, proc[p].pc \in {"run", "attr"},
         Step(p, Advanced(proc[p]))
  PROVE  /\ proc' \in [Procs -> ProcState]
         /\ RunsWell(p)'
         /\ proc'[p].pc \in {"run", "done"}
         /\ proc'[p].ops = proc[p].ops /\ proc'[p].at = proc[p].at + 1
         /\ proc'[p].pc = "done" => proc[p].at = Len(proc[p].ops)
         /\ \A q \in Procs \ {p} : proc'[q] = proc[q]
<1> DEFINE me == proc[p]
<1>1. me \in ProcState /\ me.at \in DOMAIN me.ops /\ ParseBatch(me.ops)
  BY DEF TypeOK, RunInv, RunsWell
<1>2. /\ Advanced(me).pc = IF me.at = Len(me.ops) THEN "done" ELSE "run"
      /\ Advanced(me).ops = me.ops
      /\ Advanced(me).at = me.at + 1
  BY <1>1 DEF Advanced, ProcState
<1>3. /\ proc' \in [Procs -> ProcState]
      /\ proc'[p] = Advanced(me)
      /\ \A q \in Procs \ {p} : proc'[q] = proc[q]
  BY <1>1, MemoryTypes, ProcType
<1>4. me.at # Len(me.ops) => me.at + 1 \in DOMAIN me.ops
  BY <1>1 DEF ProcState
<1> QED
  BY <1>1, <1>2, <1>3, <1>4 DEF RunsWell

(* A write of a batch.                                                     *)
LEMMA ApplyType ==
  ASSUME TypeOK, RunInv, NEW p \in Procs, proc[p].pc \in {"run", "attr"},
         NEW value \in Stored \cup {None}, Apply(p, value)
  PROVE  TypeOK' /\ RunsWell(p)' /\ \A q \in Procs \ {p} : proc'[q] = proc[q]
<1>1. /\ server' \in [Slots -> Stored \cup {None}]
      /\ hist' \in [Procs -> HistState]
  BY CurrentType, WriteType DEF Apply
<1>2. CASE Step(p, Advanced(proc[p])) /\ UNCHANGED spent
  BY <1>1, <1>2, AdvancedRuns DEF Apply, TypeOK
<1>3. CASE Step(p, [proc[p] EXCEPT !.pc = "stopped"]) /\ Spend("trouble")
  <2>1. proc[p] \in ProcState
    BY DEF TypeOK
  <2>2. [proc[p] EXCEPT !.pc = "stopped"].pc = "stopped"
    BY <2>1 DEF ProcState
  <2>3. spent' \in [Budget -> Nat]
    BY <1>3, SpendType DEF Budget
  <2>4. /\ proc' \in [Procs -> ProcState]
        /\ proc'[p].pc = "stopped"
        /\ \A q \in Procs \ {p} : proc'[q] = proc[q]
    BY <1>3, <2>1, <2>2, MemoryTypes, ProcType
  <2> QED
    BY <1>1, <2>3, <2>4 DEF Apply, TypeOK, RunsWell
<1> QED
  BY <1>2, <1>3 DEF Apply

(* What the writes of a batch store.                                       *)
LEMMA StoredTypes ==
  ASSUME TypeOK, RunInv, NEW p \in Procs
  PROVE  /\ proc[p].pc = "run" /\ Current(p).op = "set"
              => ToStore(Current(p), proc[p].secret) \in Stored
         /\ proc[p].pc = "attr" => Encoded(proc[p].new, proc[p].secret) \in Stored
<1>1. proc[p].secret \in Secrets \cup {None}
  BY DEF TypeOK, ProcState
<1>2. ASSUME proc[p].pc = "run", Current(p).op = "set"
      PROVE  ToStore(Current(p), proc[p].secret) \in Stored
  <2>1. Current(p).value \in Stored
    BY <1>2, CurrentType DEF BatchOp, Valid
  <2> QED
    BY <1>1, <2>1, SealType DEF ToStore
<1>3. ASSUME proc[p].pc = "attr" PROVE Encoded(proc[p].new, proc[p].secret) \in Stored
  BY <1>1, <1>3, PlainType, SealType DEF Encoded, RunInv, RunsWell
<1> QED
  BY <1>2, <1>3

(* The read of an "attr".                                                  *)
LEMMA AttrGetType ==
  ASSUME TypeOK, RunInv, NEW p \in Procs, RunAttrGet(p)
  PROVE  /\ TypeOK' /\ RunsWell(p)' /\ \A q \in Procs \ {p} : proc'[q] = proc[q]
         /\ proc'[p].pc = "attr" => proc'[p].got = Answer(Slot(Current(p)))
         /\ proc'[p].ops = proc[p].ops /\ proc'[p].at = proc[p].at
<1> DEFINE got == Answer(Slot(Current(p)))
           new == AttrResult(got, proc[p].secret, Current(p).edits)
           me == [proc[p] EXCEPT !.pc = GoesOn(new), !.got = got, !.new = new]
<1>1. proc[p] \in ProcState /\ proc[p].pc = "run" /\ Current(p).op = "attr"
  BY DEF TypeOK, RunAttrGet
<1>2. Current(p).edits \in Edits
  BY <1>1, CurrentType DEF BatchOp, Valid
<1>3. got \in Stored /\ new \in Contents \cup {Failed}
  BY <1>1, <1>2, CurrentType, AnswerType, ResultType
<1>4. Step(p, me) /\ UNCHANGED <<server, backup, exported, hist, spent>>
  BY DEF RunAttrGet
<1>5. GoesOn(new) \in {"stopped", "attr"} /\ (GoesOn(new) = "attr" => new \in Contents)
  BY <1>3 DEF GoesOn
<1> HIDE DEF new, got
<1>6. /\ me \in ProcState /\ me.pc = GoesOn(new) /\ me.got = got /\ me.new = new
      /\ me.ops = proc[p].ops /\ me.at = proc[p].at /\ me.secret = proc[p].secret
  BY <1>1, <1>3, <1>5 DEF ProcState
<1> HIDE DEF me
<1>7. /\ proc' \in [Procs -> ProcState]
      /\ proc'[p] = me
      /\ \A q \in Procs \ {p} : proc'[q] = proc[q]
  BY <1>4, <1>6, ProcType
<1>8. TypeOK'
  BY <1>4, <1>7 DEF TypeOK
<1>9. Current(p)' = Current(p)
  BY <1>6, <1>7 DEF Current
<1>10. proc[p].at \in DOMAIN proc[p].ops /\ ParseBatch(proc[p].ops)
  BY <1>1 DEF RunInv, RunsWell
<1>11. RunsWell(p)'
  BY <1>1, <1>3, <1>5, <1>6, <1>7, <1>9, <1>10 DEF RunsWell, new
<1> QED
  BY <1>6, <1>7, <1>8, <1>11 DEF got

(* A command that starts.                                                  *)
LEMMA StartType ==
  ASSUME TypeOK, NEW p \in Procs, NEW ops \in Seq(BatchOp), NEW secret \in Secrets \cup {None},
         NEW expected \in [Slots -> Stored \cup {None}], Load(p, ops, secret, expected), Spend("start")
  PROVE  TypeOK' /\ RunsWell(p)' /\ \A q \in Procs \ {p} : proc'[q] = proc[q]
<1>1. TypeOK'
  BY LoadType, SpendType DEF Load, TypeOK, Budget
<1>2. proc'[p].pc \in {"run", "stopped"}
        /\ (proc'[p].pc = "run" => ParseBatch(ops)) /\ proc'[p].ops = ops /\ proc'[p].at = 1
  BY LoadType
<1>3. ParseBatch(ops) => 1 \in DOMAIN ops
  BY DEF ParseBatch
<1>4. RunsWell(p)'
  BY <1>2, <1>3 DEF RunsWell
<1> QED
  BY <1>1, <1>4, LoadType

(* A process that neither runs a batch nor writes to the server.           *)
LEMMA AsideType ==
  ASSUME TypeOK, NEW p \in Procs, NEW me \in ProcState, Step(p, me), me.pc \notin {"run", "attr", "done"},
         UNCHANGED server, backup' \in Seq(BatchOp) \cup {None, Blank, Torn},
         exported' \in [Slots -> Stored \cup {None}], hist' \in [Procs -> HistState],
         spent' \in [Budget -> Nat]
  PROVE  /\ TypeOK' /\ RunsWell(p)' /\ \A q \in Procs \ {p} : proc'[q] = proc[q]
         /\ proc'[p].pc \notin {"run", "attr", "done"}
  BY ProcType DEF TypeOK, RunsWell

(* The steps of an export.                                                 *)
LEMMA ExportTypes ==
  ASSUME TypeOK, NEW p \in Procs,
         ExportList(p) \/ ExportGet(p) \/ ExportOpen(p) \/ ExportSave(p)
  PROVE  /\ TypeOK' /\ RunsWell(p)' /\ \A q \in Procs \ {p} : proc'[q] = proc[q]
         /\ proc'[p].pc \notin {"run", "attr", "done"}
<1> DEFINE me == proc[p]
<1>0. me \in ProcState
  BY DEF TypeOK
<1>1. CASE ExportList(p)
  <2>1. PICK users \in {Users} \cup {{u} : u \in Users} :
          Step(p, IF {slot \in Slots : slot[1] \in users /\ server[slot] # None} = {} THEN Idle
                  ELSE [Idle EXCEPT !.pc = "get",
                          !.todo = {slot \in Slots : slot[1] \in users /\ server[slot] # None}])
    BY <1>1 DEF ExportList
  <2> DEFINE listed == {slot \in Slots : slot[1] \in users /\ server[slot] # None}
             next == IF listed = {} THEN Idle ELSE [Idle EXCEPT !.pc = "get", !.todo = listed]
  <2>2. listed \subseteq Slots
    OBVIOUS
  <2> HIDE DEF listed
  <2>3. next \in ProcState /\ next.pc \in {"idle", "get"}
    <3>1. Idle \in ProcState /\ Idle.pc = "idle"
      BY DEF Idle, ProcState
    <3>2. [Idle EXCEPT !.pc = "get", !.todo = listed] \in ProcState
            /\ [Idle EXCEPT !.pc = "get", !.todo = listed].pc = "get"
      BY <2>2, <3>1 DEF ProcState
    <3> QED
      BY <3>1, <3>2
  <2>4. Step(p, next)
    BY <2>1 DEF listed
  <2>5. hist' \in [Procs -> HistState]
    BY <1>1 DEF ExportList, Begins, TypeOK, HistState, NoValues
  <2>6. spent' \in [Budget -> Nat]
    BY <1>1, SpendType DEF ExportList, Budget
  <2> HIDE DEF next
  <2>7. /\ UNCHANGED server
        /\ backup' \in Seq(BatchOp) \cup {None, Blank, Torn}
        /\ exported' \in [Slots -> Stored \cup {None}]
    BY <1>1 DEF ExportList, TypeOK
  <2> QED
    BY <2>3, <2>4, <2>5, <2>6, <2>7, AsideType
<1>2. CASE ExportGet(p)
  <2>1. PICK slot \in me.todo :
          Step(p, [me EXCEPT !.ops = Append(@, ExportOp(slot, Answer(slot))),
                             !.todo = @ \ {slot},
                             !.pc = IF me.todo = {slot} THEN "open" ELSE "get"])
    BY <1>2 DEF ExportGet
  <2> DEFINE ops == Append(me.ops, ExportOp(slot, Answer(slot)))
             todo == me.todo \ {slot}
             pc == IF me.todo = {slot} THEN "open" ELSE "get"
             next == [me EXCEPT !.ops = ops, !.todo = todo, !.pc = pc]
  <2>2. slot \in Slots
    BY <1>0 DEF ProcState
  <2>3. ops \in Seq(BatchOp)
    <3>1. me.ops \in Seq(BatchOp) /\ ExportOp(slot, Answer(slot)) \in BatchOp
      BY <1>0, <2>2, AnswerType, ExportOpType DEF ProcState
    <3> QED
      BY <3>1
  <2>4. todo \in SUBSET Slots /\ pc \in {"open", "get"}
    BY <1>0 DEF ProcState
  <2>5. Step(p, next)
    BY <2>1
  <2> HIDE DEF ops, todo, pc
  <2>6. next \in ProcState /\ next.pc = pc
    BY <1>0, <2>3, <2>4 DEF ProcState
  <2> HIDE DEF next
  <2>7. UNCHANGED <<server, backup, exported, hist, spent>>
    BY <1>2 DEF ExportGet
  <2> QED
    BY <2>4, <2>5, <2>6, <2>7, AsideType DEF TypeOK
<1>3. CASE ExportOpen(p)
  <2>1. [me EXCEPT !.pc = "save"] \in ProcState /\ [me EXCEPT !.pc = "save"].pc = "save"
    BY <1>0 DEF ProcState
  <2> QED
    BY <1>3, <2>1, AsideType DEF ExportOpen, TypeOK
<1>4. CASE ExportSave(p)
  <2>1. Idle \in ProcState /\ Idle.pc = "idle"
    BY DEF Idle, ProcState
  <2>2. backup' \in Seq(BatchOp) \cup {None, Blank, Torn}
    BY <1>0, <1>4 DEF ExportSave, ProcState
  <2>3. exported' \in [Slots -> Stored \cup {None}]
    <3>1. \A slot \in Slots : hist[p].before[slot] \in Stored \cup {None}
      BY DEF TypeOK, HistState
    <3> QED
      BY <1>4, <3>1 DEF ExportSave
  <2>4. hist' \in [Procs -> HistState]
    BY <1>4 DEF ExportSave, TypeOK, HistState, NoHist, NoValues
  <2> QED
    BY <1>4, <2>1, <2>2, <2>3, <2>4, AsideType DEF ExportSave, TypeOK
<1> QED
  BY <1>1, <1>2, <1>3, <1>4

(* A failure.                                                              *)
LEMMA FailType ==
  ASSUME TypeOK, NEW p \in Procs, Fail(p)
  PROVE  /\ TypeOK' /\ RunsWell(p)' /\ \A q \in Procs \ {p} : proc'[q] = proc[q]
         /\ proc'[p].pc \in {"stopped", "idle"}
<1> DEFINE me == proc[p]
           next == IF me.pc \in {"run", "attr"} THEN [me EXCEPT !.pc = "stopped"] ELSE Idle
<1>1. next \in ProcState /\ next.pc \in {"stopped", "idle"}
  <2>1. me \in ProcState
    BY DEF TypeOK
  <2>2. Idle.pc = "idle"
    BY DEF Idle
  <2>3. [me EXCEPT !.pc = "stopped"].pc = "stopped"
    BY <2>1 DEF ProcState
  <2> QED
    BY <2>1, <2>2, <2>3, MemoryTypes
<1>2. Step(p, next) /\ Spend("trouble") /\ UNCHANGED <<server, backup, exported, hist>>
  BY DEF Fail
<1> HIDE DEF next
<1>3. spent' \in [Budget -> Nat]
  BY <1>2, SpendType DEF Budget
<1>4. proc'[p] = next
  BY <1>1, <1>2, ProcType
<1> QED
  BY <1>1, <1>2, <1>3, <1>4, AsideType DEF TypeOK

(* The operation of a single command.                                      *)
LEMMA CommandType ==
  ASSUME NEW o \in Commands PROVE o \in BatchOp /\ <<o>> \in Seq(BatchOp)
<1>1. PICK ops \in Batches : \E i \in DOMAIN ops : o = ops[i]
  BY DEF Commands
<1>2. ops \in Seq(BatchOp)
  BY BatchAssumption
<1> QED
  BY <1>1, <1>2

(* A command that starts, of any kind.                                     *)
LEMMA StartsType ==
  ASSUME TypeOK, NEW p \in Procs,
         \/ RunBatch(p) \/ RunBackup(p)
         \/ RunSetCommand(p) \/ RunAttrCommand(p) \/ RunDeleteCommand(p)
  PROVE  /\ TypeOK' /\ RunsWell(p)' /\ \A q \in Procs \ {p} : proc'[q] = proc[q]
         /\ \E ops \in Seq(BatchOp), secret \in Secrets \cup {None} :
              \/ Load(p, ops, secret, NoValues)
              \/ backup \notin {None, Blank, Torn} /\ ops = backup /\ Load(p, ops, secret, exported)
<1>0. NoValues \in [Slots -> Stored \cup {None}]
  BY DEF NoValues
<1>1. CASE RunBatch(p)
  BY <1>0, <1>1, StartType, BatchAssumption DEF RunBatch
<1>2. CASE RunBackup(p)
  <2>1. backup \in Seq(BatchOp) /\ exported \in [Slots -> Stored \cup {None}]
    BY <1>2 DEF RunBackup, TypeOK
  <2> QED
    BY <1>2, <2>1, StartType DEF RunBackup
<1>3. ASSUME NEW o \in Commands, RunCommand(p, o)
      PROVE  /\ TypeOK' /\ RunsWell(p)' /\ \A q \in Procs \ {p} : proc'[q] = proc[q]
             /\ \E ops \in Seq(BatchOp), secret \in Secrets \cup {None} :
                  Load(p, ops, secret, NoValues)
  BY <1>0, <1>3, CommandType, StartType DEF RunCommand
<1> QED
  BY <1>1, <1>2, <1>3 DEF RunSetCommand, RunAttrCommand, RunDeleteCommand

(* A call of a batch.                                                      *)
LEMMA CallType ==
  ASSUME TypeOK, RunInv, NEW p \in Procs,
         RunSet(p) \/ RunDelete(p) \/ RunAttrGet(p) \/ RunAttrSet(p)
  PROVE  TypeOK' /\ RunsWell(p)' /\ \A q \in Procs \ {p} : proc'[q] = proc[q]
<1>1. CASE RunSet(p)
  BY <1>1, StoredTypes, ApplyType DEF RunSet
<1>2. CASE RunDelete(p)
  BY <1>2, ApplyType DEF RunDelete
<1>3. CASE RunAttrGet(p)
  BY <1>3, AttrGetType
<1>4. CASE RunAttrSet(p)
  BY <1>4, StoredTypes, ApplyType DEF RunAttrSet
<1> QED
  BY <1>1, <1>2, <1>3, <1>4

(* A step of process p, of the three kinds above.                          *)
Starts(p) == \/ RunBatch(p) \/ RunBackup(p)
             \/ RunSetCommand(p) \/ RunAttrCommand(p) \/ RunDeleteCommand(p)
Calls(p) == RunSet(p) \/ RunDelete(p) \/ RunAttrGet(p) \/ RunAttrSet(p)
Exports(p) == ExportList(p) \/ ExportGet(p) \/ ExportOpen(p) \/ ExportSave(p)
Moves(p) == Starts(p) \/ Calls(p) \/ Exports(p) \/ Fail(p)

(* Every step is one of a process, one of another client, or a stutter.    *)
LEMMA Steps ==
  ASSUME [Next]_vars
  PROVE  (\E p \in Procs : Moves(p)) \/ ForeignWrite \/ UNCHANGED vars
  BY DEF Next, Moves, Starts, Calls, Exports

(* A step of a process keeps the types and its own invariant, and leaves   *)
(* the other processes alone.                                              *)
LEMMA MoveType ==
  ASSUME TypeOK, RunInv, NEW p \in Procs, Moves(p)
  PROVE  TypeOK' /\ RunsWell(p)' /\ \A q \in Procs \ {p} : proc'[q] = proc[q]
  BY StartsType, CallType, ExportTypes, FailType DEF Moves, Starts, Calls, Exports

(* A write of another client.                                              *)
LEMMA ForeignType ==
  ASSUME TypeOK, ForeignWrite PROVE TypeOK' /\ proc' = proc
<1>1. PICK slot \in Slots, value \in {Plain(NoAttrs), None} : Write(None, slot, value)
  BY DEF ForeignWrite
<1>2. value \in Stored \cup {None}
  BY PlainType, ContentAssumption
<1> QED
  BY <1>1, <1>2, WriteType, SpendType DEF ForeignWrite, TypeOK, Budget

(* Where a process is says as much after a step of another one.            *)
LEMMA RunsOn ==
  ASSUME NEW p, RunsWell(p), proc'[p] = proc[p] PROVE RunsWell(p)'
  BY DEF RunsWell, Current

(* The initial states have the types.                                      *)
LEMMA InitTypes ==
  ASSUME Init PROVE TypeOK /\ RunInv
<1>1. Idle \in ProcState /\ Idle.pc = "idle"
  BY DEF Idle, ProcState
<1>2. NoValues \in [Slots -> Stored \cup {None}] /\ NoHist \in HistState
  BY DEF NoValues, NoHist, HistState
<1>3. TypeOK
  BY <1>1, <1>2, ServerAssumption DEF Init, TypeOK
<1> QED
  BY <1>1, <1>3 DEF Init, RunInv, RunsWell

(* Every step keeps them.                                                  *)
LEMMA StepTypes ==
  ASSUME TypeOK, RunInv, [Next]_vars PROVE TypeOK' /\ RunInv'
<1>1. ASSUME NEW p \in Procs, Moves(p) PROVE TypeOK' /\ RunInv'
  <2>1. TypeOK' /\ RunsWell(p)' /\ \A q \in Procs \ {p} : proc'[q] = proc[q]
    BY <1>1, MoveType
  <2>2. ASSUME NEW q \in Procs PROVE RunsWell(q)'
    BY <2>1, RunsOn DEF RunInv
  <2> QED
    BY <2>1, <2>2 DEF RunInv
<1>2. CASE ForeignWrite
  BY <1>2, ForeignType, RunsOn DEF RunInv
<1>3. CASE UNCHANGED vars
  <2>1. TypeOK'
    BY <1>3 DEF vars, TypeOK
  <2> QED
    BY <1>3, <2>1, RunsOn DEF vars, RunInv
<1> QED
  BY <1>1, <1>2, <1>3, Steps

(* What is read, computed, exported and stored has the expected form       *)
(* (runBatchRun, execBatchOp, runBatchExport).                             *)
THEOREM TypeCorrect == Spec => []TypeOK
  BY InitTypes, StepTypes, PTL DEF Spec

-----------------------------------------------------------------------------
(* What a process knows of the server while others write.                  *)

(* A step that is not p's: p's memory stays, and a key that changes is one *)
(* p's history calls touched.                                              *)
Apart(p) ==
    /\ proc'[p] = proc[p]
    /\ hist'[p].before = hist[p].before /\ hist'[p].expected = hist[p].expected
    /\ hist[p].touched \subseteq hist'[p].touched
    /\ \A slot \in Slots \ hist'[p].touched : server'[slot] = server[slot]

(* A write of somebody else touches the key it writes.                     *)
LEMMA WriteApart ==
  ASSUME TypeOK, NEW q, NEW p \in Procs, q # p, NEW slot \in Slots, NEW value, Write(q, slot, value),
         proc'[p] = proc[p]
  PROVE  Apart(p)
<1>1. hist'[p] = [hist[p] EXCEPT !.touched = @ \cup {slot}] /\ hist[p] \in HistState
  BY DEF Write, TypeOK
<1>2. /\ hist'[p].before = hist[p].before /\ hist'[p].expected = hist[p].expected
      /\ hist'[p].touched = hist[p].touched \cup {slot}
  BY <1>1 DEF HistState
<1>3. \A other \in Slots \ {slot} : server'[other] = server[other]
  BY DEF Write, TypeOK
<1> QED
  BY <1>2, <1>3 DEF Apart

(* A step of another process is apart.                                     *)
LEMMA MoveApart ==
  ASSUME TypeOK, RunInv, NEW q \in Procs, NEW p \in Procs, p # q, Moves(q) PROVE Apart(p)
<1>1. proc'[p] = proc[p]
  BY MoveType
<1>2. CASE UNCHANGED server /\ hist'[p] = hist[p]
  BY <1>1, <1>2 DEF Apart
<1>3. CASE Starts(q)
  <2>1. UNCHANGED server /\ hist'[p] = hist[p]
    BY <1>3, StartsType DEF Starts, Load, Begins, TypeOK
  <2> QED
    BY <1>2, <2>1
<1>4. CASE Calls(q)
  <2>1. CASE RunAttrGet(q)
    BY <1>2, <2>1 DEF RunAttrGet
  <2>2. ASSUME NEW value, proc[q].pc \in {"run", "attr"}, Apply(q, value) PROVE Apart(p)
    BY <1>1, <2>2, CurrentType, WriteApart DEF Apply
  <2> QED
    BY <1>4, <2>1, <2>2 DEF Calls, RunSet, RunDelete, RunAttrSet
<1>5. CASE Exports(q) \/ Fail(q)
  <2>1. UNCHANGED server /\ hist'[p] = hist[p]
    BY <1>5 DEF Exports, ExportList, ExportGet, ExportOpen, ExportSave, Fail, Begins, TypeOK
  <2> QED
    BY <1>2, <2>1
<1> QED
  BY <1>3, <1>4, <1>5 DEF Moves

(* So is a step of another client, and a stutter.                          *)
LEMMA ForeignApart ==
  ASSUME TypeOK, NEW p \in Procs, ForeignWrite \/ UNCHANGED vars PROVE Apart(p)
<1>1. CASE ForeignWrite
  <2>1. PICK slot \in Slots, value \in {Plain(NoAttrs), None} : Write(None, slot, value)
    BY <1>1 DEF ForeignWrite
  <2>2. None # p /\ proc' = proc
    BY <1>1, NoneAssumption DEF ForeignWrite
  <2> QED
    BY <2>1, <2>2, WriteApart
<1>2. CASE UNCHANGED vars
  BY <1>2 DEF vars, Apart
<1> QED
  BY <1>1, <1>2

-----------------------------------------------------------------------------
(* "attr" keeps the encryption of a value.                                 *)

(* What it read is still there, unless somebody else has written the key.  *)
ReadInv(p) ==
    proc[p].pc = "attr" /\ Slot(Current(p)) \notin hist[p].touched =>
      proc[p].got = Answer(Slot(Current(p)))

(* A step apart keeps it.                                                  *)
LEMMA ReadApart ==
  ASSUME TypeOK, RunInv, NEW p \in Procs, ReadInv(p), Apart(p) PROVE ReadInv(p)'
<1>1. CASE proc[p].pc = "attr" /\ Slot(Current(p)) \notin hist'[p].touched
  <2>1. Slot(Current(p)) \in Slots
    BY <1>1, CurrentType
  <2>2. server'[Slot(Current(p))] = server[Slot(Current(p))]
    BY <1>1, <2>1 DEF Apart
  <2>3. Current(p)' = Current(p) /\ Slot(Current(p))' = Slot(Current(p))
    BY DEF Apart, Current, Slot
  <2>4. Answer(Slot(Current(p)))' = Answer(Slot(Current(p)))
    BY <2>2, <2>3 DEF Answer
  <2> QED
    BY <1>1, <2>3, <2>4 DEF ReadInv, Apart
<1>2. CASE ~(proc[p].pc = "attr" /\ Slot(Current(p)) \notin hist'[p].touched)
  BY <1>2 DEF ReadInv, Apart, Current, Slot
<1> QED
  BY <1>1, <1>2

(* After a step of p's own it has just read, or is elsewhere.              *)
LEMMA ReadMoves ==
  ASSUME TypeOK, RunInv, NEW p \in Procs, Moves(p) PROVE ReadInv(p)'
<1>1. CASE RunAttrGet(p)
  <2>1. proc'[p].ops = proc[p].ops /\ proc'[p].at = proc[p].at /\ UNCHANGED server
          /\ (proc'[p].pc = "attr" => proc'[p].got = Answer(Slot(Current(p))))
    BY <1>1, AttrGetType DEF RunAttrGet
  <2>2. Current(p)' = Current(p) /\ Slot(Current(p))' = Slot(Current(p))
    BY <2>1 DEF Current, Slot
  <2> QED
    BY <2>1, <2>2 DEF ReadInv, Answer
<1>2. CASE Starts(p)
  <2>1. proc'[p].pc # "attr"
    <3>1. PICK ops \in Seq(BatchOp), secret \in Secrets \cup {None} :
            \/ Load(p, ops, secret, NoValues)
            \/ backup \notin {None, Blank, Torn} /\ ops = backup /\ Load(p, ops, secret, exported)
      BY <1>2, StartsType DEF Starts
    <3>2. NoValues \in [Slots -> Stored \cup {None}] /\ exported \in [Slots -> Stored \cup {None}]
      BY DEF NoValues, TypeOK
    <3> QED
      BY <3>1, <3>2, LoadType
  <2> QED
    BY <2>1 DEF ReadInv
<1>3. ASSUME NEW value, proc[p].pc \in {"run", "attr"}, Apply(p, value) PROVE ReadInv(p)'
  <2>1. proc'[p].pc # "attr"
    <3>1. CASE Step(p, Advanced(proc[p]))
      BY <1>3, <3>1, AdvancedRuns
    <3>2. CASE Step(p, [proc[p] EXCEPT !.pc = "stopped"])
      BY <3>2 DEF Step, TypeOK, ProcState
    <3> QED
      BY <1>3, <3>1, <3>2 DEF Apply
  <2> QED
    BY <2>1 DEF ReadInv
<1>4. CASE Exports(p)
  <2>1. proc'[p].pc # "attr"
    BY <1>4, ExportTypes DEF Exports
  <2> QED
    BY <2>1 DEF ReadInv
<1>5. CASE Fail(p)
  BY <1>5, FailType DEF ReadInv
<1> QED
  BY <1>1, <1>2, <1>3, <1>4, <1>5 DEF Moves, Calls, RunSet, RunDelete, RunAttrSet

AllRead == \A p \in Procs : ReadInv(p)

(* Every step keeps what the processes know.                               *)
LEMMA StepReads ==
  ASSUME TypeOK, RunInv, AllRead, [Next]_vars PROVE AllRead'
<1>1. ASSUME NEW q \in Procs, Moves(q), NEW p \in Procs PROVE ReadInv(p)'
  <2>1. CASE p = q
    BY <1>1, <2>1, ReadMoves
  <2>2. CASE p # q
    BY <1>1, <2>2, MoveApart, ReadApart DEF AllRead
  <2> QED
    BY <2>1, <2>2
<1>2. ASSUME ForeignWrite \/ UNCHANGED vars, NEW p \in Procs PROVE ReadInv(p)'
  BY <1>2, ForeignApart, ReadApart DEF AllRead
<1> QED
  BY <1>1, <1>2, Steps DEF AllRead

(* The server changes and the process at an "attr" goes on: its own write. *)
LEMMA AttrWrites ==
  ASSUME TypeOK, RunInv, [Next]_vars, NEW p \in Procs,
         proc[p].pc = "attr", server' # server, proc'[p] # proc[p]
  PROVE  RunAttrSet(p)
<1>1. PICK q \in Procs : Moves(q)
  <2>1. ~ForeignWrite
    BY ForeignType
  <2> QED
    BY <2>1, Steps DEF vars
<1>2. q = p
  BY <1>1, MoveType
<1>3. ~Starts(p) /\ ~Exports(p) /\ ~Fail(p)
  <2>1. ~Starts(p)
    BY DEF Starts, RunBatch, RunBackup, RunSetCommand, RunAttrCommand, RunDeleteCommand, RunCommand,
           Load
  <2> QED
    BY <2>1 DEF Exports, ExportList, ExportGet, ExportOpen, ExportSave, Fail
<1> QED
  BY <1>1, <1>2, <1>3 DEF Moves, Calls, RunSet, RunDelete, RunAttrGet

(* An "attr" leaves an encrypted value encrypted as it was, unless someone *)
(* else wrote the key in between (decryptIfNeeded, encryptIfSecret).       *)
THEOREM KeepsLayers == Spec => AttrKeepsLayers
<1>1. TypeOK /\ RunInv /\ AllRead /\ [Next]_vars =>
        [\A p \in Procs :
           LET slot == Slot(Current(p))
           IN  /\ proc[p].pc = "attr" /\ server' # server /\ proc'[p] # proc[p]
               /\ slot \notin hist[p].touched
               /\ server[slot] # None /\ Encrypted(server[slot])
               => /\ server'[slot] # None
                  /\ server'[slot].layers = server[slot].layers]_vars
  <2> SUFFICES ASSUME TypeOK, RunInv, AllRead, [Next]_vars, NEW p \in Procs,
                      proc[p].pc = "attr", server' # server, proc'[p] # proc[p],
                      Slot(Current(p)) \notin hist[p].touched,
                      server[Slot(Current(p))] # None, Encrypted(server[Slot(Current(p))])
               PROVE  /\ server'[Slot(Current(p))] # None
                      /\ server'[Slot(Current(p))].layers = server[Slot(Current(p))].layers
    OBVIOUS
  <2> DEFINE slot == Slot(Current(p))
             new == Encoded(proc[p].new, proc[p].secret)
  <2>1. slot \in Slots /\ server[slot] \in Stored
    BY CurrentType DEF TypeOK
  <2>2. server'[slot] = new
    BY <2>1, AttrWrites DEF RunAttrSet, Apply, Write, TypeOK
  <2>3. new \in Stored
    BY StoredTypes
  <2>4. proc[p].got = server[slot]
    BY DEF AllRead, ReadInv, Answer
  <2>5. AttrResult(server[slot], proc[p].secret, Current(p).edits) # Failed
    BY <2>4, FailedAssumption DEF RunInv, RunsWell
  <2>6. proc[p].secret \in Secrets \cup {None}
    BY DEF TypeOK, ProcState
  <2>7. new.layers = server[slot].layers
    BY <2>1, <2>5, <2>6, EditKeepsLayers
  <2> HIDE DEF slot, new
  <2>8. server'[slot] # None /\ server'[slot].layers = server[slot].layers
    BY <2>2, <2>3, <2>7, NoneAssumption
  <2> QED
    BY <2>8 DEF slot
<1>2. Init => TypeOK /\ RunInv /\ AllRead
  BY InitTypes DEF Init, AllRead, ReadInv, Idle
<1>3. TypeOK /\ RunInv /\ AllRead /\ [Next]_vars => (TypeOK /\ RunInv /\ AllRead)'
  BY StepTypes, StepReads
<1> QED
  BY <1>1, <1>2, <1>3, PTL DEF Spec, AttrKeepsLayers

-----------------------------------------------------------------------------
(* The operations apply in order, and nothing else does.                   *)

(* A server as a batch may leave it, were it alone.                        *)
Servings == [Slots -> Stored \cup {None, Failed}]

(* A valid operation makes a server of a server.                           *)
LEMMA EffectType ==
  ASSUME NEW state \in Servings, NEW o \in BatchOp, Valid(o), NEW secret \in Secrets \cup {None}
  PROVE  Effect(state, o, secret) \in Servings
<1> DEFINE slot == Slot(o)
           old == IF state[slot] = None THEN Plain(NoText) ELSE state[slot]
           result == AttrResult(old, secret, o.edits)
<1>1. old \in Stored \cup {Failed}
  <2>1. slot \in Slots
    BY CallerAssumption DEF Slot, Slots, BatchOp
  <2>2. state[slot] \in Stored \cup {None, Failed}
    BY <2>1 DEF Servings
  <2> HIDE DEF slot
  <2> QED
    BY <2>2, PlainType, ContentAssumption
<1>2. CASE o.op = "set"
  <2>1. o.value \in Stored
    BY <1>2 DEF BatchOp, Valid
  <2>2. ToStore(o, secret) \in Stored
    BY <2>1, SealType DEF ToStore
  <2>3. Effect(state, o, secret) = [state EXCEPT ![Slot(o)] = ToStore(o, secret)]
    BY <1>2 DEF Effect
  <2> QED
    BY <2>2, <2>3 DEF Servings
<1>3. CASE o.op = "delete"
  <2>1. Effect(state, o, secret) = [state EXCEPT ![Slot(o)] = None]
    BY <1>3 DEF Effect
  <2> QED
    BY <2>1 DEF Servings
<1>4. CASE o.op = "attr"
  <2>1. o.edits \in Edits
    BY <1>4 DEF BatchOp, Valid
  <2>2. Effect(state, o, secret) =
          [state EXCEPT ![Slot(o)] = IF old = Failed \/ result = Failed THEN Failed
                                     ELSE Encoded(result, secret)]
    BY <1>4 DEF Effect
  <2>3. ASSUME old # Failed, result # Failed PROVE Encoded(result, secret) \in Stored
    <3>1. old \in Stored
      BY <1>1, <2>3
    <3> HIDE DEF old
    <3>2. result \in Contents
      BY <2>1, <2>3, <3>1, ResultType
    <3> HIDE DEF result
    <3> QED
      BY <3>2, PlainType, SealType DEF Encoded
  <2> HIDE DEF old, result
  <2> QED
    BY <2>2, <2>3 DEF Servings
<1> QED
  BY <1>2, <1>3, <1>4 DEF Valid

(* It changes its own key only.                                            *)
LEMMA EffectElsewhere ==
  ASSUME NEW state \in Servings, NEW o, NEW secret, NEW slot \in Slots, slot # Slot(o)
  PROVE  Effect(state, o, secret)[slot] = state[slot]
  BY DEF Effect, Servings

(* The states of a batch that runs alone are what their definition says.   *)
LEMMA ReplayUnfolds ==
  ASSUME NEW before \in [Slots -> Stored \cup {None}], NEW ops \in Seq(BatchOp),
         NEW secret \in Secrets \cup {None}
  PROVE  LET after == Replay(before, ops, secret)
         IN  /\ after[0] = before
             /\ \A n \in 1..Len(ops) :
                  (\A i \in DOMAIN ops : Valid(ops[i])) =>
                     after[n] = Effect(after[n - 1], ops[n], secret)
<1> DEFINE N == Len(ops)
           valid == \A i \in DOMAIN ops : Valid(ops[i])
           Def(f, n) == IF n = 0 \/ ~valid THEN before ELSE Effect(f[n - 1], ops[n], secret)
           step == [x \in (1..N) \X Servings |->
                      IF valid THEN Effect(x[2], ops[x[1]], secret) ELSE before]
<1>1. before \in Servings /\ N \in Nat
  BY DEF Servings
<1>2. step \in [(1..N) \X Servings -> Servings]
  <2>1. ASSUME NEW i \in 1..N, NEW s \in Servings
        PROVE  (IF valid THEN Effect(s, ops[i], secret) ELSE before) \in Servings
    BY <1>1, EffectType
  <2> HIDE DEF valid
  <2> QED
    BY <2>1
<1>3. PICK f \in [0..N -> Servings] : Recurs(f, N, before, step)
  <2> HIDE DEF step, N
  <2> QED
    BY <1>1, <1>2, Recursion
<1>4. f = [n \in 0..N |-> Def(f, n)]
  <2>1. ASSUME NEW n \in 0..N PROVE f[n] = Def(f, n)
    <3>1. CASE n = 0
      BY <1>3, <3>1 DEF Recurs
    <3>2. CASE n # 0
      <4>1. n \in 1..N /\ n - 1 \in 0..N
        BY <3>2, <1>1
      <4>2. f[n - 1] \in Servings
        BY <4>1
      <4>3. f[n] = IF valid THEN Effect(f[n - 1], ops[n], secret) ELSE before
        <5> HIDE DEF valid
        <5> QED
          BY <1>3, <4>1, <4>2 DEF Recurs
      <4> HIDE DEF valid
      <4> QED
        BY <3>2, <4>3
    <3> QED
      BY <3>1, <3>2
  <2> HIDE DEF Def, N
  <2> QED
    BY <2>1
<1>5. Replay(before, ops, secret) = [n \in 0..N |-> Def(Replay(before, ops, secret), n)]
  <2> DEFINE after == CHOOSE g : g = [n \in 0..N |-> Def(g, n)]
  <2>1. Replay(before, ops, secret) = after
    BY DEF Replay
  <2>2. after = [n \in 0..N |-> Def(after, n)]
    BY <1>4, Zenon
  <2> HIDE DEF after
  <2> QED
    BY <2>1, <2>2, Zenon
<1> DEFINE after == Replay(before, ops, secret)
<1> HIDE DEF after
<1>6. \A n \in 0..N : after[n] = Def(after, n)
  <2> HIDE DEF Def, N
  <2> QED
    BY <1>5 DEF after
<1>7. after[0] = before
  BY <1>1, <1>6
<1>8. ASSUME NEW n \in 1..N, valid PROVE after[n] = Effect(after[n - 1], ops[n], secret)
  BY <1>1, <1>6, <1>8
<1> QED
  BY <1>7, <1>8 DEF after

(* All of them are servers.                                                *)
LEMMA ReplayType ==
  ASSUME NEW before \in [Slots -> Stored \cup {None}], NEW ops \in Seq(BatchOp),
         NEW secret \in Secrets \cup {None}, NEW n \in 0..Len(ops),
         \A i \in DOMAIN ops : Valid(ops[i])
  PROVE  Replay(before, ops, secret)[n] \in Servings
<1> DEFINE after == Replay(before, ops, secret)
           K == {k \in Nat : k <= Len(ops) => after[k] \in Servings}
<1>1. /\ after[0] = before
      /\ \A k \in 1..Len(ops) : after[k] = Effect(after[k - 1], ops[k], secret)
  BY ReplayUnfolds
<1> HIDE DEF after
<1>2. 0 \in K
  BY <1>1 DEF Servings
<1>3. ASSUME NEW k \in Nat, k \in K PROVE k + 1 \in K
  <2> SUFFICES ASSUME k + 1 <= Len(ops) PROVE after[k + 1] \in Servings
    OBVIOUS
  <2>1. k + 1 \in 1..Len(ops) /\ after[k] \in Servings /\ (k + 1) - 1 = k
    BY <1>3
  <2>2. ops[k + 1] \in BatchOp /\ Valid(ops[k + 1])
    BY <2>1
  <2>3. after[k + 1] = Effect(after[k], ops[k + 1], secret)
    BY <1>1, <2>1
  <2> QED
    BY <2>1, <2>2, <2>3, EffectType
<1> HIDE DEF K
<1>4. n \in K
  BY <1>2, <1>3, SetInduction
<1> QED
  BY <1>4 DEF K, after

(* Outside the keys others have written, the server is where the first n   *)
(* operations of p's batch lead.                                           *)
Agrees(p, n) ==
    LET then == Replay(hist[p].before, proc[p].ops, proc[p].secret)[n]
    IN  \A slot \in Slots \ hist[p].touched : server[slot] = then[slot]

OrderInv(p) ==
    proc[p].pc \in {"run", "attr", "done", "stopped"} =>
      \/ Agrees(p, proc[p].at - 1)
      \/ proc[p].pc = "stopped" /\ proc[p].at \in DOMAIN proc[p].ops /\ Agrees(p, proc[p].at)

(* A step apart keeps it.                                                  *)
LEMMA OrderApart ==
  ASSUME NEW p \in Procs, OrderInv(p), Apart(p) PROVE OrderInv(p)'
<1>1. ASSUME NEW n, Agrees(p, n) PROVE Agrees(p, n)'
  <2>1. Replay(hist[p].before, proc[p].ops, proc[p].secret)'
          = Replay(hist[p].before, proc[p].ops, proc[p].secret)
    BY DEF Apart
  <2> QED
    BY <1>1, <2>1 DEF Agrees, Apart
<1> QED
  BY <1>1 DEF OrderInv, Apart

(* A command that starts is nowhere yet.                                   *)
LEMMA OrderStarts ==
  ASSUME TypeOK, NEW p \in Procs, Starts(p) PROVE OrderInv(p)'
<1>1. PICK ops \in Seq(BatchOp), secret \in Secrets \cup {None} :
        \/ Load(p, ops, secret, NoValues)
        \/ backup \notin {None, Blank, Torn} /\ ops = backup /\ Load(p, ops, secret, exported)
  BY StartsType DEF Starts
<1>2. PICK expected \in [Slots -> Stored \cup {None}] : Load(p, ops, secret, expected)
  <2>1. NoValues \in [Slots -> Stored \cup {None}] /\ exported \in [Slots -> Stored \cup {None}]
    BY DEF NoValues, TypeOK
  <2> QED
    BY <1>1, <2>1
<1>3. /\ proc'[p] \in ProcState /\ proc'[p].ops = ops /\ proc'[p].at = 1
      /\ hist'[p].before = server /\ UNCHANGED server
  BY <1>2, LoadType DEF Load
<1>4. proc'[p].secret \in Secrets \cup {None} /\ server \in [Slots -> Stored \cup {None}]
  BY <1>3 DEF ProcState, TypeOK
<1>5. Replay(server, ops, proc'[p].secret)[0] = server
  BY <1>4, ReplayUnfolds
<1>6. proc'[p].at - 1 = 0
  BY <1>3
<1>7. Agrees(p, proc[p].at - 1)'
  BY <1>3, <1>5, <1>6 DEF Agrees
<1> QED
  BY <1>7 DEF OrderInv

(* The current operation takes the server one state on.                    *)
LEMMA AgreesOn ==
  ASSUME TypeOK, RunInv, NEW p \in Procs, proc[p].pc \in {"run", "attr"},
         NEW n, n = proc[p].at, Agrees(p, n - 1), NEW value, Write(p, Slot(Current(p)), value),
         proc'[p].ops = proc[p].ops, proc'[p].secret = proc[p].secret,
         \A state \in Servings :
           /\ Slot(Current(p)) \notin hist[p].touched
           /\ state[Slot(Current(p))] = server[Slot(Current(p))]
           => Effect(state, Current(p), proc[p].secret)[Slot(Current(p))] = value
  PROVE  Agrees(p, n)'
<1> DEFINE me == proc[p]
           slot == Slot(Current(p))
           after == Replay(hist[p].before, me.ops, me.secret)
<1>1. /\ me.ops \in Seq(BatchOp) /\ me.secret \in Secrets \cup {None} /\ n \in 1..Len(me.ops)
      /\ hist[p].before \in [Slots -> Stored \cup {None}]
      /\ \A i \in DOMAIN me.ops : Valid(me.ops[i])
  BY DEF TypeOK, ProcState, HistState, RunInv, RunsWell, ParseBatch
<1>2. after[n] = Effect(after[n - 1], Current(p), me.secret)
  BY <1>1, ReplayUnfolds DEF Current
<1>3. after[n - 1] \in Servings
  BY <1>1, ReplayType
<1>4. slot \in Slots /\ hist'[p] = hist[p] /\ server' = [server EXCEPT ![slot] = value]
  BY CurrentType DEF Write, TypeOK
<1>5. ASSUME NEW other \in Slots \ hist[p].touched PROVE server'[other] = after[n][other]
  <2>1. after[n - 1][other] = server[other]
    BY <1>5 DEF Agrees
  <2>2. CASE other = slot
    <3>1. server'[other] = value
      BY <1>4, <2>2 DEF TypeOK
    <3>2. Effect(after[n - 1], Current(p), me.secret)[slot] = value
      <4> HIDE DEF after
      <4> QED
        BY <1>3, <1>5, <2>1, <2>2
    <3> QED
      BY <1>2, <2>2, <3>1, <3>2
  <2>3. CASE other # slot
    <3>1. server'[other] = server[other]
      BY <1>4, <2>3 DEF TypeOK
    <3>2. Effect(after[n - 1], Current(p), me.secret)[other] = after[n - 1][other]
      <4> HIDE DEF after
      <4> QED
        BY <1>3, <2>3, EffectElsewhere
    <3> QED
      BY <1>2, <2>1, <3>1, <3>2
  <2> QED
    BY <2>2, <2>3
<1> QED
  BY <1>4, <1>5 DEF Agrees

(* A write of the current operation.                                       *)
LEMMA OrderApply ==
  ASSUME TypeOK, RunInv, NEW p \in Procs, OrderInv(p), proc[p].pc \in {"run", "attr"},
         NEW value, Apply(p, value),
         \A state \in Servings :
           /\ Slot(Current(p)) \notin hist[p].touched
           /\ state[Slot(Current(p))] = server[Slot(Current(p))]
           => Effect(state, Current(p), proc[p].secret)[Slot(Current(p))] = value
  PROVE  OrderInv(p)'
<1>0. proc[p] \in ProcState /\ Agrees(p, proc[p].at - 1) /\ Write(p, Slot(Current(p)), value)
        /\ proc[p].at \in DOMAIN proc[p].ops
  BY DEF TypeOK, OrderInv, Apply, RunInv, RunsWell
<1>1. PICK n \in Nat : n = proc[p].at
  BY <1>0 DEF ProcState
<1>2. CASE Step(p, Advanced(proc[p]))
  <2>1. proc'[p] = Advanced(proc[p])
    BY <1>2 DEF Step, TypeOK
  <2>2. /\ proc'[p].ops = proc[p].ops /\ proc'[p].secret = proc[p].secret
        /\ proc'[p].at - 1 = n
    BY <1>0, <1>1, <2>1 DEF Advanced, ProcState
  <2>3. Agrees(p, n)'
    BY <1>0, <1>1, <2>2, AgreesOn
  <2> QED
    BY <2>2, <2>3 DEF OrderInv
<1>3. CASE Step(p, [proc[p] EXCEPT !.pc = "stopped"])
  <2>1. proc'[p] = [proc[p] EXCEPT !.pc = "stopped"]
    BY <1>3 DEF Step, TypeOK
  <2>2. /\ proc'[p].ops = proc[p].ops /\ proc'[p].secret = proc[p].secret
        /\ proc'[p].at = n /\ proc'[p].pc = "stopped"
    BY <1>0, <1>1, <2>1 DEF ProcState
  <2>3. Agrees(p, n)'
    BY <1>0, <1>1, <2>2, AgreesOn
  <2> QED
    BY <1>0, <1>1, <2>2, <2>3 DEF OrderInv
<1> QED
  BY <1>2, <1>3 DEF Apply

(* A call of a batch.                                                      *)
LEMMA OrderCalls ==
  ASSUME TypeOK, RunInv, NEW p \in Procs, ReadInv(p), OrderInv(p), Calls(p) PROVE OrderInv(p)'
<1> DEFINE o == Current(p)
           secret == proc[p].secret
<1>1. CASE RunSet(p)
  <2>1. proc[p].pc = "run" /\ o.op = "set" /\ Apply(p, ToStore(o, secret))
    BY <1>1 DEF RunSet
  <2>2. \A state \in Servings : Effect(state, o, secret)[Slot(o)] = ToStore(o, secret)
    BY <2>1, CurrentType DEF Effect, Servings
  <2> QED
    BY <2>1, <2>2, OrderApply
<1>2. CASE RunDelete(p)
  <2>1. proc[p].pc = "run" /\ o.op = "delete" /\ Apply(p, None)
    BY <1>2 DEF RunDelete
  <2>2. \A state \in Servings : Effect(state, o, secret)[Slot(o)] = None
    BY <2>1, CurrentType DEF Effect, Servings
  <2> QED
    BY <2>1, <2>2, OrderApply
<1>3. CASE RunAttrSet(p)
  <2>1. proc[p].pc = "attr" /\ Apply(p, Encoded(proc[p].new, secret))
    BY <1>3 DEF RunAttrSet
  <2>2. /\ o.op = "attr" /\ proc[p].got \in Stored /\ proc[p].new \in Contents
        /\ proc[p].new = AttrResult(proc[p].got, secret, o.edits)
    BY <2>1 DEF RunInv, RunsWell
  <2>3. Slot(o) \notin hist[p].touched => proc[p].got = Answer(Slot(o))
    BY <2>1 DEF ReadInv
  <2>4. ASSUME NEW state \in Servings, Slot(o) \notin hist[p].touched,
               state[Slot(o)] = server[Slot(o)]
        PROVE  Effect(state, o, secret)[Slot(o)] = Encoded(proc[p].new, secret)
    <3>1. Slot(o) \in Slots
      BY <2>1, CurrentType
    <3>2. (IF state[Slot(o)] = None THEN Plain(NoText) ELSE state[Slot(o)]) = proc[p].got
      BY <2>3, <2>4 DEF Answer
    <3>3. proc[p].got # Failed /\ AttrResult(proc[p].got, secret, o.edits) # Failed
      BY <2>2, FailedAssumption
    <3>4. Effect(state, o, secret)[Slot(o)]
            = Encoded(AttrResult(proc[p].got, secret, o.edits), secret)
      <4> HIDE DEF o, secret
      <4> QED
        BY <2>2, <3>1, <3>2, <3>3 DEF Effect, Servings
    <3> QED
      BY <2>2, <3>4
  <2> QED
    BY <2>1, <2>4, OrderApply
<1>4. CASE RunAttrGet(p)
  <2>1. proc[p].pc = "run" /\ proc[p].at \in DOMAIN proc[p].ops /\ UNCHANGED <<server, hist>>
    BY <1>4 DEF RunAttrGet, RunInv, RunsWell
  <2>2. proc'[p].ops = proc[p].ops /\ proc'[p].at = proc[p].at /\ proc'[p].secret = proc[p].secret
    BY <1>4 DEF RunAttrGet, Step, TypeOK, ProcState
  <2>3. PICK n : n = proc[p].at - 1
    OBVIOUS
  <2>4. Agrees(p, n)'
    BY <2>1, <2>2, <2>3 DEF Agrees, OrderInv
  <2> QED
    BY <2>2, <2>3, <2>4 DEF OrderInv
<1> QED
  BY <1>1, <1>2, <1>3, <1>4 DEF Calls

(* A failure: the batch stops where it was.                                *)
LEMMA OrderFails ==
  ASSUME TypeOK, NEW p \in Procs, OrderInv(p), Fail(p) PROVE OrderInv(p)'
<1>1. CASE proc[p].pc \in {"run", "attr"}
  <2>1. /\ UNCHANGED <<server, hist>>
        /\ proc'[p].ops = proc[p].ops /\ proc'[p].at = proc[p].at
        /\ proc'[p].secret = proc[p].secret
    BY <1>1 DEF Fail, Step, TypeOK, ProcState
  <2>2. PICK n : n = proc[p].at - 1
    OBVIOUS
  <2>3. Agrees(p, n)'
    BY <1>1, <2>1, <2>2 DEF Agrees, OrderInv
  <2> QED
    BY <2>1, <2>2, <2>3 DEF OrderInv
<1>2. CASE proc[p].pc \notin {"run", "attr"}
  <2>1. proc'[p].pc = "idle"
    BY <1>2 DEF Fail, Step, TypeOK, Idle
  <2> QED
    BY <2>1 DEF OrderInv
<1> QED
  BY <1>1, <1>2

(* An export is no batch.                                                  *)
LEMMA ExportLeaves ==
  ASSUME TypeOK, NEW p \in Procs, Exports(p)
  PROVE  proc'[p].pc \in {"idle", "get", "open", "save"}
<1>1. CASE ExportList(p)
  <2>1. PICK todo : proc' = [proc EXCEPT ![p] = IF todo = {} THEN Idle
                                                ELSE [Idle EXCEPT !.pc = "get", !.todo = todo]]
    BY <1>1 DEF ExportList, Step
  <2> QED
    BY <2>1 DEF TypeOK, Idle
<1>2. CASE ExportGet(p)
  BY <1>2 DEF ExportGet, Step, TypeOK, ProcState
<1>3. CASE ExportOpen(p)
  BY <1>3 DEF ExportOpen, Step, TypeOK, ProcState
<1>4. CASE ExportSave(p)
  BY <1>4 DEF ExportSave, Step, TypeOK, Idle
<1> QED
  BY <1>1, <1>2, <1>3, <1>4 DEF Exports

InOrder == \A p \in Procs : OrderInv(p)

(* Every step keeps the order.                                             *)
LEMMA StepOrder ==
  ASSUME TypeOK, RunInv, AllRead, InOrder, [Next]_vars PROVE InOrder'
<1>1. ASSUME NEW q \in Procs, Moves(q), NEW p \in Procs PROVE OrderInv(p)'
  <2>1. CASE p # q
    BY <1>1, <2>1, MoveApart, OrderApart DEF InOrder
  <2>2. CASE p = q
    <3>1. Exports(p) => proc'[p].pc \in {"idle", "get", "open", "save"}
      BY ExportLeaves
    <3> QED
      BY <1>1, <2>2, <3>1, OrderStarts, OrderCalls, OrderFails DEF Moves, InOrder, AllRead, OrderInv
  <2> QED
    BY <2>1, <2>2
<1>2. ASSUME ForeignWrite \/ UNCHANGED vars, NEW p \in Procs PROVE OrderInv(p)'
  BY <1>2, ForeignApart, OrderApart DEF InOrder
<1> QED
  BY <1>1, <1>2, Steps DEF InOrder

(* At any time the server is where exactly the operations before the       *)
(* current one lead, in every key nobody else has written since; only a    *)
(* batch that stopped because an answer was lost may have applied the      *)
(* current one too (ParseBatch, runBatchRun, execBatchOp).                 *)
THEOREM BatchInOrder == Spec => []AppliesInOrder
<1>1. Init => TypeOK /\ RunInv /\ AllRead /\ InOrder
  BY InitTypes DEF Init, AllRead, ReadInv, InOrder, OrderInv, Idle
<1>2. TypeOK /\ RunInv /\ AllRead /\ InOrder /\ [Next]_vars =>
        (TypeOK /\ RunInv /\ AllRead /\ InOrder)'
  BY StepTypes, StepReads, StepOrder
<1>3. InOrder => AppliesInOrder
  BY DEF InOrder, OrderInv, Agrees, AppliesInOrder
<1> QED
  BY <1>1, <1>2, <1>3, PTL DEF Spec

-----------------------------------------------------------------------------
(* A backup brings back what was exported.                                 *)

(* The operations bring every one of the values, and none of them another. *)
Brings(ops, values) ==
    \A slot \in Slots : values[slot] # None =>
      /\ \E i \in DOMAIN ops : Slot(ops[i]) = slot
      /\ \A i \in DOMAIN ops : Slot(ops[i]) = slot =>
           ops[i].op = "set" /\ ops[i].raw /\ ops[i].value = values[slot]

(* A backup that is whole brings what was exported.                        *)
BackupInv == backup \notin {None, Blank, Torn} => Brings(backup, exported)

(* A run has brought the keys of the operations it has passed.             *)
RestoreInv(p) ==
    proc[p].pc \in {"run", "attr", "done"} =>
      /\ Brings(proc[p].ops, hist[p].expected)
      /\ \A slot \in Slots \ hist[p].touched, i \in DOMAIN proc[p].ops :
           hist[p].expected[slot] # None /\ i < proc[p].at /\ Slot(proc[p].ops[i]) = slot
             => server[slot] = hist[p].expected[slot]
      /\ proc[p].pc = "done" => \A i \in DOMAIN proc[p].ops : i < proc[p].at

(* An export has collected what was there when it began.                   *)
Collected(o, h) ==
    /\ o.op = "set" /\ o.raw
    /\ Slot(o) \notin h.touched /\ h.before[Slot(o)] # None => o.value = h.before[Slot(o)]

ExportInv(p) ==
    proc[p].pc \in {"get", "open", "save"} =>
      /\ \A slot \in Slots \ hist[p].touched : server[slot] = hist[p].before[slot]
      /\ \A i \in DOMAIN proc[p].ops : Collected(proc[p].ops[i], hist[p])

(* A step apart keeps both.                                                *)
LEMMA RestoreApart ==
  ASSUME TypeOK, NEW p \in Procs, RestoreInv(p), ExportInv(p), Apart(p)
  PROVE  RestoreInv(p)' /\ ExportInv(p)'
<1>1. RestoreInv(p)'
  BY DEF RestoreInv, Brings, Apart, Slot
<1>2. \A o : Collected(o, hist[p]) => Collected(o, hist'[p])
  BY DEF Apart, Collected
<1>3. ExportInv(p)'
  BY <1>2 DEF ExportInv, Apart
<1> QED
  BY <1>1, <1>3

(* A command that starts has brought nothing yet.                          *)
LEMMA RestoreStarts ==
  ASSUME TypeOK, BackupInv, NEW p \in Procs, Starts(p)
  PROVE  RestoreInv(p)' /\ ExportInv(p)' /\ BackupInv'
<1>1. PICK ops \in Seq(BatchOp), secret \in Secrets \cup {None} :
        \/ Load(p, ops, secret, NoValues)
        \/ backup \notin {None, Blank, Torn} /\ ops = backup /\ Load(p, ops, secret, exported)
  BY StartsType DEF Starts
<1>2. PICK expected \in [Slots -> Stored \cup {None}] :
        Load(p, ops, secret, expected) /\ Brings(ops, expected)
  <2>1. NoValues \in [Slots -> Stored \cup {None}] /\ exported \in [Slots -> Stored \cup {None}]
    BY DEF NoValues, TypeOK
  <2>2. Brings(ops, NoValues)
    BY DEF Brings, NoValues
  <2> QED
    BY <1>1, <2>1, <2>2 DEF BackupInv
<1>3. /\ proc'[p].pc \in {"run", "stopped"} /\ proc'[p].ops = ops /\ proc'[p].at = 1
      /\ hist'[p].expected = expected
  BY <1>2, LoadType
<1>4. \A i \in DOMAIN ops : ~(i < 1)
  OBVIOUS
<1>5. RestoreInv(p)'
  BY <1>2, <1>3, <1>4 DEF RestoreInv, Brings, Slot
<1>6. ExportInv(p)'
  BY <1>3 DEF ExportInv
<1>7. BackupInv'
  BY <1>2 DEF Load, BackupInv, Brings, Slot
<1> QED
  BY <1>5, <1>6, <1>7

(* A write of the current operation: the value expected, or none expected. *)
LEMMA RestoreApply ==
  ASSUME TypeOK, RunInv, NEW p \in Procs, RestoreInv(p), proc[p].pc \in {"run", "attr"},
         NEW value \in Stored \cup {None}, Apply(p, value),
         hist[p].expected[Slot(Current(p))] # None => value = hist[p].expected[Slot(Current(p))]
  PROVE  RestoreInv(p)' /\ ExportInv(p)'
<1>1. CASE Step(p, [proc[p] EXCEPT !.pc = "stopped"])
  <2>1. proc'[p].pc = "stopped"
    BY <1>1 DEF Step, TypeOK, ProcState
  <2> QED
    BY <2>1 DEF RestoreInv, ExportInv
<1>2. CASE Step(p, Advanced(proc[p]))
  <2>1. /\ proc'[p].pc \in {"run", "done"}
        /\ proc'[p].ops = proc[p].ops /\ proc'[p].at = proc[p].at + 1
        /\ proc'[p].pc = "done" => proc[p].at = Len(proc[p].ops)
    BY <1>2, AdvancedRuns
  <2>2. hist'[p] = hist[p] /\ server' = [server EXCEPT ![Slot(Current(p))] = value]
    BY DEF Apply, Write, TypeOK
  <2>3. proc[p].at \in Nat /\ proc[p].ops \in Seq(BatchOp)
    BY DEF TypeOK, ProcState
  <2>4. \A i \in DOMAIN proc[p].ops : i < proc[p].at + 1 => i < proc[p].at \/ i = proc[p].at
    BY <2>3
  <2>5. ASSUME NEW slot \in Slots \ hist[p].touched, NEW i \in DOMAIN proc[p].ops,
               hist[p].expected[slot] # None, i < proc[p].at + 1, Slot(proc[p].ops[i]) = slot
        PROVE  server'[slot] = hist[p].expected[slot]
    <3>1. CASE Slot(Current(p)) = slot
      BY <2>2, <2>5, <3>1 DEF TypeOK
    <3>2. CASE Slot(Current(p)) # slot
      <4>1. i < proc[p].at
        BY <2>4, <2>5, <3>2 DEF Current
      <4> QED
        BY <2>2, <2>5, <3>2, <4>1 DEF RestoreInv, TypeOK
    <3> QED
      BY <3>1, <3>2
  <2>6. proc'[p].pc = "done" => \A i \in DOMAIN proc[p].ops : i < proc[p].at + 1
    BY <2>1, <2>3
  <2>7. Brings(proc[p].ops, hist[p].expected)
    BY DEF RestoreInv
  <2>8. RestoreInv(p)'
    BY <2>1, <2>2, <2>5, <2>6, <2>7 DEF RestoreInv, Brings, Slot
  <2>9. ExportInv(p)'
    BY <2>1 DEF ExportInv
  <2> QED
    BY <2>8, <2>9
<1> QED
  BY <1>1, <1>2 DEF Apply

(* The calls of a batch keep what it brings.                               *)
LEMMA RestoreCalls ==
  ASSUME TypeOK, RunInv, NEW p \in Procs, RestoreInv(p), Calls(p)
  PROVE  RestoreInv(p)' /\ ExportInv(p)'
<1> DEFINE expected == hist[p].expected[Slot(Current(p))]
<1>1. ASSUME proc[p].pc \in {"run", "attr"}, expected # None
      PROVE  Current(p).op = "set" /\ Current(p).raw /\ Current(p).value = expected
  <2>1. proc[p].at \in DOMAIN proc[p].ops
    BY <1>1 DEF RunInv, RunsWell
  <2>2. Slot(Current(p)) \in Slots /\ Brings(proc[p].ops, hist[p].expected)
    BY <1>1, CurrentType DEF RestoreInv
  <2> QED
    BY <1>1, <2>1, <2>2 DEF Brings, Current
<1>2. CASE RunSet(p)
  <2>1. proc[p].pc = "run" /\ Apply(p, ToStore(Current(p), proc[p].secret))
          /\ ToStore(Current(p), proc[p].secret) \in Stored
    BY <1>2, StoredTypes DEF RunSet
  <2>2. expected # None => ToStore(Current(p), proc[p].secret) = expected
    BY <1>1, <2>1 DEF ToStore
  <2> QED
    BY <2>1, <2>2, RestoreApply
<1>3. CASE RunDelete(p)
  BY <1>1, <1>3, RestoreApply DEF RunDelete
<1>4. CASE RunAttrSet(p)
  <2>1. proc[p].pc = "attr" /\ Apply(p, Encoded(proc[p].new, proc[p].secret))
          /\ Encoded(proc[p].new, proc[p].secret) \in Stored /\ Current(p).op = "attr"
    BY <1>4, StoredTypes DEF RunAttrSet, RunInv, RunsWell
  <2> QED
    BY <1>1, <2>1, RestoreApply
<1>5. CASE RunAttrGet(p)
  <2>1. proc'[p].ops = proc[p].ops /\ proc'[p].at = proc[p].at
    BY <1>5, AttrGetType
  <2>2. proc[p].pc = "run" /\ UNCHANGED <<server, hist>>
    BY <1>5 DEF RunAttrGet
  <2>3. proc'[p].pc \in {"attr", "stopped"}
    BY <1>5 DEF RunAttrGet, GoesOn, Step, TypeOK, ProcState
  <2>4. RestoreInv(p)'
    BY <2>1, <2>2, <2>3 DEF RestoreInv, Brings, Slot
  <2>5. ExportInv(p)'
    BY <2>3 DEF ExportInv
  <2> QED
    BY <2>4, <2>5
<1> QED
  BY <1>2, <1>3, <1>4, <1>5 DEF Calls

(* An export collects what is there, and the file it writes brings it.     *)
LEMMA RestoreExports ==
  ASSUME TypeOK, NEW p \in Procs, BackupInv, ExportInv(p), Exports(p)
  PROVE  RestoreInv(p)' /\ ExportInv(p)' /\ BackupInv'
<1> DEFINE me == proc[p]
<1>0. me \in ProcState /\ hist[p] \in HistState
  BY DEF TypeOK
<1>1. RestoreInv(p)'
  BY ExportTypes DEF Exports, RestoreInv
<1>2. CASE ExportList(p)
  <2>1. proc'[p].ops = <<>>
    BY <1>2 DEF ExportList, Step, Idle, TypeOK
  <2>2. hist'[p].touched = {} /\ hist'[p].before = server /\ UNCHANGED <<server, backup, exported>>
    BY <1>2 DEF ExportList, Begins, TypeOK
  <2>3. ExportInv(p)'
    BY <2>1, <2>2 DEF ExportInv
  <2> QED
    BY <1>1, <2>2, <2>3 DEF BackupInv, Brings, Slot
<1>3. CASE ExportGet(p)
  <2>1. PICK slot \in me.todo :
          Step(p, [me EXCEPT !.ops = Append(@, ExportOp(slot, Answer(slot))),
                             !.todo = @ \ {slot},
                             !.pc = IF me.todo = {slot} THEN "open" ELSE "get"])
    BY <1>3 DEF ExportGet
  <2> DEFINE o == ExportOp(slot, Answer(slot))
  <2>2. slot \in Slots /\ me.ops \in Seq(BatchOp) /\ me.pc = "get"
    BY <1>0, <1>3 DEF ProcState, ExportGet
  <2>3. o \in BatchOp /\ Slot(o) = slot /\ o.op = "set" /\ o.raw /\ o.value = Answer(slot)
    BY <2>2, AnswerType, ExportOpType DEF ExportOp
  <2>4. proc'[p].ops = Append(me.ops, o)
    BY <1>0, <2>1 DEF Step, TypeOK, ProcState
  <2>5. UNCHANGED <<server, backup, exported, hist>>
    BY <1>3 DEF ExportGet
  <2>6. Collected(o, hist[p])
    BY <2>2, <2>3 DEF ExportInv, Answer, Collected
  <2> HIDE DEF o
  <2>7. ASSUME NEW i \in DOMAIN Append(me.ops, o) PROVE Collected(Append(me.ops, o)[i], hist[p])
    <3>1. CASE i \in DOMAIN me.ops
      <4>1. Append(me.ops, o)[i] = me.ops[i]
        BY <2>2, <3>1
      <4> QED
        BY <2>2, <3>1, <4>1 DEF ExportInv
    <3>2. CASE i \notin DOMAIN me.ops
      <4>1. Append(me.ops, o)[i] = o
        BY <2>2, <2>7, <3>2
      <4> QED
        BY <2>3, <2>6, <4>1
    <3> QED
      BY <3>1, <3>2
  <2>8. ExportInv(p)'
    BY <2>2, <2>4, <2>5, <2>7 DEF ExportInv
  <2>9. BackupInv'
    BY <2>5 DEF BackupInv, Brings, Slot
  <2> QED
    BY <1>1, <2>8, <2>9
<1>4. CASE ExportOpen(p)
  <2>1. proc'[p].ops = me.ops /\ me.pc = "open"
    BY <1>0, <1>4 DEF ExportOpen, Step, TypeOK, ProcState
  <2>2. UNCHANGED <<server, hist>> /\ backup' = Blank
    BY <1>4 DEF ExportOpen
  <2> QED
    BY <1>1, <2>1, <2>2 DEF ExportInv, BackupInv
<1>5. CASE ExportSave(p)
  <2>1. proc'[p].pc = "idle"
    BY <1>5 DEF ExportSave, Step, TypeOK, Idle
  <2>2. backup' \in {me.ops, Torn} /\ me.pc = "save"
    BY <1>5 DEF ExportSave
  <2>3. ASSUME NEW slot \in Slots, exported'[slot] # None
        PROVE  /\ \E i \in DOMAIN me.ops : Slot(me.ops[i]) = slot
               /\ \A i \in DOMAIN me.ops : Slot(me.ops[i]) = slot =>
                    me.ops[i].op = "set" /\ me.ops[i].raw /\ me.ops[i].value = exported'[slot]
    <3>1. /\ slot \notin hist[p].touched /\ exported'[slot] = hist[p].before[slot]
          /\ \E i \in DOMAIN me.ops : Slot(me.ops[i]) = slot
      BY <1>5, <2>3 DEF ExportSave
    <3>2. \A i \in DOMAIN me.ops : Collected(me.ops[i], hist[p])
      BY <2>2 DEF ExportInv
    <3> QED
      BY <2>3, <3>1, <3>2 DEF Collected
  <2>4. BackupInv'
    BY <2>2, <2>3 DEF BackupInv, Brings, Slot
  <2> QED
    BY <1>1, <2>1, <2>4 DEF ExportInv
<1> QED
  BY <1>2, <1>3, <1>4, <1>5 DEF Exports

BackupsBring == BackupInv /\ \A p \in Procs : RestoreInv(p) /\ ExportInv(p)

(* Every step keeps all three.                                             *)
LEMMA StepBrings ==
  ASSUME TypeOK, RunInv, BackupsBring, [Next]_vars PROVE BackupsBring'
<1>1. ASSUME NEW q \in Procs, Moves(q) PROVE BackupsBring'
  <2>1. RestoreInv(q)' /\ ExportInv(q)' /\ BackupInv'
    <3>1. CASE Starts(q)
      BY <3>1, RestoreStarts DEF BackupsBring
    <3>2. CASE Calls(q)
      <4>1. UNCHANGED <<backup, exported>>
        BY <3>2 DEF Calls, RunSet, RunDelete, RunAttrGet, RunAttrSet, Apply
      <4> QED
        BY <3>2, <4>1, RestoreCalls DEF BackupsBring, BackupInv, Brings, Slot
    <3>3. CASE Exports(q)
      BY <3>3, RestoreExports DEF BackupsBring
    <3>4. CASE Fail(q)
      <4>1. UNCHANGED <<backup, exported>> /\ proc'[q].pc \in {"stopped", "idle"}
        BY <3>4, FailType DEF Fail
      <4> QED
        BY <4>1 DEF BackupsBring, BackupInv, Brings, Slot, RestoreInv, ExportInv
    <3> QED
      BY <1>1, <3>1, <3>2, <3>3, <3>4 DEF Moves
  <2>2. ASSUME NEW p \in Procs, p # q PROVE RestoreInv(p)' /\ ExportInv(p)'
    BY <1>1, <2>2, MoveApart, RestoreApart DEF BackupsBring
  <2> QED
    BY <2>1, <2>2 DEF BackupsBring
<1>2. ASSUME ForeignWrite \/ UNCHANGED vars PROVE BackupsBring'
  <2>1. UNCHANGED <<backup, exported>>
    BY <1>2 DEF ForeignWrite, vars
  <2> QED
    BY <1>2, <2>1, ForeignApart, RestoreApart DEF BackupsBring, BackupInv, Brings, Slot
<1> QED
  BY <1>1, <1>2, Steps

(* A complete run of a backup, with any secret or none, brings back every  *)
(* key as it was at the export, unless somebody else wrote it during the   *)
(* export or during the run (runBatchExport, BatchOp.Raw).                 *)
THEOREM BackupRestores == Spec => []RestoredAsExported
<1>1. Init => TypeOK /\ RunInv /\ BackupsBring
  BY InitTypes DEF Init, BackupsBring, BackupInv, RestoreInv, ExportInv, Idle
<1>2. TypeOK /\ RunInv /\ BackupsBring /\ [Next]_vars => (TypeOK /\ RunInv /\ BackupsBring)'
  BY StepTypes, StepBrings
<1>3. TypeOK /\ BackupsBring => RestoredAsExported
  <2> SUFFICES ASSUME TypeOK, BackupsBring, NEW p \in Procs, proc[p].pc = "done",
                      NEW slot \in Slots \ hist[p].touched, hist[p].expected[slot] # None
               PROVE  server[slot] = hist[p].expected[slot]
    BY DEF RestoredAsExported
  <2>1. PICK i \in DOMAIN proc[p].ops : Slot(proc[p].ops[i]) = slot
    BY DEF BackupsBring, RestoreInv, Brings
  <2> QED
    BY <2>1 DEF BackupsBring, RestoreInv
<1> QED
  BY <1>1, <1>2, <1>3, PTL DEF Spec
===============================================================================
