--------------------------- MODULE AtomicFileProofs ---------------------------
(***************************************************************************)
(* WriteFileAtomic is atomic for any number of writers and contents: its   *)
(* steps implement AtomicRegister.                                         *)
(***************************************************************************)
EXTENDS AtomicFile, TLAPS

(* A writer syncs the whole of its file before it renames it, and knows    *)
(* where in the history its file went.                                     *)
WriterOK(me) ==
    /\ me.pc = "sync" => me.tmp.mem = "full"
    /\ me.pc = "rename" => me.tmp = Whole(me.tmp.data)
    /\ me.pc = "syncDir" => me.at \in 1..Len(path)
    /\ me.pc # "syncDir" => me.at = 0

IInv ==
    /\ TypeOK
    /\ \A i \in 1..Len(path) : path[i] = Whole(path[i].data)
    /\ acked <= flushed
    /\ dir = "missing" => path = <<>> /\ \A w \in Writers : writer[w] = Idle
    /\ \A w \in Writers : writer[w] # Idle => WriterOK(writer[w])

-----------------------------------------------------------------------------
LEMMA InitInv == Init => IInv
<1> SUFFICES ASSUME Init PROVE IInv
  OBVIOUS
<1>1. \A d \in Data : Whole(d) \in File /\ Whole(d).data = d
  BY DEF Whole, File, Extent
<1>2. path \in Seq(File) /\ Len(path) \in {0, 1} /\ \A i \in 1..Len(path) : path[i] = Whole(path[i].data)
  <2>1. CASE path = <<>>
    BY <2>1
  <2>2. CASE path # <<>>
    <3>1. PICK d \in Data : path = <<Whole(d)>>
      BY <2>2 DEF Init
    <3> QED BY <1>1, <3>1
  <2> QED BY <2>1, <2>2
<1>3. \A w \in Writers : writer[w] = Idle
  BY DEF Init
<1>4. flushed \in 0..Len(path) /\ acked \in Nat /\ acked <= flushed
  BY <1>2 DEF Init
<1> QED BY <1>2, <1>3, <1>4 DEF Init, IInv, TypeOK

LEMMA WholeFiles ==
    ASSUME IInv, NEW i \in 1..Len(path)
    PROVE  path[i].mem = "full" /\ path[i].disk = "full" /\ path[i].data \in Data
<1>1. path[i] = Whole(path[i].data) /\ path[i] \in File
  BY DEF IInv, TypeOK
<1>2. path[i].mem = "full" /\ path[i].disk = "full"
  <2> DEFINE f == path[i]
             d == f.data
  <2>1. f = Whole(d)
    BY <1>1
  <2> HIDE DEF d
  <2> QED BY <2>1 DEF Whole
<1>3. path[i].data \in Data
  BY <1>1 DEF File
<1> QED BY <1>2, <1>3

(* A writer that is not idle has a full record.                            *)
LEMMA Running ==
    ASSUME IInv, NEW w \in Writers, writer[w].pc # "idle"
    PROVE  writer[w] \in Writer /\ writer[w] # Idle /\ WriterOK(writer[w]) /\ dir # "missing"
  BY DEF IInv, TypeOK, Idle

(* A step of one writer that leaves path alone.                            *)
LEMMA WriterStep ==
    ASSUME IInv, NEW w \in Writers, NEW me, writer' = [writer EXCEPT ![w] = me],
           me = Idle \/ (me \in Writer /\ WriterOK(me)),
           path' = path, flushed' \in flushed..Len(path), acked' \in 0..flushed',
           dir' \in {"missing", "made", "durable"},
           dir' = "missing" => dir = "missing" /\ me = Idle
    PROVE  IInv'
<1>1. flushed' \in 0..Len(path) /\ acked' \in Nat /\ acked' <= flushed'
  BY DEF IInv, TypeOK
<1>2. \A v \in Writers : writer'[v] = IF v = w THEN me ELSE writer[v]
  BY DEF IInv, TypeOK
<1>3. TypeOK'
  BY <1>1 DEF IInv, TypeOK
<1>4. \A v \in Writers : writer'[v] # Idle => WriterOK(writer[v])' 
  BY <1>2 DEF IInv, WriterOK
<1> QED BY <1>1, <1>2, <1>3, <1>4 DEF IInv

LEMMA PrepareInv ==
    ASSUME IInv, NEW w \in Writers, EnsurePrivateDir(w) \/ CreateTemp(w) \/ Write(w) \/ Sync(w)
    PROVE  IInv'
<1>1. /\ UNCHANGED <<path, flushed, acked>> /\ dir' # "missing"
      /\ dir' \in {"missing", "made", "durable"}
  BY Running DEF EnsurePrivateDir, CreateTemp, Write, Sync, IInv, TypeOK
<1>2. flushed' \in flushed..Len(path) /\ acked' \in 0..flushed'
  BY <1>1 DEF IInv, TypeOK
<1>3. CASE EnsurePrivateDir(w)
  <2>1. PICK d \in Data : writer' = [writer EXCEPT ![w] =
              [pc |-> "create", at |-> 0,
               tmp |-> [data |-> d, mem |-> "empty", disk |-> "empty"]]]
    BY <1>3 DEF EnsurePrivateDir
  <2> DEFINE me == [pc |-> "create", at |-> 0,
                    tmp |-> [data |-> d, mem |-> "empty", disk |-> "empty"]]
  <2>2. me \in Writer /\ WriterOK(me)
    BY DEF Writer, File, Extent, WriterOK
  <2> QED BY <1>1, <1>2, <2>1, <2>2, WriterStep
<1>4. CASE CreateTemp(w) \/ Write(w) \/ Sync(w)
  <2>1. writer[w].pc \in {"create", "write", "sync"}
    BY <1>4 DEF CreateTemp, Write, Sync
  <2>2. writer[w] \in Writer /\ WriterOK(writer[w])
    BY <2>1, Running
  <2>3. PICK pc, tmp : Goto(w, pc, tmp) /\
          \/ pc = "write" /\ tmp \in File
          \/ pc = "sync" /\ tmp \in File /\ tmp.mem = "full"
          \/ pc = "rename" /\ tmp \in File /\ tmp = Whole(tmp.data)
    <3>1. CASE CreateTemp(w)
      BY <2>2, <3>1 DEF CreateTemp, Writer
    <3>2. CASE Write(w)
      BY <2>2, <3>2 DEF Write, Writer, File, Extent
    <3>3. CASE Sync(w)
      BY <2>2, <3>3 DEF Sync, Writer, File, Extent, WriterOK, Whole
    <3> QED BY <1>4, <3>1, <3>2, <3>3
  <2> DEFINE me == [writer[w] EXCEPT !.pc = pc, !.tmp = tmp]
  <2>4. writer' = [writer EXCEPT ![w] = me]
    BY <2>3 DEF Goto
  <2>5. me \in Writer /\ WriterOK(me)
    BY <2>1, <2>2, <2>3 DEF Writer, WriterOK
  <2> QED BY <1>1, <1>2, <2>4, <2>5, WriterStep
<1> QED BY <1>3, <1>4

LEMMA RenameInv == ASSUME IInv, NEW w \in Writers, Rename(w) PROVE IInv'
<1> DEFINE me  == writer[w]
           new == [me EXCEPT !.pc = "syncDir", !.at = Len(path) + 1]
<1>1. /\ me.pc = "rename" /\ path' = Append(path, me.tmp)
      /\ UNCHANGED <<flushed, dir, acked>>
  BY DEF Rename
<1>2. me \in Writer /\ me.tmp = Whole(me.tmp.data) /\ dir # "missing"
  BY <1>1, Running DEF WriterOK
<1>3. writer' = [writer EXCEPT ![w] = new]
  BY DEF Rename
<1>4. new \in Writer /\ new.pc = "syncDir" /\ new.at = Len(path) + 1
  <2>1. Len(path) + 1 \in Nat
    BY DEF IInv, TypeOK
  <2> HIDE DEF me
  <2> QED BY <1>2, <2>1 DEF Writer
<1>5. /\ path' \in Seq(File) /\ Len(path') = Len(path) + 1
      /\ \A i \in 1..Len(path') : path'[i] = IF i <= Len(path) THEN path[i] ELSE me.tmp
  BY <1>1, <1>2 DEF Writer, IInv, TypeOK
<1> HIDE DEF me, new
<1>6. \A v \in Writers : writer'[v] = IF v = w THEN new ELSE writer[v]
  BY <1>3 DEF IInv, TypeOK
<1>7. \A v \in Writers : writer'[v] # Idle => WriterOK(writer[v])'
  BY <1>4, <1>5, <1>6 DEF IInv, TypeOK, WriterOK
<1>8. TypeOK'
  BY <1>1, <1>3, <1>4, <1>5 DEF IInv, TypeOK
<1>9. \A i \in 1..Len(path') : path'[i] = Whole(path'[i].data)
  BY <1>2, <1>5 DEF IInv, TypeOK
<1> QED BY <1>1, <1>2, <1>7, <1>8, <1>9 DEF IInv

LEMMA SyncDirInv == ASSUME IInv, NEW w \in Writers, SyncDir(w) PROVE IInv'
<1>1. writer[w].pc = "syncDir" /\ flushed' = Len(path) /\ UNCHANGED <<path, dir>>
  BY DEF SyncDir
<1>2. writer[w].at \in 1..Len(path) /\ dir # "missing"
  BY <1>1, Running DEF WriterOK
<1>3. flushed' \in flushed..Len(path) /\ acked' \in 0..flushed'
  BY <1>1, <1>2 DEF SyncDir, IInv, TypeOK
<1>4. dir' \in {"missing", "made", "durable"}
  BY <1>1 DEF IInv, TypeOK
<1> QED BY <1>1, <1>2, <1>3, <1>4, WriterStep DEF SyncDir

LEMMA FailInv == ASSUME IInv, NEW w \in Writers, Fail(w) PROVE IInv'
<1>1. flushed' \in flushed..Len(path) /\ acked' \in 0..flushed'
  BY DEF Fail, IInv, TypeOK
<1> QED BY <1>1, WriterStep DEF Fail, IInv, TypeOK

(* Nothing that is in path can be torn.                                    *)
LEMMA Cut ==
    ASSUME IInv, NEW n \in flushed..Len(path), NEW left \in [1..n -> Extent],
           \A i \in 1..n : left[i] \in Survives(path[i]),
           path' = [i \in 1..n |-> [data |-> path[i].data, mem |-> left[i], disk |-> left[i]]]
    PROVE  /\ path' \in Seq(File) /\ Len(path') = n
           /\ \A i \in 1..n : path'[i] = path[i]
<1>1. n \in Nat /\ n <= Len(path)
  BY DEF IInv, TypeOK
<1>2. \A i \in 1..n : left[i] = "full"
  BY <1>1, WholeFiles DEF Survives
<1>3. \A i \in 1..n : path'[i] = path[i] /\ path[i] \in File
  BY <1>1, <1>2 DEF IInv, Whole, TypeOK
<1>4. path' \in [1..n -> File]
  BY <1>3
<1> QED BY <1>1, <1>3, <1>4

LEMMA PowerLossInv == ASSUME IInv, PowerLoss PROVE IInv'
<1>1. \A w \in Writers : writer'[w] = Idle
  BY DEF PowerLoss
<1>2. writer' \in [Writers -> Writer \cup {Idle}]
  BY DEF PowerLoss
<1>3. ASSUME NEW n \in flushed..Len(path), flushed' = n,
             NEW left \in [1..n -> Extent], \A i \in 1..n : left[i] \in Survives(path[i]),
             path' = [i \in 1..n |-> [data |-> path[i].data, mem |-> left[i], disk |-> left[i]]],
             dir' = IF dir = "made" THEN "durable" ELSE dir, acked' = acked
      PROVE  IInv'
  <2>1. path' \in Seq(File) /\ Len(path') = n /\ \A i \in 1..n : path'[i] = path[i]
    BY <1>3, Cut
  <2>2. n \in Nat /\ flushed' \in 0..Len(path') /\ acked' \in Nat /\ acked' <= flushed'
    BY <1>3, <2>1 DEF IInv, TypeOK
  <2>3. \A i \in 1..Len(path') : path'[i] = Whole(path'[i].data)
    BY <1>3, <2>1 DEF IInv, TypeOK
  <2>4. dir' = "missing" => path' = <<>>
    BY <1>3, <2>1 DEF IInv
  <2>5. dir' \in {"missing", "made", "durable"}
    BY <1>3 DEF IInv, TypeOK
  <2> QED BY <1>1, <1>2, <2>1, <2>2, <2>3, <2>4, <2>5 DEF IInv, TypeOK
<1>4. CASE dir' = "missing" /\ path' = <<>> /\ flushed' = 0 /\ acked' = 0
  BY <1>1, <1>2, <1>4 DEF IInv, TypeOK
<1> QED BY <1>3, <1>4 DEF PowerLoss

LEMMA NextInv == IInv /\ [Next]_vars => IInv'
<1> SUFFICES ASSUME IInv, [Next]_vars PROVE IInv'
  OBVIOUS
<1>1. CASE UNCHANGED vars
  BY <1>1 DEF vars, IInv, TypeOK, WriterOK
<1> QED BY <1>1, PrepareInv, RenameInv, SyncDirInv, FailInv, PowerLossInv DEF Next

(* The inductive invariant holds in every state.                           *)
THEOREM Invariance == Spec => []IInv
<1> QED BY InitInv, NextInv, PTL DEF Spec

(* A reader never finds a partial file: any number of writers, any crash.  *)
THEOREM FileIsWhole == Spec => []NeverPartial
<1>1. ASSUME IInv, path # <<>> PROVE path[Len(path)].mem = "full"
  <2>1. Len(path) \in 1..Len(path)
    BY <1>1 DEF IInv, TypeOK
  <2> QED BY <1>1, <2>1, WholeFiles
<1>2. IInv => NeverPartial
  BY <1>1 DEF NeverPartial
<1> QED BY <1>2, Invariance, PTL

(* Once nil is returned, in a directory that is itself on disk, the new    *)
(* file can only be replaced by a newer one.                               *)
THEOREM ReturnedStays == Spec => ReturnedSurvives
<1>1. ASSUME IInv, Next, dir = "durable", NEW i \in 1..acked
      PROVE  i <= Len(path') /\ path'[i] = path[i]
  <2>1. i \in 1..flushed /\ i \in 1..Len(path)
    BY <1>1 DEF IInv, TypeOK
  <2>2. CASE path' = path
    BY <2>1, <2>2 DEF IInv, TypeOK
  <2>3. CASE \E w \in Writers : Rename(w)
    <3>1. PICK w \in Writers : Rename(w)
      BY <2>3
    <3>2. writer[w] \in Writer
      BY <1>1, <3>1, Running DEF Rename
    <3>3. path' = Append(path, writer[w].tmp) /\ writer[w].tmp \in File
      BY <3>1, <3>2 DEF Rename, Writer
    <3> QED BY <1>1, <2>1, <3>3 DEF IInv, TypeOK
  <2>4. CASE PowerLoss
    <3>1. PICK n \in flushed..Len(path) : \E left \in [1..n -> Extent] :
             /\ \A j \in 1..n : left[j] \in Survives(path[j])
             /\ path' = [j \in 1..n |-> [data |-> path[j].data, mem |-> left[j], disk |-> left[j]]]
      BY <1>1, <2>4 DEF PowerLoss
    <3>2. Len(path') = n /\ \A j \in 1..n : path'[j] = path[j]
      BY <1>1, <3>1, Cut
    <3>3. i \in 1..n
      BY <1>1, <2>1, <3>1 DEF IInv, TypeOK
    <3> QED BY <3>2, <3>3
  <2> QED BY <1>1, <2>2, <2>3, <2>4 DEF Next, EnsurePrivateDir, CreateTemp, Write, Sync,
             SyncDir, Fail
<1>2. ASSUME IInv, UNCHANGED vars, NEW i \in 1..acked
      PROVE  i <= Len(path') /\ path'[i] = path[i]
  BY <1>2 DEF IInv, TypeOK, vars
<1>3. IInv /\ [Next]_vars => [KeepsReturned]_vars
  BY <1>1, <1>2 DEF KeepsReturned
<1> QED BY <1>3, Invariance, PTL DEF Spec, ReturnedSurvives

-----------------------------------------------------------------------------
(* The refinement.                                                         *)

RJob == [w \in Writers |-> JobOf(writer[w])]

LEMMA ContentsAre ==
    ASSUME IInv
    PROVE  /\ Contents \in Seq(Data) /\ Len(Contents) = Len(path)
           /\ \A i \in 1..Len(path) : Contents[i] = path[i].data
<1>1. Len(path) \in Nat
  BY DEF IInv, TypeOK
<1>2. \A i \in 1..Len(path) : Contents[i] = path[i].data /\ path[i].data \in Data
  BY WholeFiles DEF Contents
<1>3. Contents \in [1..Len(path) -> Data]
  BY <1>2 DEF Contents
<1> QED BY <1>1, <1>2, <1>3 DEF Contents

LEMMA ContentsUnchanged == ASSUME path' = path PROVE Contents' = Contents
  BY DEF Contents

LEMMA InitRefines == Init => Register!Init
<1> SUFFICES ASSUME Init PROVE Register!Init
  OBVIOUS
<1>1. IInv
  BY InitInv
<1>2. Contents \in {<<>>} \cup {<<d>> : d \in Data}
  <2>1. CASE path = <<>>
    <3>1. Contents = <<>>
      BY <1>1, <2>1, ContentsAre
    <3> QED BY <3>1
  <2>2. CASE path # <<>>
    <3>1. PICK d \in Data : path = <<Whole(d)>>
      BY <2>2 DEF Init
    <3>2. Contents \in Seq(Data) /\ Len(Contents) = 1 /\ Contents[1] = d
      BY <1>1, <3>1, ContentsAre DEF Whole
    <3>3. Contents = <<d>>
      BY <3>2
    <3> QED BY <3>3
  <2> QED BY <2>1, <2>2
<1>3. flushed = Len(Contents)
  BY <1>1, ContentsAre DEF Init
<1>4. RJob = [w \in Writers |-> Register!Done]
  BY DEF Init, RJob, JobOf, Register!Done
<1> QED BY <1>2, <1>3, <1>4 DEF Init, Register!Init, RJob

(* A step of one writer is a step of its job.                              *)
LEMMA JobStep ==
    ASSUME IInv, NEW w \in Writers, NEW me, writer' = [writer EXCEPT ![w] = me]
    PROVE  RJob' = [RJob EXCEPT ![w] = JobOf(me)]
<1>1. \A v \in Writers : writer'[v] = IF v = w THEN me ELSE writer[v]
  BY DEF IInv, TypeOK
<1>2. RJob' = [v \in Writers |-> JobOf(writer'[v])]
  BY DEF RJob, JobOf
<1>3. \A v \in Writers : RJob'[v] = IF v = w THEN JobOf(me) ELSE RJob[v]
  BY <1>1, <1>2 DEF RJob
<1> QED BY <1>2, <1>3 DEF RJob

LEMMA PrepareRefines ==
    ASSUME IInv, NEW w \in Writers, EnsurePrivateDir(w)
    PROVE  Register!Begin(w)
<1>1. PICK d \in Data : writer' = [writer EXCEPT ![w] =
              [pc |-> "create", at |-> 0,
               tmp |-> [data |-> d, mem |-> "empty", disk |-> "empty"]]]
  BY DEF EnsurePrivateDir
<1>2. RJob' = [RJob EXCEPT ![w] = [busy |-> TRUE, data |-> d, at |-> 0]]
  BY <1>1, JobStep DEF JobOf, Idle
<1>3. RJob[w] = Register!Done
  BY DEF EnsurePrivateDir, RJob, JobOf, Register!Done
<1>4. Contents' = Contents /\ UNCHANGED <<flushed, acked, dir = "durable">>
  BY ContentsUnchanged DEF EnsurePrivateDir
<1> QED BY <1>2, <1>3, <1>4 DEF Register!Begin, RJob

LEMMA WriteRefines ==
    ASSUME IInv, NEW w \in Writers, CreateTemp(w) \/ Write(w) \/ Sync(w)
    PROVE  UNCHANGED Register!vars
<1>1. writer[w].pc \in {"create", "write", "sync"}
  BY DEF CreateTemp, Write, Sync
<1>2. writer[w] \in Writer /\ writer[w] # Idle
  BY <1>1, Running
<1>3. PICK pc \in {"write", "sync", "rename"}, tmp \in File :
        Goto(w, pc, tmp) /\ tmp.data = writer[w].tmp.data
  BY <1>2 DEF CreateTemp, Write, Sync, Writer, File, Extent
<1> DEFINE me == [writer[w] EXCEPT !.pc = pc, !.tmp = tmp]
<1>4. writer' = [writer EXCEPT ![w] = me]
  BY <1>3 DEF Goto
<1>5. me.pc = pc /\ me.tmp = tmp /\ me.at = writer[w].at
  BY <1>2 DEF Writer
<1>6. me # Idle
  BY <1>5 DEF Idle
<1>7. JobOf(me) = JobOf(writer[w])
  BY <1>2, <1>3, <1>5, <1>6 DEF JobOf
<1> HIDE DEF me
<1>8. RJob' = [RJob EXCEPT ![w] = RJob[w]]
  BY <1>4, <1>7, JobStep DEF RJob
<1>9. RJob' = RJob
  BY <1>8 DEF RJob
<1>10. Contents' = Contents /\ UNCHANGED <<flushed, acked, dir = "durable">>
  BY ContentsUnchanged DEF CreateTemp, Write, Sync
<1> QED BY <1>9, <1>10 DEF Register!vars, RJob

LEMMA RenameRefines ==
    ASSUME IInv, NEW w \in Writers, Rename(w)
    PROVE  Register!Commit(w)
<1> DEFINE me  == writer[w]
           new == [me EXCEPT !.pc = "syncDir", !.at = Len(path) + 1]
<1>1. /\ me.pc = "rename" /\ path' = Append(path, me.tmp)
      /\ writer' = [writer EXCEPT ![w] = new] /\ UNCHANGED <<flushed, dir, acked>>
  BY DEF Rename
<1>2. me \in Writer /\ me # Idle /\ me.tmp = Whole(me.tmp.data) /\ me.at = 0
  BY <1>1, Running DEF WriterOK
<1>3. IInv'
  BY RenameInv
<1>4. Len(path) \in Nat /\ path \in Seq(File) /\ me.tmp \in File
  BY <1>2 DEF IInv, TypeOK, Writer
<1>5. RJob[w] = [busy |-> TRUE, data |-> me.tmp.data, at |-> 0]
  BY <1>2 DEF RJob, JobOf
<1> HIDE DEF me
<1>6. new.tmp = me.tmp /\ new.at = Len(path) + 1 /\ new.pc = "syncDir"
  BY <1>2 DEF Writer
<1>7. JobOf(new) = [busy |-> TRUE, data |-> me.tmp.data, at |-> Len(path) + 1]
  BY <1>6 DEF JobOf, Idle
<1> HIDE DEF new
<1>8. RJob' = [RJob EXCEPT ![w] = JobOf(new)]
  BY <1>1, JobStep
<1>9. RJob' = [RJob EXCEPT ![w].at = Len(Contents) + 1]
  <2> DEFINE old == RJob[w]
             n   == Len(Contents) + 1
  <2>1. n = Len(path) + 1
    BY ContentsAre
  <2>2. old = [busy |-> TRUE, data |-> me.tmp.data, at |-> 0]
    BY <1>5
  <2>3. JobOf(new) = [busy |-> TRUE, data |-> me.tmp.data, at |-> n]
    BY <1>7, <2>1
  <2> HIDE DEF n
  <2>4. RJob' = [RJob EXCEPT ![w] = [old EXCEPT !.at = n]]
    <3> HIDE DEF old
    <3> QED BY <1>8, <2>2, <2>3
  <2> QED BY <2>4 DEF n
<1>10. Contents' = Append(Contents, RJob[w].data)
  <2>1. /\ Contents \in Seq(Data) /\ Len(Contents) = Len(path)
        /\ \A i \in 1..Len(path) : Contents[i] = path[i].data
    BY ContentsAre
  <2>3. /\ RJob[w].data = me.tmp.data /\ me.tmp.data \in Data
        /\ me.tmp.mem = "full"
    <3> DEFINE d == me.tmp.data
    <3>1. me.tmp = Whole(d)
      BY <1>2
    <3> HIDE DEF d
    <3>2. me.tmp.mem = "full"
      BY <3>1 DEF Whole
    <3> QED BY <1>4, <1>5, <3>2 DEF File
  <2>4. Len(path') = Len(path) + 1 /\ \A i \in 1..Len(path') :
             path'[i] = IF i <= Len(path) THEN path[i] ELSE me.tmp
    BY <1>1, <1>4
  <2>2. /\ Contents' \in Seq(Data) /\ Len(Contents') = Len(path')
        /\ \A i \in 1..Len(path') : Contents'[i] = path'[i].data
    <3>1. Contents' = [i \in 1..Len(path') |->
                         IF path'[i].mem = "full" THEN path'[i].data ELSE Torn]
      BY DEF Contents
    <3>2. \A i \in 1..Len(path') : path'[i].mem = "full" /\ path'[i].data \in Data
      BY <1>4, <2>3, <2>4, WholeFiles
    <3>3. Len(path') \in Nat
      BY <1>4, <2>4
    <3> QED BY <3>1, <3>2, <3>3
  <2>5. \A i \in 1..Len(path') : Contents'[i] = Append(Contents, RJob[w].data)[i]
    BY <1>4, <2>1, <2>2, <2>3, <2>4
  <2> QED BY <1>4, <2>1, <2>2, <2>3, <2>4, <2>5
<1> QED BY <1>1, <1>5, <1>9, <1>10 DEF Register!Commit, RJob

LEMMA SyncDirRefines ==
    ASSUME IInv, NEW w \in Writers, SyncDir(w)
    PROVE  Register!Succeed(w)
<1> DEFINE me == writer[w]
<1>1. me.pc = "syncDir" /\ flushed' = Len(path) /\ UNCHANGED <<path, dir>>
  BY DEF SyncDir
<1>2. me \in Writer /\ me # Idle /\ me.at \in 1..Len(path)
  BY <1>1, Running DEF WriterOK
<1>3. RJob[w] = [busy |-> TRUE, data |-> me.tmp.data, at |-> me.at]
  BY <1>2 DEF RJob, JobOf
<1>4. RJob' = [RJob EXCEPT ![w] = Register!Done]
  <2>1. JobOf(Idle) = Register!Done
    BY DEF JobOf, Register!Done
  <2> QED BY <2>1, JobStep DEF SyncDir
<1>5. flushed' \in flushed..Len(Contents) /\ RJob[w].at <= flushed' /\ RJob[w].at # 0
  BY <1>1, <1>2, <1>3, ContentsAre DEF IInv, TypeOK
<1>6. acked' = IF RJob[w].at > acked THEN RJob[w].at ELSE acked
  BY <1>3 DEF SyncDir
<1>7. Contents' = Contents
  BY <1>1, ContentsUnchanged
<1> QED BY <1>1, <1>3, <1>4, <1>5, <1>6, <1>7 DEF Register!Succeed, RJob

LEMMA FailRefines ==
    ASSUME IInv, NEW w \in Writers, Fail(w)
    PROVE  Register!Fail(w)
<1>1. JobOf(Idle) = Register!Done
  BY DEF JobOf, Register!Done
<1>2. RJob' = [RJob EXCEPT ![w] = Register!Done]
  BY <1>1, JobStep DEF Fail
<1>3. RJob[w].busy
  BY DEF Fail, RJob, JobOf
<1>4. Contents' = Contents
  BY ContentsUnchanged DEF Fail
<1> QED BY <1>2, <1>3, <1>4 DEF Fail, Register!Fail, RJob

LEMMA PowerLossRefines == ASSUME IInv, PowerLoss PROVE Register!PowerLoss
<1>1. RJob' = [w \in Writers |-> Register!Done]
  BY DEF PowerLoss, RJob, JobOf, Register!Done
<1>2. ASSUME path' = <<>> PROVE Contents' = <<>>
  BY <1>2 DEF Contents
<1>3. ASSUME NEW n \in flushed..Len(path), flushed' = n,
             NEW left \in [1..n -> Extent], \A i \in 1..n : left[i] \in Survives(path[i]),
             path' = [i \in 1..n |-> [data |-> path[i].data, mem |-> left[i], disk |-> left[i]]],
             dir' = IF dir = "made" THEN "durable" ELSE dir, acked' = acked
      PROVE  Register!PowerLoss
  <2>1. path' \in Seq(File) /\ Len(path') = n /\ \A i \in 1..n : path'[i] = path[i]
    BY <1>3, Cut
  <2>2. Contents' = [i \in 1..n |-> Contents[i]]
    <3>1. Contents' = [i \in 1..n |-> IF path'[i].mem = "full" THEN path'[i].data ELSE Torn]
      BY <2>1 DEF Contents
    <3>2. \A i \in 1..n : i \in 1..Len(path)
      BY <1>3 DEF IInv, TypeOK
    <3>3. \A i \in 1..n : Contents[i] = IF path'[i].mem = "full" THEN path'[i].data ELSE Torn
      BY <2>1, <3>2 DEF Contents
    <3> QED BY <3>1, <3>3
  <2>3. CASE dir # "missing"
    <3>1. n \in flushed..Len(Contents)
      BY <1>3, ContentsAre
    <3>2. (dir = "durable")' = TRUE
      BY <1>3, <2>3 DEF IInv, TypeOK
    <3> QED BY <1>1, <1>3, <2>2, <3>1, <3>2 DEF Register!PowerLoss, RJob
  <2>4. CASE dir = "missing"
    <3>1. path = <<>> /\ flushed = 0 /\ acked = 0 /\ Len(path) = 0
      BY <2>4 DEF IInv, TypeOK
    <3>2. n = 0 /\ Contents' = <<>>
      BY <1>3, <2>2, <3>1
    <3> QED BY <1>1, <1>3, <2>4, <3>1, <3>2 DEF Register!PowerLoss, RJob
  <2> QED BY <2>3, <2>4
<1>4. CASE dir = "made" /\ dir' = "missing" /\ path' = <<>> /\ flushed' = 0 /\ acked' = 0
  BY <1>1, <1>2, <1>4 DEF Register!PowerLoss, RJob
<1> QED BY <1>3, <1>4 DEF PowerLoss

LEMMA NextRefines == IInv /\ [Next]_vars => [Register!Next]_(Register!vars)
<1> SUFFICES ASSUME IInv, [Next]_vars PROVE [Register!Next]_(Register!vars)
  OBVIOUS
<1>1. CASE UNCHANGED vars
  <2>1. Contents' = Contents /\ RJob' = RJob
    BY <1>1 DEF vars, Contents, RJob, JobOf
  <2> QED BY <1>1, <2>1 DEF vars, Register!vars, RJob
<1> QED BY <1>1, PrepareRefines, WriteRefines, RenameRefines, SyncDirRefines, FailRefines,
           PowerLossRefines DEF Next, Register!Next

(* WriteFileAtomic's steps implement a register that changes at one        *)
(* instant, through concurrent writers, failed calls and power losses.     *)
THEOREM FileIsAtomic == Spec => IsAtomic
<1> QED BY InitRefines, NextRefines, Invariance, PTL DEF Spec, IsAtomic, Register!Spec
===============================================================================
