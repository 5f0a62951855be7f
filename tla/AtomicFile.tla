------------------------------ MODULE AtomicFile ------------------------------
(***************************************************************************)
(* securestore.WriteFileAtomic (pkg/securestore/files.go) by several       *)
(* processes, over a file system with a page cache: what is written or     *)
(* renamed is visible at once and reaches the disk at an fsync, or at any  *)
(* time before.  Directory updates reach the disk in their order.  Random  *)
(* names of temporary files do not repeat, and nothing reads such a file   *)
(* but its writer.                                                         *)
(***************************************************************************)
EXTENDS Naturals, Sequences

CONSTANTS
    Writers,    \* processes in WriteFileAtomic, on one path
    Data,       \* what they write
    Torn,       \* what a reader makes of a file that is not whole
    MaxWrites   \* bound on the length of the path's history

ASSUME TornAssumption == Torn \notin Data
ASSUME MaxWritesAssumption == MaxWrites \in Nat

VARIABLES
    path,       \* the files the path has named, newest last
    flushed,    \* how many of these renames are on disk
    dir,        \* the directory: missing, made but not yet on disk, durable
    writer,     \* writer[w]: where w is, and its temporary file
    acked       \* the newest entry of path a writer returned nil for

vars == <<path, flushed, dir, writer, acked>>

Extent == {"empty", "part", "full"}

(* A file: how much of its data is visible, and how much is on disk.       *)
File == [data : Data, mem : Extent, disk : Extent]
Whole(d) == [data |-> d, mem |-> "full", disk |-> "full"]

Writer == [pc : {"create", "write", "sync", "rename", "syncDir"},
           tmp : File, at : Nat]
Idle == [pc |-> "idle"]

Init ==
    /\ dir \in {"missing", "durable"}
    /\ path \in {<<>>} \cup {<<Whole(d)>> : d \in Data}
    /\ dir = "missing" => path = <<>>
    /\ flushed = Len(path)
    /\ writer = [w \in Writers |-> Idle]
    /\ acked = 0

Goto(w, pc, tmp) == writer' = [writer EXCEPT ![w].pc = pc, ![w].tmp = tmp]

-----------------------------------------------------------------------------
(* EnsurePrivateDir makes the directory if need be; its parent is not      *)
(* synced.                                                                 *)
EnsurePrivateDir(w) ==
    /\ writer[w] = Idle /\ Len(path) < MaxWrites
    /\ dir' = IF dir = "missing" THEN "made" ELSE dir
    /\ \E d \in Data :
          writer' = [writer EXCEPT ![w] =
              [pc |-> "create", at |-> 0,
               tmp |-> [data |-> d, mem |-> "empty", disk |-> "empty"]]]
    /\ UNCHANGED <<path, flushed, acked>>

CreateTemp(w) ==
    /\ writer[w].pc = "create"
    /\ Goto(w, "write", writer[w].tmp)
    /\ UNCHANGED <<path, flushed, dir, acked>>

(* write(2) may take several calls.                                        *)
RenamesEarly(w) ==
    /\ writer[w].pc = "write"
    /\ \E e \in {"part", "full"} : Goto(w, "sync", [writer[w].tmp EXCEPT !.mem = e])
    /\ UNCHANGED <<path, flushed, dir, acked>>
Write(w) ==
    /\ writer[w].pc = "write"
    /\ \E e \in {"part", "full"} :
          Goto(w, IF e = "full" THEN "sync" ELSE "write", [writer[w].tmp EXCEPT !.mem = e])
    /\ UNCHANGED <<path, flushed, dir, acked>>

SyncsNothing(w) ==
    /\ writer[w].pc = "sync"
    /\ Goto(w, "rename", writer[w].tmp)
    /\ UNCHANGED <<path, flushed, dir, acked>>
Sync(w) ==
    /\ writer[w].pc = "sync"
    /\ Goto(w, "rename", [writer[w].tmp EXCEPT !.disk = writer[w].tmp.mem])
    /\ UNCHANGED <<path, flushed, dir, acked>>

Rename(w) ==
    /\ writer[w].pc = "rename" /\ Len(path) < MaxWrites
    /\ path' = Append(path, writer[w].tmp)
    /\ writer' = [writer EXCEPT ![w].pc = "syncDir", ![w].at = Len(path) + 1]
    /\ UNCHANGED <<flushed, dir, acked>>

(* The directory is opened and synced, and nil returned.                   *)
ReturnsUnsynced(w) ==
    /\ writer[w].pc = "syncDir"
    /\ acked' = IF writer[w].at > acked THEN writer[w].at ELSE acked
    /\ writer' = [writer EXCEPT ![w] = Idle]
    /\ UNCHANGED <<path, flushed, dir>>
SyncDir(w) ==
    /\ writer[w].pc = "syncDir"
    /\ flushed' = Len(path)
    /\ acked' = IF writer[w].at > acked THEN writer[w].at ELSE acked
    /\ writer' = [writer EXCEPT ![w] = Idle]
    /\ UNCHANGED <<path, dir>>

(* A call fails and the temporary file is removed, or the process is       *)
(* killed and it stays behind.  After the rename the new file stays.       *)
Fail(w) ==
    /\ writer[w] # Idle
    /\ writer' = [writer EXCEPT ![w] = Idle]
    /\ UNCHANGED <<path, flushed, dir, acked>>

(* What is on disk of a file when the power goes.                          *)
Survives(f) == IF f.disk = f.mem THEN {f.mem} ELSE Extent

PowerLoss ==
    /\ writer' = [w \in Writers |-> Idle]
    /\ \/ \E n \in flushed..Len(path) :
             /\ flushed' = n
             /\ \E left \in [1..n -> Extent] :
                   /\ \A i \in 1..n : left[i] \in Survives(path[i])
                   /\ path' = [i \in 1..n |-> [data |-> path[i].data,
                                               mem  |-> left[i], disk |-> left[i]]]
             /\ dir' = IF dir = "made" THEN "durable" ELSE dir
             /\ UNCHANGED acked
       \/ /\ dir = "made"
          /\ dir' = "missing" /\ path' = <<>> /\ flushed' = 0 /\ acked' = 0

Next ==
    \/ PowerLoss
    \/ \E w \in Writers : \/ EnsurePrivateDir(w) \/ CreateTemp(w) \/ Write(w) \/ Sync(w)
                          \/ Rename(w) \/ SyncDir(w) \/ Fail(w)

Spec == Init /\ [][Next]_vars

-----------------------------------------------------------------------------
(* Properties.                                                             *)

(* Every variable keeps its type.                                          *)
TypeOK ==
    /\ path \in Seq(File)
    /\ flushed \in 0..Len(path)
    /\ dir \in {"missing", "made", "durable"}
    /\ writer \in [Writers -> Writer \cup {Idle}]
    /\ acked \in Nat

(* A reader finds a whole file at every moment, between any two steps of   *)
(* any number of writers and after any failure, kill or power loss.        *)
NeverPartial == path # <<>> => path[Len(path)].mem = "full"

(* Once WriteFileAtomic has returned nil, in a directory that was there    *)
(* before, no power loss and no other writer takes the new file back.      *)
KeepsReturned ==
    dir = "durable" => \A i \in 1..acked : i <= Len(path') /\ path'[i] = path[i]
ReturnedSurvives == [][KeepsReturned]_vars

(* Seen by its callers, the file is replaced at one instant.               *)
Contents == [i \in 1..Len(path) |-> IF path[i].mem = "full" THEN path[i].data ELSE Torn]

JobOf(me) == IF me = Idle THEN [busy |-> FALSE]
             ELSE [busy |-> TRUE, data |-> me.tmp.data, at |-> me.at]

Register == INSTANCE AtomicRegister WITH
    log    <- Contents,
    stable <- flushed,
    rooted <- dir = "durable",
    job    <- [w \in Writers |-> JobOf(writer[w])]

(* The file system calls in their order implement the atomic file.         *)
IsAtomic == Register!Spec
===============================================================================
