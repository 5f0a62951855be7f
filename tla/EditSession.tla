----------------------------- MODULE EditSession -----------------------------
(***************************************************************************)
(* `kilovault profiles edit` while the decrypted profile is in RAM         *)
(* (cmd/kilovault/edit.go: editInRAM and the save in runProfilesEdit): the *)
(* main goroutine, the goroutine that handles signals, the editor and the  *)
(* user who sends signals.  Each action is one call that another of them   *)
(* can come between.                                                       *)
(***************************************************************************)
EXTENDS ProfileDoc

CONSTANTS
    Profiles,   \* the values the profile may have at first
    Edited,     \* the documents the user may write
    Zeroed,     \* the content of a file overwritten with zeros
    Limit       \* how often each kind of event in Budget may happen

Budget == {"save", "signal", "failure"}
Threads == {"main", "signals"}

(* SIGHUP is handled like SIGTERM.                                         *)
Signals == {"int", "term"}

Values == [Keys -> Value \cup {None}]

ASSUME ProfileAssumption == Profiles \subseteq Values
ASSUME EditedAssumption == Edited \subseteq Document
ASSUME ZeroedAssumption == {None, Zeroed} \cap Document = {}
ASSUME LimitAssumption == Limit \in [Budget -> Nat]

VARIABLES
    profile,    \* the working values, on disk
    interactive,\* standard input is a terminal
    dir,        \* the temporary directory is there
    file,       \* the temporary file: a document, Zeroed or None
    pc,         \* pc[t]: the next call of goroutine t
    result,     \* what editInRAM returns: values, or None for an error or no change
    once,       \* "fresh", the goroutine that is cleaning up, or "done"
    notified,   \* signals go to the channel, instead of killing the process
    sigs,       \* the channel: one signal, or None
    closed,     \* the channel is closed
    editing,    \* editorRunning
    editor,     \* the editor: "none", "open", "ok" or "bad" (its exit status)
    process,    \* "running", "returned", "aborted" (os.Exit) or "killed"
    left,       \* history: what the file held when the editor last succeeded
    spent       \* how much of each budget is used up

files == <<dir, file>>
channel == <<notified, sigs, closed>>
vars == <<profile, interactive, files, pc, result, once, channel, editing, editor, process,
          left, spent>>

Init ==
    /\ profile \in Profiles
    /\ interactive \in BOOLEAN
    /\ dir = FALSE /\ file = None
    /\ pc = [t \in Threads |-> IF t = "main" THEN "create" ELSE "none"]
    /\ result = None
    /\ once = "fresh"
    /\ notified = FALSE /\ sigs = None /\ closed = FALSE
    /\ editing = FALSE /\ editor = "none"
    /\ process = "running"
    /\ left = None
    /\ spent = [b \in Budget |-> 0]

-----------------------------------------------------------------------------
Spend(b) == /\ spent[b] < Limit[b]
            /\ spent' = [spent EXCEPT ![b] = @ + 1]

At(t, here) == process = "running" /\ pc[t] = here
Goto(t, next) == pc' = [pc EXCEPT ![t] = next]

(* The deferred calls: signal.Stop and close first, then cleanup.          *)
Return(value) == Goto("main", "stop") /\ result' = value

content == RenderDoc(profile)

CreateDir ==
    /\ At("main", "create")
    /\ dir' = TRUE
    /\ Goto("main", "notify")
    /\ UNCHANGED <<profile, interactive, file, result, once, channel, editing, editor,
                   process, left, spent>>

Notify ==
    /\ At("main", "notify")
    /\ notified' = TRUE
    /\ pc' = [pc EXCEPT !["main"] = "write", !["signals"] = "range"]
    /\ UNCHANGED <<profile, interactive, files, result, once, sigs, closed, editing, editor,
                   process, left, spent>>

(* WriteFile fails when the directory is gone, or after a part of it.      *)
WriteContent ==
    /\ At("main", "write")
    /\ \/ /\ dir /\ file' = content
          /\ Goto("main", "start") /\ UNCHANGED <<result, spent>>
       \/ /\ dir /\ file' = content
          /\ Spend("failure") /\ Return(None)
       \/ /\ ~dir /\ Return(None) /\ UNCHANGED <<file, spent>>
    /\ UNCHANGED <<profile, interactive, dir, once, channel, editing, editor, process, left>>

StartEditor ==
    /\ At("main", "start")
    /\ editing' = TRUE /\ editor' = "open"
    /\ Goto("main", "wait")
    /\ UNCHANGED <<profile, interactive, files, result, once, channel, process, left, spent>>

EditorSaves ==
    /\ process = "running" /\ editor = "open" /\ dir
    /\ Spend("save")
    /\ file' \in Edited
    /\ UNCHANGED <<profile, interactive, dir, pc, result, once, channel, editing, editor,
                   process, left>>

EditorQuits ==
    /\ process = "running" /\ editor = "open"
    /\ \/ editor' = "ok" /\ left' = file
       \/ editor' = "bad" /\ UNCHANGED left
    /\ UNCHANGED <<profile, interactive, files, pc, result, once, channel, editing, process,
                   spent>>

EditorReturned ==
    /\ At("main", "wait") /\ editor \in {"ok", "bad"}
    /\ editing' = FALSE
    /\ IF editor = "ok" THEN Goto("main", "read") /\ UNCHANGED result ELSE Return(None)
    /\ UNCHANGED <<profile, interactive, files, once, channel, editor, process, left, spent>>

ZerosAreNoEdits(data) ==
    IF data = Zeroed THEN [k \in Keys |-> None] ELSE ParseDoc(data)
Parsed(data) == IF data = Zeroed THEN Rejected ELSE ParseDoc(data)

ReadWithoutCheck ==
    /\ At("main", "read")
    /\ Return(IF file = None THEN None ELSE Parsed(file))
    /\ UNCHANGED <<profile, interactive, files, once, channel, editing, editor, process, left,
                   spent>>

(* An error, no change, the edited values, or another try.                 *)
ReadEdited ==
    /\ At("main", "read")
    /\ IF file \in {None, content} THEN Return(None)
       ELSE IF Parsed(file) # Rejected THEN Return(Parsed(file))
       ELSE IF interactive THEN Goto("main", "ask") /\ UNCHANGED result
       ELSE Return(None)
    /\ UNCHANGED <<profile, interactive, files, once, channel, editing, editor, process, left,
                   spent>>

EditAgain ==
    /\ At("main", "ask")
    /\ \/ Goto("main", "start") /\ UNCHANGED result
       \/ Return(None)
    /\ UNCHANGED <<profile, interactive, files, once, channel, editing, editor, process, left,
                   spent>>

StopSignals ==
    /\ At("main", "stop")
    /\ notified' = FALSE /\ closed' = TRUE
    /\ Goto("main", "once")
    /\ UNCHANGED <<profile, interactive, files, result, once, sigs, editing, editor, process,
                   left, spent>>

-----------------------------------------------------------------------------
(* cleanup: the goroutine that comes first cleans up, the other one waits. *)

OnceSkips(t) ==
    /\ At(t, "once")
    /\ IF once = "fresh" THEN once' = t /\ Goto(t, "zero")
       ELSE Goto(t, "cleaned") /\ UNCHANGED once
    /\ UNCHANGED <<profile, interactive, files, result, channel, editing, editor, process, left,
                   spent>>

Once(t) ==
    /\ At(t, "once")
    /\ \/ once = "fresh" /\ once' = t /\ Goto(t, "zero")
       \/ once = "done" /\ Goto(t, "cleaned") /\ UNCHANGED once
    /\ UNCHANGED <<profile, interactive, files, result, channel, editing, editor, process, left,
                   spent>>

Zero(t) ==
    /\ At(t, "zero")
    /\ file' = IF file = None THEN None ELSE Zeroed
    /\ Goto(t, "remove")
    /\ UNCHANGED <<profile, interactive, dir, result, once, channel, editing, editor, process,
                   left, spent>>

Remove(t) ==
    /\ At(t, "remove")
    /\ dir' = FALSE /\ file' = None
    /\ once' = "done"
    /\ Goto(t, "cleaned")
    /\ UNCHANGED <<profile, interactive, result, channel, editing, editor, process, left, spent>>

-----------------------------------------------------------------------------
(* editInRAM has returned.  The save is one step, or fails.                *)

Finish ==
    /\ At("main", "cleaned")
    /\ \/ result # None /\ profile' = MergeEdit(profile, result) /\ UNCHANGED spent
       \/ result # None /\ UNCHANGED profile /\ Spend("failure")
       \/ result = None /\ UNCHANGED <<profile, spent>>
    /\ Goto("main", "end")
    /\ UNCHANGED <<interactive, files, result, once, channel, editing, editor, process, left>>

Exit ==
    /\ At("main", "end")
    /\ process' = "returned"
    /\ UNCHANGED <<profile, interactive, files, pc, result, once, channel, editing, editor, left,
                   spent>>

-----------------------------------------------------------------------------
(* The goroutine that handles signals; it drains the channel also when it  *)
(* is closed.                                                              *)

LeftToEditorBoth(sig) == editing
LeftToEditor(sig) == sig = "int" /\ editing

TakeSignal ==
    /\ At("signals", "range")
    /\ sigs # None
    /\ sigs' = None
    /\ Goto("signals", IF LeftToEditor(sigs) THEN "range" ELSE "once")
    /\ UNCHANGED <<profile, interactive, files, result, once, notified, closed, editing, editor,
                   process, left, spent>>

Drained ==
    /\ At("signals", "range")
    /\ sigs = None /\ closed
    /\ Goto("signals", "end")
    /\ UNCHANGED <<profile, interactive, files, result, once, channel, editing, editor, process,
                   left, spent>>

Abort ==
    /\ At("signals", "cleaned")
    /\ process' = "aborted"
    /\ UNCHANGED <<profile, interactive, files, pc, result, once, channel, editing, editor, left,
                   spent>>

(* A full channel drops a signal; without Notify it kills the process.     *)
Signal ==
    /\ process = "running"
    /\ Spend("signal")
    /\ \E sig \in Signals :
         IF notified THEN /\ sigs' = IF sigs = None THEN sig ELSE sigs
                          /\ UNCHANGED process
         ELSE process' = "killed" /\ UNCHANGED sigs
    /\ UNCHANGED <<profile, interactive, files, pc, result, once, notified, closed, editing,
                   editor, left>>

Main == CreateDir \/ Notify \/ WriteContent \/ StartEditor \/ EditorReturned \/ ReadEdited
          \/ EditAgain \/ StopSignals \/ Finish \/ Exit
Cleanup(t) == Once(t) \/ Zero(t) \/ Remove(t)
Handler == TakeSignal \/ Drained \/ Abort
Editor == EditorSaves \/ EditorQuits

Next == Main \/ Handler \/ Editor \/ Signal \/ \E t \in Threads : Cleanup(t)

Spec == Init /\ [][Next]_vars

(* The Go scheduler runs a goroutine that can go on.  Nothing makes the    *)
(* user quit the editor or answer a prompt.                                *)
FairSpec == /\ Spec
            /\ WF_vars(Handler)
            /\ \A t \in Threads : WF_vars(Cleanup(t))

-----------------------------------------------------------------------------
Calls == {"none", "create", "notify", "write", "start", "wait", "read", "ask", "stop", "once",
          "zero", "remove", "cleaned", "range", "end"}

(* Types: what the file holds, what is returned and where each goroutine   *)
(* is (editInRAM).                                                         *)
TypeOK ==
    /\ profile \in Values
    /\ interactive \in BOOLEAN
    /\ dir \in BOOLEAN /\ file \in Document \cup {Zeroed, None}
    /\ pc \in [Threads -> Calls]
    /\ result \in Values \cup {None}
    /\ once \in Threads \cup {"fresh", "done"}
    /\ notified \in BOOLEAN /\ sigs \in Signals \cup {None} /\ closed \in BOOLEAN
    /\ editing \in BOOLEAN /\ editor \in {"none", "open", "ok", "bad"}
    /\ process \in {"running", "returned", "aborted", "killed"}
    /\ left \in Document \cup {Zeroed, None}
    /\ spent \in [Budget -> Nat]

(* edit.go "The temp file is zeroed and removed on every exit path": when  *)
(* the process has ended, by a return or by an abort, whichever goroutine  *)
(* cleaned up, the decrypted file is gone.  Only a signal that arrives     *)
(* after signal.Stop and before the end of cleanup can leave it.           *)
NothingLeft ==
    process # "running" /\ (dir \/ file # None) =>
      /\ process = "killed"
      /\ file # None => pc["main"] \in {"once", "zero", "remove"}

(* The saved profile has a value for exactly the keys of the document that *)
(* the editor left when it last succeeded, and each is the text written    *)
(* there, byte for byte (ParseDoc, MergeEdit); nothing else is ever saved, *)
(* neither a document with a key twice nor what cleanup or a failed editor *)
(* leaves.  One exception: a value shown as a tree keeps its old text when *)
(* the tree is still there, or when its compact text was typed over it as  *)
(* a string, where README.md:478 has a string stored exactly as written.   *)
SavesWhatEditorLeft ==
    [][profile' # profile =>
         /\ left \in Document \ {Garbage}
         /\ \A k \in Keys :
              /\ Len(left[k]) <= 1
              /\ (profile'[k] # None) <=> (left[k] # <<>>)
              /\ left[k] # <<>> =>
                   \/ StandsFor(left[k][1], profile'[k])
                   \/ profile'[k] = profile[k] /\ SameTree(profile[k], left[k][1])]_vars

(* doc.go "editing a nested object doesn't change how untouched values are *)
(* stored": a line the user left as it was rendered keeps the old text.    *)
UntouchedKeepText ==
    [][\A k \in Keys :
         profile' # profile /\ left[k] = content[k] => profile'[k] = profile[k]]_vars

(* edit.go "SIGTERM/SIGHUP always abort": once a SIGTERM is in the channel *)
(* the process ends, whatever main, the editor and the user do.            *)
SignalEndsIt == sigs = "term" ~> process # "running"

(* edit.go "The temp file is zeroed and removed on every exit path,        *)
(* including SIGTERM/SIGHUP."                                              *)
EveryExitCleans == process # "running" => file = None
===============================================================================
