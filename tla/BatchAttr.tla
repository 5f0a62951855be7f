------------------------------ MODULE BatchAttr ------------------------------
(***************************************************************************)
(* BatchRun with the edits of AttrPath: "attr" on the values that are JSON *)
(* documents (execBatchOp, runAttr).                                       *)
(***************************************************************************)
EXTENDS BatchRun, AttrPath

CONSTANT LookedAt       \* the paths a property speaks of

ASSUME PathAssumption ==
    Edits \subseteq [remove : Seq(Paths \ {<<>>}),
                     set : Seq([path : Paths \ {<<>>}, value : Docs])]
ASSUME AttrAssumption ==
    \A content \in Contents, edits \in Edits :
      AttrEdit(content, edits) = IF content \in Docs THEN Edit(content, edits) ELSE NoDoc
ASSUME ErrorAssumption == Failed = NoDoc
ASSUME LookedAtAssumption == LookedAt \subseteq Paths

(* What an "attr" makes of a document is what its edits say of the flat    *)
(* document as it was read: removals before settings, each at its place,   *)
(* and all the rest as it was, in its place, but for its numbers: they are *)
(* what float64 has for them, also where no path leads (SetAttrPath,       *)
(* RemoveAttrPath, execBatchOp); or it is an error.                        *)
EditsOnlyAddressed ==
    \A p \in Procs : proc[p].got # None =>
      LET doc == Document(proc[p].got, proc[p].secret)
          edits == Current(p).edits
      IN  doc \in Docs =>
            LET meant == FlatEdited(doc, edits)[EditSteps(edits)]
            IN  \A path \in LookedAt : Content(At(proc[p].new, path)) = meant[path]
=============================================================================
