------------------------------ MODULE ProfileDoc ------------------------------
(***************************************************************************)
(* The editable form of a profile (pkg/profiles/doc.go): rendering its     *)
(* values as one JSON document, parsing an edited document, and merging it *)
(* with the values before.  Text is abstracted to what these tell apart: a *)
(* value is empty, or the text of a JSON object or array in some layout,   *)
(* or any other text.                                                      *)
(***************************************************************************)
EXTENDS Naturals, Sequences

CONSTANTS
    Keys,       \* vault keys, all valid ones
    Words,      \* texts that are not a JSON object or array
    Trees,      \* JSON objects and arrays
    None,       \* no value
    Garbage,    \* a document that is not one JSON object with valid keys
    Rejected    \* an error instead of what a document says

Empty == [t |-> "empty"]
Word(w) == [t |-> "word", w |-> w]
Json(tree, layout) == [t |-> "json", tree |-> tree, layout |-> layout]

(* Compact; with white space inside; with white space around.              *)
Layouts == {"compact", "spaced", "padded"}
Value == {Empty} \cup {Word(w) : w \in Words}
           \cup {Json(tree, layout) : tree \in Trees, layout \in Layouts}

(* What stands behind a key: a JSON string, a nested object or array, or a *)
(* number, true, false or null, whose text is a word.                      *)
Quoted(v) == [t |-> "quoted", v |-> v]
Nested(tree) == [t |-> "nested", tree |-> tree]
Bare(w) == [t |-> "bare", w |-> w]
Node == {Quoted(v) : v \in Value} \cup {Nested(tree) : tree \in Trees} \cup {Bare(w) : w \in Words}

(* A document is what stands behind each key, every time the key occurs.   *)
Document == [Keys -> Seq(Node)] \cup {Garbage}

ASSUME DocNoneAssumption == None \notin Value
ASSUME GarbageAssumption == Garbage \notin [Keys -> Seq(Node)]
ASSUME RejectedAssumption == Rejected \notin Value \cup [Keys -> Value \cup {None}]

renderValue(v) == IF v.t = "json" /\ v.layout # "padded" THEN Nested(v.tree) ELSE Quoted(v)

RenderDoc(values) ==
    [k \in Keys |-> IF values[k] = None THEN <<>> ELSE <<renderValue(values[k])>>]

docValue(node) ==
    CASE node.t = "quoted" -> IF node.v = Empty THEN Rejected ELSE node.v
      [] node.t = "nested" -> Json(node.tree, "compact")
      [] node.t = "bare"   -> Word(node.w)

Unparsable(doc) ==
    \/ doc = Garbage
    \/ \E k \in Keys : Len(doc[k]) > 1
    \/ \E k \in Keys : doc[k] # <<>> /\ docValue(doc[k][1]) = Rejected

(* Plain JSON decoding, which keeps the last of two equal keys.            *)
Collapsed(doc) ==
    IF doc = Garbage \/ \E k \in Keys : doc[k] # <<>> /\ docValue(doc[k][Len(doc[k])]) = Rejected
      THEN Rejected
      ELSE [k \in Keys |-> IF doc[k] = <<>> THEN None ELSE docValue(doc[k][Len(doc[k])])]

ParseDoc(doc) ==
    IF Unparsable(doc) THEN Rejected
    ELSE [k \in Keys |-> IF doc[k] = <<>> THEN None ELSE docValue(doc[k][1])]

(* What v becomes when it is rendered and parsed.                          *)
canonical(v) == IF renderValue(v).t = "quoted" THEN v ELSE Json(v.tree, "compact")

Overwrites(previous, edited) == edited
MergeEdit(previous, edited) ==
    [k \in Keys |->
       IF edited[k] # None /\ previous[k] # None /\ canonical(previous[k]) = edited[k]
         THEN previous[k] ELSE edited[k]]

-----------------------------------------------------------------------------
(* What a line of a document stands for: a string is stored as it is       *)
(* written, anything else as its compact text.                             *)
StandsFor(node, text) ==
    \/ node = Quoted(text)
    \/ \E tree \in Trees : node = Nested(tree) /\ text = Json(tree, "compact")
    \/ \E w \in Words : node = Bare(w) /\ text = Word(w)

(* A value that is shown as a tree, and a line that has the same tree      *)
(* behind the key, or its compact text as a string.                        *)
SameTree(value, node) ==
    \E tree \in Trees : /\ renderValue(value) = Nested(tree)
                       /\ node \in {Nested(tree), Quoted(Json(tree, "compact"))}
===============================================================================
