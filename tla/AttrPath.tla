------------------------------- MODULE AttrPath -------------------------------
(***************************************************************************)
(* Attribute paths inside a JSON value (pkg/client/attrpath.go), as `attr` *)
(* and the "attr" operation of a batch use them.  A document is an object, *)
(* an array or a scalar; a path is a sequence of segments, each the name   *)
(* of an attribute or an index, which the code tells apart by Atoi.        *)
(***************************************************************************)
EXTENDS Integers, SequencesExt

CONSTANTS
    Names,      \* names of attributes
    Docs,       \* JSON documents as they are written, with everything in them
    Nesting,    \* how deep each of them is nested
    MaxNesting, \* the decoder refuses deeper ones
    Precision   \* the bits of a float64's mantissa (53)

Obj(f) == [t |-> "obj", f |-> f]      \* f: from names to documents
Arr(s) == [t |-> "arr", s |-> s]      \* s: a sequence of documents
Scalar(v) == [t |-> "val", v |-> v]
Text(x) == Scalar([t |-> "text", x |-> x])      \* a string, true, false or null
Number(n) == Scalar([t |-> "number", n |-> n])
NoDoc == [t |-> "failed"]             \* an error instead of a document

(* A document is an object, an array or a scalar, whose parts are documents.*)
PartsIn(node, docs) ==
    \/ node.t = "obj" /\ \A k \in DOMAIN node.f : node.f[k] \in docs
    \/ node.t = "arr" /\ node.s \in Seq(docs)
    \/ node.t = "val"

ASSUME DocAssumption == \A doc \in Docs : PartsIn(doc, Docs)
ASSUME NestingAssumption ==
    /\ MaxNesting \in Nat
    /\ Nesting \in [Docs -> 0 .. MaxNesting]
    /\ \A doc \in Docs :
         /\ doc.t = "obj" => \A k \in DOMAIN doc.f : Nesting[doc.f[k]] < Nesting[doc]
         /\ doc.t = "arr" => \A i \in DOMAIN doc.s : Nesting[doc.s[i]] < Nesting[doc]
ASSUME PrecisionAssumption == Precision \in Nat \ {0}

(* The float64 nearest to a number: a multiple of the unit that leaves it  *)
(* Precision bits, the even one of two that are equally near.              *)
Rounded(n) ==
    LET m    == IF n < 0 THEN -n ELSE n
        unit == 2 ^ (CHOOSE e \in 0 .. m : /\ m < 2 ^ (Precision + e)
                                          /\ \A d \in 0 .. e - 1 : m >= 2 ^ (Precision + d))
        low  == unit * (m \div unit)
        up   == \/ 2 * (m % unit) > unit
                \/ 2 * (m % unit) = unit /\ (m \div unit) % 2 = 1
        near == IF up THEN low + unit ELSE low
    IN  IF n < 0 THEN -near ELSE near

Float64(v) == IF v.t = "number" THEN [v EXCEPT !.n = Rounded(@)] ELSE v

(* What json.Unmarshal makes of a document, and json.Marshal writes back:  *)
(* every number in it, whether a path names it or not, is a float64.       *)
Decoded[doc \in Docs] ==
    CASE doc.t = "obj" -> Obj([k \in DOMAIN doc.f |-> Decoded[doc.f[k]]])
      [] doc.t = "arr" -> Arr([i \in DOMAIN doc.s |-> Decoded[doc.s[i]]])
      [] doc.t = "val" -> Scalar(Float64(doc.v))

Name(k) == [t |-> "name", k |-> k]
Index(n) == [t |-> "index", n |-> n]
Segments == [t : {"name"}, k : Names] \cup [t : {"index"}, n : Int]
Paths == Seq(Segments)

(* A segment names an existing child of a container of the right type.     *)
Exists(node, seg) ==
    \/ seg.t = "name" /\ node.t = "obj" /\ seg.k \in DOMAIN node.f
    \/ seg.t = "index" /\ node.t = "arr" /\ seg.n + 1 \in DOMAIN node.s

(* A leaf may also be a new attribute, or the index just past the end.     *)
Settable(node, seg) ==
    \/ seg.t = "name" /\ node.t = "obj"
    \/ seg.t = "index" /\ node.t = "arr" /\ seg.n \in 0 .. Len(node.s)

Child(node, seg) == IF seg.t = "name" THEN node.f[seg.k] ELSE node.s[seg.n + 1]
Down(node, seg) == IF Exists(node, seg) THEN Child(node, seg) ELSE NoDoc

(* The mistake that forgets that an index may be just past the end.        *)
WithInPlace(node, seg, value) ==
    IF seg.t = "name"
      THEN Obj([k \in DOMAIN node.f \cup {seg.k} |-> IF k = seg.k THEN value ELSE node.f[k]])
      ELSE Arr([i \in 1 .. Len(node.s) |-> IF i = seg.n + 1 THEN value ELSE node.s[i]])

With(node, seg, value) ==
    IF seg.t = "name"
      THEN Obj([k \in DOMAIN node.f \cup {seg.k} |-> IF k = seg.k THEN value ELSE node.f[k]])
      ELSE Arr([i \in DOMAIN node.s \cup {seg.n + 1} |->
                  IF i = seg.n + 1 THEN value ELSE node.s[i]])

(* Removing an element moves the later ones down.                          *)
Without(node, seg) ==
    IF seg.t = "name"
      THEN Obj([k \in DOMAIN node.f \ {seg.k} |-> node.f[k]])
      ELSE Arr(RemoveAt(node.s, seg.n + 1))

(* The nodes on a path, from the top; after a missing one, none is there.  *)
Descent(node, path) ==
    LET at[i \in 0 .. Len(path)] == IF i = 0 THEN node ELSE Down(at[i - 1], path[i])
    IN  at
At(node, path) == Descent(node, path)[Len(path)]

(* On the way back every container on the path gets its changed child:     *)
(* up[i] is the new node i segments above the end of the path.             *)
Rebuilt(node, path, leaf) ==
    LET n == Len(path)
        up[i \in 0 .. n] ==
          IF i = 0 THEN leaf ELSE With(Descent(node, path)[n - i], path[n - i + 1], up[i - 1])
    IN  up[n]

SetAttrPath(node, path, value) ==
    IF Settable(At(node, Front(path)), Last(path)) THEN Rebuilt(node, path, value) ELSE NoDoc

RemoveAttrPath(node, path) ==
    LET parent == At(node, Front(path))
    IN  IF Exists(parent, Last(path))
          THEN Rebuilt(node, Front(path), Without(parent, Last(path)))
          ELSE NoDoc

(* One "attr" on a decoded document: every removal, then every setting, in *)
(* their order; a set edit is a path and a value.  After an error nothing  *)
(* can be edited.                                                          *)
EditSteps(edits) == Len(edits.remove) + Len(edits.set)
Setting(edits, i) == edits.set[i - Len(edits.remove)]

EditStep(doc, edits, i) ==
    IF i <= Len(edits.remove) THEN RemoveAttrPath(doc, edits.remove[i])
    ELSE SetAttrPath(doc, Setting(edits, i).path, Setting(edits, i).value)

Edited(doc, edits) ==
    LET after[i \in 0 .. EditSteps(edits)] ==
          IF i = 0 THEN doc ELSE EditStep(after[i - 1], edits, i)
    IN  after

(* The values of the settings are decoded with the batch, or by themselves *)
(* (ParseBatch, ParseAttrValue).                                           *)
DecodedEdits(edits) ==
    [remove |-> edits.remove,
     set |-> [i \in DOMAIN edits.set |-> [path |-> edits.set[i].path,
                                        value |-> Decoded[edits.set[i].value]]]]

Edit(doc, edits) == Edited(Decoded[doc], DecodedEdits(edits))[EditSteps(edits)]

-----------------------------------------------------------------------------
(* What an edit means, said over a flat view of a document: what stands at *)
(* every path there is, a scalar, the type of a container, or nothing.     *)

Content(node) == IF node.t = "val" THEN node ELSE [t |-> node.t]
Flat(doc) == [path \in Paths |-> Content(At(doc, path))]

(* What is read of a document: what stands there, a number as a float64.   *)
Read(content) == IF content.t = "val" THEN Scalar(Float64(content.v)) ELSE content
FlatRead(doc) == [path \in Paths |-> Read(Content(At(doc, path)))]

Rest(path, n) == SubSeq(path, n + 1, Len(path))

(* A path may be set when what holds it is a container of its type, with   *)
(* no gap before an index.                                                 *)
MayStand(flat, path) ==
    LET parent == Front(path)
        seg == Last(path)
    IN  IF seg.t = "name" THEN flat[parent].t = "obj"
        ELSE /\ flat[parent].t = "arr"
             /\ seg.n >= 0
             /\ seg.n > 0 => flat[Append(parent, Index(seg.n - 1))].t # "failed"

(* The flat value stands at the path, everything else where it stood.      *)
FlatSet(flat, path, value) ==
    IF ~MayStand(flat, path) THEN [q \in Paths |-> NoDoc]
    ELSE [q \in Paths |-> IF IsPrefix(path, q) THEN value[Rest(q, Len(path))] ELSE flat[q]]

(* Nothing is left at the path; what stood behind a removed element of an  *)
(* array stands one place before.                                          *)
Behind(path, q) ==
    LET n == Len(path)
    IN  /\ Last(path).t = "index"
        /\ IsPrefix(Front(path), q)
        /\ Len(q) >= n /\ q[n].t = "index" /\ q[n].n >= Last(path).n
Later(path, q) == [q EXCEPT ![Len(path)] = Index(@.n + 1)]

FlatRemove(flat, path) ==
    IF flat[path].t = "failed" THEN [q \in Paths |-> NoDoc]
    ELSE [q \in Paths |-> IF Behind(path, q) THEN flat[Later(path, q)]
                          ELSE IF IsPrefix(path, q) THEN NoDoc
                          ELSE flat[q]]

FlatStep(flat, edits, i) ==
    IF i <= Len(edits.remove) THEN FlatRemove(flat, edits.remove[i])
    ELSE FlatSet(flat, Setting(edits, i).path, FlatRead(Setting(edits, i).value))

FlatEdited(doc, edits) ==
    LET after[i \in 0 .. EditSteps(edits)] ==
          IF i = 0 THEN FlatRead(doc) ELSE FlatStep(after[i - 1], edits, i)
    IN  after
===============================================================================
