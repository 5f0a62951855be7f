----------------------------- MODULE MCBatchRun -----------------------------
(* Batches and commands on one key of the caller and one of another user.  *)
EXTENDS BatchAttr, TLC

CONSTANTS caller, other, k1, s1

MCNoText == [t |-> "empty"]
MCNoAttrs == Obj(<<>>)
Prose == [t |-> "prose"]            \* a text that is not JSON
x == Text("x")

Sets(path, value) == [path |-> path, value |-> value]
l0 == <<Name("l"), Index(0)>>
l1 == <<Name("l"), Index(1)>>
ob == <<Name("o"), Name("b")>>

Grow == [remove |-> <<>>,
         set |-> <<Sets(l1, Number(7)), Sets(<<Name("o")>>, MCNoAttrs), Sets(ob, x)>>]
Replace == [remove |-> <<l0, <<Name("a")>>>>, set |-> <<Sets(l0, x), Sets(l1, x)>>]
Shift == [remove |-> <<l0>>, set |-> <<>>]
MCEdits == {Grow, Replace, Shift}

(* 5 and 7 have more than two bits; Grow and Shift do not name the 5.      *)
Config == Obj([a |-> Number(5), l |-> Arr(<<x, Text("z")>>)])
Short == Obj([l |-> Arr(<<x>>)])
MCPrecision == 2

(* Every document that the edits can make of these, and all their parts.   *)
Lists == {Arr(s) : s \in SeqOf({x, Text("z"), Number(8)}, 2)}
Inner == {MCNoAttrs, Obj([b |-> x])}
Whole == {MCNoAttrs} \cup {Obj(a @@ l @@ o) : a \in {<<>>} \cup [{"a"} -> {Number(5), Number(4)}],
                                            l \in [{"l"} -> Lists],
                                            o \in {<<>>} \cup [{"o"} -> Inner]}
Leaves == {x, Text("z")} \cup {Number(n) : n \in {4, 5, 7, 8}}
MCDocs == Whole \cup Inner \cup Lists \cup Leaves
MCNesting == [doc \in MCDocs |-> CASE doc \in Leaves -> 0 [] doc \in Lists \cup Inner -> 1
                                   [] OTHER -> 2]
MCMaxNesting == 2
MCContents == {MCNoText, Prose} \cup Whole

(* The edit of AttrPath, of the contents that are JSON.                    *)
MCAttrEdit(content, edits) == IF content \in Whole THEN Edit(content, edits) ELSE NoDoc

MCNames == {"a", "l", "o", "b"}
MCLookedAt == {<<>>, <<Name("a")>>, <<Name("l")>>, <<Name("o")>>,
               l0, l1, <<Name("l"), Index(2)>>, ob}

SetOp(user, value, raw) ==
    [op |-> "set", key |-> k1, user |-> user, value |-> value, raw |-> raw, edits |-> None]
AttrOp(edits) ==
    [op |-> "attr", key |-> k1, user |-> None, value |-> None, raw |-> FALSE, edits |-> edits]
DeleteOp(user) ==
    [op |-> "delete", key |-> k1, user |-> user, value |-> None, raw |-> FALSE, edits |-> None]

Sealed(content) == [plain |-> content, layers |-> <<s1>>]
Twice(content) == [plain |-> content, layers |-> <<s1, s1>>]

MCBatches == {
    <<SetOp(None, Plain(Short), FALSE), AttrOp(Grow), SetOp(other, Sealed(Short), TRUE)>>,
    <<DeleteOp(other), AttrOp(Replace), AttrOp(Grow)>>,
    <<AttrOp(Shift), SetOp(None, Sealed(Short), FALSE), DeleteOp(None)>>}

MCServers == {[slot \in {caller, other} \X {k1} |->
                Sealed(IF slot[1] = caller THEN Config ELSE Short)]}

BatchLimit == [start |-> 2, trouble |-> 2]

Symmetry == Permutations(Procs)
=============================================================================
