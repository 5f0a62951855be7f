---------------------------- MODULE MCEditSession ----------------------------
(* One key with every kind of value and line, and one that may be missing. *)
EXTENDS EditSession

CONSTANTS k1, k2, a, tree, grown

Pairs(first, second) == {[k \in Keys |-> IF k = k1 THEN v ELSE w] : v \in first, w \in second}

MCProfiles == Pairs({Empty, Word(a), Json(tree, "compact"), Json(tree, "spaced"), Json(tree, "padded")},
                    {None, Json(tree, "spaced")})

Lines == {Quoted(Empty), Quoted(Word(a)), Quoted(Json(tree, "compact")),
          Quoted(Json(tree, "padded")), Nested(tree), Nested(grown)}
MCEdited ==
    Pairs({<<>>, <<Bare(a), Nested(tree)>>} \cup {<<line>> : line \in Lines},
          {<<>>, <<Nested(tree)>>})
      \cup {Garbage}

EditLimit == [save |-> 2, signal |-> 2, failure |-> 1]
SignalLimit == [save |-> 0, signal |-> 1, failure |-> 0]
==============================================================================
