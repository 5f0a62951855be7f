--------------------------- MODULE EditSessionProofs ---------------------------
(***************************************************************************)
(* Proofs about EditSession, for any keys, texts, documents, signals and   *)
(* failures: types, that the decrypted file is gone when the process ends, *)
(* and that a save stores what the editor left and keeps what it did not   *)
(* touch.                                                                  *)
(***************************************************************************)
EXTENDS EditSession, TLAPS

(* Values and documents (doc.go).                                          *)

(* A value is the empty text, a word or a JSON text.                       *)
LEMMA ValueCases ==
  ASSUME NEW v \in Value
  PROVE  \/ v = Empty
         \/ \E w \in Words : v = Word(w)
         \/ \E tree \in Trees, layout \in Layouts : v = Json(tree, layout)
  BY DEF Value

(* A line is a string, a nested value or a bare word.                      *)
LEMMA NodeCases ==
  ASSUME NEW node \in Node
  PROVE  \/ \E v \in Value : node = Quoted(v)
         \/ \E tree \in Trees : node = Nested(tree)
         \/ \E w \in Words : node = Bare(w)
  BY DEF Node

(* renderValue gives a line, canonical a value.                            *)
LEMMA RenderType ==
  ASSUME NEW v \in Value
  PROVE  renderValue(v) \in Node /\ canonical(v) \in Value
<1>1. CASE v = Empty
  BY <1>1 DEF Empty, renderValue, canonical, Node, Quoted
<1>2. ASSUME NEW w \in Words, v = Word(w) PROVE renderValue(v) \in Node /\ canonical(v) \in Value
  BY <1>2 DEF Word, renderValue, canonical, Node, Quoted
<1>3. ASSUME NEW tree \in Trees, NEW layout \in Layouts, v = Json(tree, layout)
      PROVE  renderValue(v) \in Node /\ canonical(v) \in Value
  <2>1. v.t = "json" /\ v.tree = tree
    BY <1>3 DEF Json
  <2>2. Json(tree, "compact") \in Value
    BY DEF Value, Layouts
  <2>3. Nested(tree) \in Node /\ Quoted(v) \in Node
    BY DEF Node
  <2> QED
    BY <2>1, <2>2, <2>3 DEF renderValue, canonical
<1> QED
  BY <1>1, <1>2, <1>3, ValueCases

(* docValue makes of a line the text that it stands for.                   *)
LEMMA DocValueStands ==
  ASSUME NEW node \in Node, docValue(node) # Rejected
  PROVE  docValue(node) \in Value /\ StandsFor(node, docValue(node))
<1>1. ASSUME NEW v \in Value, node = Quoted(v) PROVE docValue(node) = v
  BY <1>1 DEF docValue, Quoted
<1>2. ASSUME NEW tree \in Trees, node = Nested(tree)
      PROVE  docValue(node) \in Value /\ docValue(node) = Json(tree, "compact")
  BY <1>2 DEF docValue, Nested, Value, Layouts
<1>3. ASSUME NEW w \in Words, node = Bare(w)
      PROVE  docValue(node) \in Value /\ docValue(node) = Word(w)
  BY <1>3 DEF docValue, Bare, Value
<1> QED
  BY <1>1, <1>2, <1>3, NodeCases DEF StandsFor

(* canonical is what rendering and parsing give.                           *)
LEMMA CanonicalStands ==
  ASSUME NEW v \in Value
  PROVE  /\ docValue(renderValue(v)) # Rejected => docValue(renderValue(v)) = canonical(v)
         /\ \/ canonical(v) = v
            \/ \E tree \in Trees : renderValue(v) = Nested(tree)
                                  /\ canonical(v) = Json(tree, "compact")
<1>1. CASE v = Empty
  BY <1>1 DEF Empty, renderValue, canonical, Quoted, docValue
<1>2. ASSUME NEW w \in Words, v = Word(w)
      PROVE  canonical(v) = v /\ docValue(renderValue(v)) = v
  BY <1>2 DEF Word, Empty, renderValue, canonical, Quoted, docValue
<1>3. ASSUME NEW tree \in Trees, NEW layout \in Layouts, v = Json(tree, layout)
      PROVE  /\ docValue(renderValue(v)) = canonical(v)
             /\ \/ canonical(v) = v
                \/ renderValue(v) = Nested(tree) /\ canonical(v) = Json(tree, "compact")
  <2>1. CASE layout = "padded"
    BY <1>3, <2>1 DEF Json, Empty, renderValue, canonical, Quoted, docValue
  <2>2. CASE layout # "padded"
    BY <1>3, <2>2 DEF Json, renderValue, canonical, Nested, docValue
  <2> QED
    BY <2>1, <2>2
<1> QED
  BY <1>1, <1>2, <1>3, ValueCases

(* The lines that stand for the compact text of a tree.                    *)
LEMMA CompactLines ==
  ASSUME NEW node \in Node, NEW tree \in Trees, docValue(node) = Json(tree, "compact")
  PROVE  node \in {Nested(tree), Quoted(Json(tree, "compact"))}
<1>1. ASSUME NEW v \in Value, node = Quoted(v), v # Empty PROVE v = Json(tree, "compact")
  BY <1>1 DEF docValue, Quoted
<1>2. ASSUME NEW v \in Value, node = Quoted(v), v = Empty PROVE FALSE
  BY <1>2, RejectedAssumption DEF docValue, Quoted, Value, Layouts
<1>3. ASSUME NEW other \in Trees, node = Nested(other) PROVE other = tree
  BY <1>3 DEF docValue, Nested, Json
<1>4. ASSUME NEW w \in Words, node = Bare(w) PROVE FALSE
  BY <1>4 DEF docValue, Bare, Word, Json
<1> QED
  BY <1>1, <1>2, <1>3, <1>4, NodeCases

(* A sequence that is neither empty nor longer than one.                   *)
LEMMA OneElement ==
  ASSUME NEW S, NEW s \in Seq(S), s # <<>>, ~(Len(s) > 1)
  PROVE  Len(s) = 1 /\ s[1] \in S
<1>1. Len(s) \in Nat /\ Len(s) # 0
  OBVIOUS
<1>2. \A n \in Nat : n # 0 /\ ~(n > 1) => n = 1
  OBVIOUS
<1>3. Len(s) = 1
  BY <1>1, <1>2, Zenon
<1>4. s[1] \in S
  BY <1>3
<1> QED
  BY <1>3, <1>4

(* ParseDoc gives values.                                                  *)
LEMMA ParseType ==
  ASSUME NEW doc \in Document, ParseDoc(doc) # Rejected
  PROVE  /\ doc \in [Keys -> Seq(Node)]
         /\ ~Unparsable(doc)
         /\ ParseDoc(doc) \in Values
         /\ \A k \in Keys : doc[k] # <<>> =>
              doc[k][1] \in Node /\ Len(doc[k]) = 1 /\ docValue(doc[k][1]) # Rejected
         /\ \A k \in Keys : ParseDoc(doc)[k] = IF doc[k] = <<>> THEN None ELSE docValue(doc[k][1])
<1>1. ~Unparsable(doc) /\ doc # Garbage
  BY DEF ParseDoc, Unparsable
<1>2. doc \in [Keys -> Seq(Node)]
  BY <1>1 DEF Document
<1>3. ASSUME NEW k \in Keys, doc[k] # <<>>
      PROVE  doc[k][1] \in Node /\ Len(doc[k]) = 1 /\ docValue(doc[k][1]) # Rejected
  <2>1. doc[k] \in Seq(Node) /\ ~(Len(doc[k]) > 1) /\ docValue(doc[k][1]) # Rejected
    BY <1>1, <1>2, <1>3 DEF Unparsable
  <2>2. Len(doc[k]) = 1 /\ doc[k][1] \in Node
    BY <1>3, <2>1, OneElement
  <2> QED
    BY <2>1, <2>2
<1>4. ParseDoc(doc) = [k \in Keys |-> IF doc[k] = <<>> THEN None ELSE docValue(doc[k][1])]
  BY <1>1 DEF ParseDoc
<1>5. ParseDoc(doc) \in Values
  BY <1>3, <1>4, DocValueStands DEF Values
<1> QED
  BY <1>1, <1>2, <1>3, <1>4, <1>5

(* A rendered profile is a document.                                       *)
LEMMA RenderDocType ==
  ASSUME NEW values \in Values
  PROVE  RenderDoc(values) \in [Keys -> Seq(Node)]
  BY RenderType DEF RenderDoc, Values

(* MergeEdit takes the edited values, but keeps the text of a value whose  *)
(* canonical form was left.                                                *)
LEMMA MergeKeeps ==
  ASSUME NEW previous \in Values, NEW edited \in Values, NEW k \in Keys
  PROVE  /\ MergeEdit(previous, edited)[k] \in Value \cup {None}
         /\ MergeEdit(previous, edited)[k] = None <=> edited[k] = None
         /\ \/ MergeEdit(previous, edited)[k] = edited[k]
            \/ /\ MergeEdit(previous, edited)[k] = previous[k] /\ previous[k] \in Value
               /\ edited[k] = canonical(previous[k])
         /\ previous[k] # None /\ edited[k] = canonical(previous[k])
              => MergeEdit(previous, edited)[k] = previous[k]
<1>1. previous[k] \in Value \cup {None} /\ edited[k] \in Value \cup {None}
  BY DEF Values
<1>2. MergeEdit(previous, edited)[k] =
        IF edited[k] # None /\ previous[k] # None /\ canonical(previous[k]) = edited[k]
          THEN previous[k] ELSE edited[k]
  BY DEF MergeEdit
<1>3. None \notin Value
  BY DocNoneAssumption
<1>4. previous[k] # None => canonical(previous[k]) \in Value
  BY <1>1, RenderType
<1> QED
  BY <1>1, <1>2, <1>3, <1>4

-----------------------------------------------------------------------------
(* Types.                                                                  *)

(* The editable document and what is read back have the types of the state. *)
LEMMA ReadTypes ==
  ASSUME TypeOK
  PROVE  /\ content \in Document
         /\ file # None /\ Parsed(file) # Rejected => file \in Document /\ Parsed(file) = ParseDoc(file)
         /\ file # None /\ Parsed(file) # Rejected => Parsed(file) \in Values
<1>1. content \in Document
  BY RenderDocType DEF content, TypeOK, Document
<1>2. file # None /\ Parsed(file) # Rejected => file \in Document /\ Parsed(file) = ParseDoc(file)
  BY DEF Parsed, TypeOK
<1> QED
  BY <1>1, <1>2, ParseType

(* The initial states have the types.                                      *)
LEMMA InitTypes ==
  ASSUME Init PROVE TypeOK
  BY ProfileAssumption DEF Init, TypeOK, Threads, Budget, Calls

(* Using up a budget.                                                      *)
LEMMA SpendType ==
  ASSUME spent \in [Budget -> Nat], NEW b \in Budget, Spend(b)
  PROVE  spent' \in [Budget -> Nat]
  BY DEF Spend

(* Every goroutine is before a call.                                       *)
LEMMA CallTypes ==
  ASSUME TypeOK, [Next]_vars PROVE pc' \in [Threads -> Calls]
<1> USE DEF Goto, Return, Threads, Calls
<1>0. pc \in [Threads -> Calls]
  BY DEF TypeOK
<1>1. CASE CreateDir
  BY <1>0, <1>1 DEF CreateDir
<1>2. CASE Notify
  BY <1>0, <1>2 DEF Notify
<1>3. CASE WriteContent
  BY <1>0, <1>3 DEF WriteContent
<1>4. CASE StartEditor
  BY <1>0, <1>4 DEF StartEditor
<1>5. CASE Editor
  BY <1>0, <1>5 DEF Editor, EditorSaves, EditorQuits
<1>7. CASE EditorReturned
  BY <1>0, <1>7 DEF EditorReturned
<1>8. CASE ReadEdited
  BY <1>0, <1>8 DEF ReadEdited
<1>9. CASE EditAgain
  BY <1>0, <1>9 DEF EditAgain
<1>10. CASE StopSignals
  BY <1>0, <1>10 DEF StopSignals
<1>11. ASSUME NEW t \in Threads, Cleanup(t) PROVE pc' \in [Threads -> Calls]
  BY <1>0, <1>11 DEF Cleanup, Once, Zero, Remove
<1>12. CASE Finish \/ Exit
  BY <1>0, <1>12 DEF Finish, Exit
<1>14. CASE Handler
  BY <1>0, <1>14 DEF Handler, TakeSignal, Drained, Abort
<1>17. CASE Signal
  BY <1>0, <1>17 DEF Signal
<1>18. CASE UNCHANGED vars
  BY <1>0, <1>18 DEF vars
<1> QED
  BY <1>1, <1>2, <1>3, <1>4, <1>5, <1>7, <1>8, <1>9, <1>10, <1>11, <1>12, <1>14, <1>17, <1>18
     DEF Next, Main

(* Every step keeps the types.                                             *)
LEMMA StepTypes ==
  ASSUME TypeOK, [Next]_vars PROVE TypeOK'
<1>0. pc' \in [Threads -> Calls]
  BY CallTypes
<1> USE <1>0 DEF TypeOK, Return, files, channel
<1>1. CASE CreateDir
  BY <1>1 DEF CreateDir
<1>2. CASE Notify
  BY <1>2 DEF Notify
<1>3. CASE WriteContent
  <2>1. file' \in Document \cup {Zeroed, None} /\ spent' \in [Budget -> Nat]
    BY <1>3, ReadTypes, SpendType DEF WriteContent, Budget
  <2> QED
    BY <1>3, <2>1 DEF WriteContent
<1>4. CASE StartEditor
  BY <1>4 DEF StartEditor
<1>5. CASE EditorSaves
  <2>1. file' \in Document \cup {Zeroed, None}
    BY <1>5, EditedAssumption DEF EditorSaves
  <2>2. spent' \in [Budget -> Nat]
    BY <1>5, SpendType DEF EditorSaves, Budget
  <2> QED
    BY <1>5, <2>1, <2>2 DEF EditorSaves
<1>6. CASE EditorQuits
  BY <1>6 DEF EditorQuits
<1>7. CASE EditorReturned
  <2>1. editing' \in BOOLEAN /\ result' \in Values \cup {None}
    BY <1>7 DEF EditorReturned
  <2>2. UNCHANGED <<profile, interactive, dir, file, once, notified, sigs, closed, editor, process,
                    left, spent>>
    BY <1>7 DEF EditorReturned
  <2> QED
    BY <2>1, <2>2
<1>8. CASE ReadEdited
  <2>1. result' \in Values \cup {None}
    BY <1>8, ReadTypes DEF ReadEdited
  <2> QED
    BY <1>8, <2>1 DEF ReadEdited
<1>9. CASE EditAgain
  BY <1>9 DEF EditAgain
<1>10. CASE StopSignals
  <2>1. notified' \in BOOLEAN /\ closed' \in BOOLEAN
    BY <1>10 DEF StopSignals
  <2> QED
    BY <1>10, <2>1 DEF StopSignals
<1>11. ASSUME NEW t \in Threads, Cleanup(t) PROVE TypeOK'
  <2>1. CASE Once(t)
    BY <2>1 DEF Once
  <2>2. CASE Zero(t)
    BY <2>2 DEF Zero
  <2>3. CASE Remove(t)
    BY <2>3 DEF Remove
  <2> QED
    BY <1>11, <2>1, <2>2, <2>3 DEF Cleanup
<1>12. CASE Finish
  <2>1. profile' \in Values
    <3>1. ASSUME result \in Values PROVE MergeEdit(profile, result) \in Values
      BY <3>1, MergeKeeps DEF Values, MergeEdit
    <3> QED
      BY <1>12, <3>1 DEF Finish
  <2> QED
    BY <1>12, <2>1, SpendType DEF Finish, Budget
<1>13. CASE Exit
  BY <1>13 DEF Exit
<1>14. CASE TakeSignal
  BY <1>14 DEF TakeSignal
<1>15. CASE Drained
  BY <1>15 DEF Drained
<1>16. CASE Abort
  BY <1>16 DEF Abort
<1>17. CASE Signal
  <2>1. sigs' \in Signals \cup {None} /\ process' \in {"running", "returned", "aborted", "killed"}
    BY <1>17 DEF Signal
  <2>2. spent' \in [Budget -> Nat]
    BY <1>17, SpendType DEF Signal, Budget
  <2> QED
    BY <1>17, <2>1, <2>2 DEF Signal
<1>18. CASE UNCHANGED vars
  BY <1>18 DEF vars
<1> QED
  BY <1>1, <1>2, <1>3, <1>4, <1>5, <1>6, <1>7, <1>8, <1>9, <1>10, <1>11, <1>12, <1>13, <1>14,
     <1>15, <1>16, <1>17, <1>18 DEF Next, Main, Handler, Editor

(* The state of an edit has its types (edit.go, editInRAM).                *)
THEOREM TypeCorrect == Spec => []TypeOK
  BY InitTypes, StepTypes, PTL DEF Spec

-----------------------------------------------------------------------------
(* The decrypted file is gone when the process has ended.                  *)

Serving == {"write", "start", "wait", "read", "ask", "stop"}

(* Where the goroutines are says whether the file may be there: nothing is *)
(* there before it is written and after somebody has cleaned up, and who   *)
(* has passed cleanup knows that it is done.                               *)
FileInv ==
    /\ ~dir => file = None
    /\ once = "done" => ~dir
    /\ pc["main"] \in {"create", "notify"} => file = None /\ once = "fresh"
    /\ pc["signals"] = "none" <=> pc["main"] \in {"create", "notify"}
    /\ \A t \in Threads : pc[t] = "cleaned" => once = "done"
    /\ pc["main"] = "end" => once = "done"
    /\ editor = "open" => pc["main"] = "wait"

(* How the process may have ended.                                         *)
EndInv ==
    /\ notified <=> pc["main"] \in Serving
    /\ process = "returned" => pc["main"] = "end"
    /\ process = "aborted" => pc["signals"] = "cleaned"
    /\ process = "killed" => ~notified
    /\ pc["main"] \notin {"none", "range"}

(* The initial states satisfy the invariant.                               *)
LEMMA InitEnds ==
  ASSUME Init PROVE FileInv /\ EndInv
  BY DEF Init, FileInv, EndInv, Serving, Threads

(* Every step keeps it.                                                    *)
LEMMA StepEnds ==
  ASSUME TypeOK, FileInv, EndInv, [Next]_vars PROVE FileInv' /\ EndInv'
<1> USE DEF FileInv, EndInv, Serving, Goto, At, Return, Threads, files, channel
<1>0. pc \in [Threads -> Calls]
  BY DEF TypeOK
<1>1. CASE CreateDir
  BY <1>0, <1>1 DEF CreateDir
<1>2. CASE Notify
  BY <1>0, <1>2 DEF Notify
<1>3. CASE WriteContent
  BY <1>0, <1>3 DEF WriteContent
<1>4. CASE StartEditor
  BY <1>0, <1>4 DEF StartEditor
<1>5. CASE EditorSaves
  BY <1>0, <1>5 DEF EditorSaves
<1>6. CASE EditorQuits
  BY <1>0, <1>6 DEF EditorQuits
<1>7. CASE EditorReturned
  BY <1>0, <1>7 DEF EditorReturned
<1>8. CASE ReadEdited
  BY <1>0, <1>8 DEF ReadEdited
<1>9. CASE EditAgain
  BY <1>0, <1>9 DEF EditAgain
<1>10. CASE StopSignals
  BY <1>0, <1>10 DEF StopSignals
<1>11. ASSUME NEW t \in Threads, Cleanup(t) PROVE FileInv' /\ EndInv'
  <2>1. CASE Once(t)
    BY <1>0, <2>1 DEF Once
  <2>2. CASE Zero(t)
    BY <1>0, <2>2 DEF Zero
  <2>3. CASE Remove(t)
    BY <1>0, <2>3 DEF Remove
  <2> QED
    BY <1>11, <2>1, <2>2, <2>3 DEF Cleanup
<1>12. CASE Finish
  BY <1>0, <1>12 DEF Finish
<1>13. CASE Exit
  BY <1>0, <1>13 DEF Exit
<1>14. CASE TakeSignal
  BY <1>0, <1>14 DEF TakeSignal
<1>15. CASE Drained
  BY <1>0, <1>15 DEF Drained
<1>16. CASE Abort
  BY <1>0, <1>16 DEF Abort
<1>17. CASE Signal
  BY <1>0, <1>17 DEF Signal
<1>18. CASE UNCHANGED vars
  BY <1>0, <1>18 DEF vars
<1> QED
  BY <1>1, <1>2, <1>3, <1>4, <1>5, <1>6, <1>7, <1>8, <1>9, <1>10, <1>11, <1>12, <1>13, <1>14,
     <1>15, <1>16, <1>17, <1>18 DEF Next, Main, Handler, Editor

(* A process that has ended has left nothing.                              *)
LEMMA EndsClean ==
  ASSUME TypeOK, FileInv, EndInv PROVE NothingLeft
<1>1. process \in {"returned", "aborted"} => once = "done"
  BY DEF FileInv, EndInv, Threads
<1>2. once = "done" => ~dir /\ file = None
  BY DEF FileInv
<1>3. process = "killed" => pc["main"] \notin Serving
  BY DEF EndInv
<1>4. file # None => pc["main"] \in Serving \cup {"once", "zero", "remove"}
  <2>1. pc["main"] \in Calls /\ pc["main"] \notin {"none", "range"}
    BY DEF TypeOK, EndInv, Threads
  <2> QED
    BY <1>2, <2>1 DEF FileInv, Serving, Calls, Threads
<1>5. process \in {"running", "returned", "aborted", "killed"}
  BY DEF TypeOK
<1> QED
  BY <1>1, <1>2, <1>3, <1>4, <1>5 DEF NothingLeft

(* When the process has ended, by a return or by an abort, the decrypted   *)
(* file is gone; only a kill after signal.Stop can leave it (editInRAM).   *)
THEOREM NothingLeftBehind == Spec => []NothingLeft
<1>1. Init => TypeOK /\ FileInv /\ EndInv
  BY InitTypes, InitEnds
<1>2. TypeOK /\ FileInv /\ EndInv /\ [Next]_vars => (TypeOK /\ FileInv /\ EndInv)'
  BY StepTypes, StepEnds
<1> QED
  BY <1>1, <1>2, EndsClean, PTL DEF Spec

-----------------------------------------------------------------------------
(* What is saved.                                                          *)

(* What main is about to read is what the editor left, or what cleanup has *)
(* made of it.                                                             *)
ReadInv ==
    pc["main"] = "read" \/ (pc["main"] = "wait" /\ editor = "ok") => file \in {left, Zeroed, None}

(* A result is what the editor left, parsed.                               *)
ResultInv ==
    result # None =>
      /\ pc["main"] \in {"stop", "once", "zero", "remove", "cleaned", "end"}
      /\ left \in Document
      /\ ParseDoc(left) # Rejected
      /\ result = ParseDoc(left)

(* The initial states satisfy both.                                        *)
LEMMA InitSaves ==
  ASSUME Init PROVE ReadInv /\ ResultInv
  BY DEF Init, ReadInv, ResultInv, Threads

(* Every step keeps both.                                                  *)
LEMMA StepSaves ==
  ASSUME TypeOK, FileInv, ReadInv, ResultInv, [Next]_vars PROVE ReadInv' /\ ResultInv'
<1> USE DEF ReadInv, ResultInv, Goto, At, Return, Threads, files, channel
<1>0. pc \in [Threads -> Calls]
  BY DEF TypeOK
<1>1. CASE CreateDir
  BY <1>0, <1>1 DEF CreateDir
<1>2. CASE Notify
  BY <1>0, <1>2 DEF Notify
<1>3. CASE WriteContent
  BY <1>0, <1>3 DEF WriteContent
<1>4. CASE StartEditor
  BY <1>0, <1>4 DEF StartEditor
<1>5. CASE EditorSaves
  BY <1>0, <1>5 DEF EditorSaves, FileInv
<1>6. CASE EditorQuits
  BY <1>0, <1>6 DEF EditorQuits, FileInv
<1>7. CASE EditorReturned
  BY <1>0, <1>7 DEF EditorReturned
<1>8. CASE ReadEdited
  <2>1. result' # None => left' \in Document /\ ParseDoc(left') # Rejected /\ result' = ParseDoc(left')
    <3>1. CASE file \in {None, content} \/ Parsed(file) = Rejected
      BY <1>8, <3>1 DEF ReadEdited
    <3>2. CASE file \notin {None, content} /\ Parsed(file) # Rejected
      <4>1. file = left
        BY <1>8, <3>2 DEF ReadEdited, Parsed
      <4> QED
        BY <1>8, <3>2, <4>1, ReadTypes DEF ReadEdited
    <3> QED
      BY <3>1, <3>2
  <2> QED
    BY <1>0, <1>8, <2>1 DEF ReadEdited
<1>9. CASE EditAgain
  BY <1>0, <1>9 DEF EditAgain
<1>10. CASE StopSignals
  BY <1>0, <1>10 DEF StopSignals
<1>11. ASSUME NEW t \in Threads, Cleanup(t) PROVE ReadInv' /\ ResultInv'
  <2>1. CASE Once(t)
    BY <1>0, <2>1 DEF Once
  <2>2. CASE Zero(t)
    BY <1>0, <2>2 DEF Zero
  <2>3. CASE Remove(t)
    BY <1>0, <2>3 DEF Remove
  <2> QED
    BY <1>11, <2>1, <2>2, <2>3 DEF Cleanup
<1>12. CASE Finish
  BY <1>0, <1>12 DEF Finish
<1>13. CASE Exit
  BY <1>0, <1>13 DEF Exit
<1>14. CASE TakeSignal
  BY <1>0, <1>14 DEF TakeSignal
<1>15. CASE Drained
  BY <1>0, <1>15 DEF Drained
<1>16. CASE Abort
  BY <1>0, <1>16 DEF Abort
<1>17. CASE Signal
  BY <1>0, <1>17 DEF Signal
<1>18. CASE UNCHANGED vars
  BY <1>0, <1>18 DEF vars
<1> QED
  BY <1>1, <1>2, <1>3, <1>4, <1>5, <1>6, <1>7, <1>8, <1>9, <1>10, <1>11, <1>12, <1>13, <1>14,
     <1>15, <1>16, <1>17, <1>18 DEF Next, Main, Handler, Editor

(* How a line and the value before become the text that is saved.          *)
SavedAs(node, old, text) ==
    \/ StandsFor(node, text)
    \/ text = old /\ SameTree(old, node)

(* The document that was saved, line by line.                              *)
LEMMA SavedLines ==
  ASSUME TypeOK, ResultInv, result # None, NEW k \in Keys
  PROVE  /\ left \in Document \ {Garbage}
         /\ Len(left[k]) <= 1
         /\ (MergeEdit(profile, result)[k] # None) <=> (left[k] # <<>>)
         /\ left[k] # <<>> => SavedAs(left[k][1], profile[k], MergeEdit(profile, result)[k])
         /\ left[k] = content[k] => MergeEdit(profile, result)[k] = profile[k]
<1>1. /\ left \in Document
      /\ ParseDoc(left) # Rejected
      /\ result = ParseDoc(left)
  BY DEF ResultInv
<1>2. left \in [Keys -> Seq(Node)] /\ ~Unparsable(left)
  BY <1>1, ParseType
<1>3. left # Garbage
  BY <1>2 DEF Unparsable
<1>4. Len(left[k]) <= 1
  <2>1. left[k] \in Seq(Node) /\ ~(Len(left[k]) > 1)
    BY <1>2 DEF Unparsable
  <2>2. \A n \in Nat : ~(n > 1) => n <= 1
    OBVIOUS
  <2>3. Len(left[k]) \in Nat
    BY <2>1
  <2> QED
    BY <2>1, <2>2, <2>3, Zenon
<1>5. result \in Values /\ profile \in Values
  BY <1>1, ParseType DEF TypeOK
<1>6. result[k] = IF left[k] = <<>> THEN None ELSE docValue(left[k][1])
  BY <1>1, ParseType
<1>7. left[k] # <<>> => left[k][1] \in Node /\ docValue(left[k][1]) # Rejected
  BY <1>1, ParseType
<1>8. left[k] # <<>> => result[k] \in Value /\ StandsFor(left[k][1], result[k])
  BY <1>6, <1>7, DocValueStands
<1>9. (result[k] # None) <=> (left[k] # <<>>)
  BY <1>6, <1>8, DocNoneAssumption
<1>10. MergeEdit(profile, result)[k] = None <=> result[k] = None
  BY <1>5, MergeKeeps
<1>11. ASSUME left[k] # <<>>
       PROVE  SavedAs(left[k][1], profile[k], MergeEdit(profile, result)[k])
  <2>1. CASE MergeEdit(profile, result)[k] = result[k]
    BY <1>8, <1>11, <2>1 DEF SavedAs
  <2>2. CASE /\ MergeEdit(profile, result)[k] = profile[k] /\ profile[k] \in Value
             /\ result[k] = canonical(profile[k]) /\ profile[k] # result[k]
    <3>1. PICK tree \in Trees : /\ renderValue(profile[k]) = Nested(tree)
                              /\ canonical(profile[k]) = Json(tree, "compact")
      BY <2>2, CanonicalStands
    <3>2. left[k][1] \in {Nested(tree), Quoted(Json(tree, "compact"))}
      BY <1>6, <1>7, <1>11, <2>2, <3>1, CompactLines
    <3> QED
      BY <2>2, <3>1, <3>2 DEF SavedAs, SameTree
  <2> QED
    BY <1>5, <2>1, <2>2, MergeKeeps
<1>12. ASSUME left[k] = content[k] PROVE MergeEdit(profile, result)[k] = profile[k]
  <2>1. content[k] = IF profile[k] = None THEN <<>> ELSE <<renderValue(profile[k])>>
    BY DEF content, RenderDoc
  <2>2. CASE profile[k] = None
    BY <1>6, <1>10, <1>12, <2>1, <2>2
  <2>3. CASE profile[k] # None
    <3>1. profile[k] \in Value
      BY <1>5, <2>3 DEF Values
    <3>2. left[k] # <<>> /\ left[k][1] = renderValue(profile[k])
      BY <1>12, <2>1, <2>3
    <3>3. result[k] = canonical(profile[k])
      BY <1>6, <1>7, <3>1, <3>2, CanonicalStands
    <3> QED
      BY <1>5, <2>3, <3>3, MergeKeeps
  <2> QED
    BY <2>2, <2>3
<1> QED
  BY <1>1, <1>3, <1>4, <1>9, <1>10, <1>11, <1>12

(* Only Finish changes the profile.                                        *)
LEMMA SaveSteps ==
  ASSUME [Next]_vars, profile' # profile
  PROVE  result # None /\ profile' = MergeEdit(profile, result)
<1>1. Finish
  BY DEF vars, files, channel, Next, Main, Handler, Editor, CreateDir, Notify, WriteContent,
         StartEditor, EditorSaves, EditorQuits, EditorReturned, ReadEdited, EditAgain, StopSignals,
         Cleanup, Once, Zero, Remove, Exit, TakeSignal, Drained, Abort, Signal
<1> QED
  BY <1>1 DEF Finish

(* The result is what the editor left in every state.                      *)
LEMMA ResultsHold == Spec => [](TypeOK /\ ResultInv)
<1>1. Init => TypeOK /\ FileInv /\ EndInv /\ ReadInv /\ ResultInv
  BY InitTypes, InitEnds, InitSaves
<1>2. TypeOK /\ FileInv /\ EndInv /\ ReadInv /\ ResultInv /\ [Next]_vars
        => (TypeOK /\ FileInv /\ EndInv /\ ReadInv /\ ResultInv)'
  BY StepTypes, StepEnds, StepSaves
<1> QED
  BY <1>1, <1>2, PTL DEF Spec

(* A save gives the profile exactly the keys of the document the editor    *)
(* left, and each the text written there; only a value shown as a tree     *)
(* keeps its old text, if that tree or its compact text is what is there   *)
(* (ParseDoc, MergeEdit).                                                  *)
THEOREM SavesLeft == Spec => SavesWhatEditorLeft
<1>1. TypeOK /\ ResultInv /\ [Next]_vars =>
        [profile' # profile =>
           /\ left \in Document \ {Garbage}
           /\ \A k \in Keys :
                /\ Len(left[k]) <= 1
                /\ (profile'[k] # None) <=> (left[k] # <<>>)
                /\ left[k] # <<>> =>
                     \/ StandsFor(left[k][1], profile'[k])
                     \/ profile'[k] = profile[k] /\ SameTree(profile[k], left[k][1])]_vars
  <2> SUFFICES ASSUME TypeOK, ResultInv, [Next]_vars, profile' # profile
               PROVE  /\ left \in Document \ {Garbage}
                      /\ \A k \in Keys :
                           /\ Len(left[k]) <= 1
                           /\ (profile'[k] # None) <=> (left[k] # <<>>)
                           /\ left[k] # <<>> => SavedAs(left[k][1], profile[k], profile'[k])
    BY DEF SavedAs
  <2>1. result # None /\ profile' = MergeEdit(profile, result)
    BY SaveSteps
  <2>2. left \in Document \ {Garbage}
    BY <2>1, ParseType DEF ResultInv, Unparsable
  <2> QED
    BY <2>1, <2>2, SavedLines
<1> QED
  BY <1>1, ResultsHold, PTL DEF SavesWhatEditorLeft, Spec

(* A line the user left as it was rendered keeps the old text (MergeEdit). *)
THEOREM Untouched == Spec => UntouchedKeepText
<1>1. TypeOK /\ ResultInv /\ [Next]_vars =>
        [\A k \in Keys :
           profile' # profile /\ left[k] = content[k] => profile'[k] = profile[k]]_vars
  BY SaveSteps, SavedLines
<1> QED
  BY <1>1, ResultsHold, PTL DEF UntouchedKeepText, Spec
===============================================================================
