---------------------------- MODULE AttrPathProofs ----------------------------
(***************************************************************************)
(* Proofs about AttrPath, for documents and paths of any depth, and about  *)
(* BatchAttr: an "attr" changes what its paths address; everywhere else it *)
(* only turns numbers into float64.                                        *)
(***************************************************************************)
EXTENDS BatchAttr, BatchRunProofs

-----------------------------------------------------------------------------
(* Documents.                                                              *)

(* A JSON document: it is in some set that has all its parts.              *)
IsDoc(node) == \E docs : node \in docs /\ \A doc \in docs : PartsIn(doc, docs)

(* The parts of a document are documents.                                  *)
LEMMA DocParts ==
  ASSUME NEW node, IsDoc(node)
  PROVE  \/ node.t = "obj" /\ \A k \in DOMAIN node.f : IsDoc(node.f[k])
         \/ /\ node.t = "arr" /\ Len(node.s) \in Nat /\ DOMAIN node.s = 1 .. Len(node.s)
            /\ node.s \in Seq({node.s[i] : i \in DOMAIN node.s})
            /\ \A i \in DOMAIN node.s : IsDoc(node.s[i])
         \/ node.t = "val"
<1>1. PICK docs : node \in docs /\ \A doc \in docs : PartsIn(doc, docs)
  BY DEF IsDoc
<1>2. \A doc \in docs : IsDoc(doc)
  BY <1>1 DEF IsDoc
<1>3. PartsIn(node, docs)
  BY <1>1
<1>4. CASE node.t = "arr" /\ node.s \in Seq(docs)
  <2>1. Len(node.s) \in Nat /\ DOMAIN node.s = 1 .. Len(node.s)
    BY <1>4
  <2>2. \A i \in DOMAIN node.s : IsDoc(node.s[i])
    BY <1>2, <1>4
  <2>3. node.s \in Seq({node.s[i] : i \in DOMAIN node.s})
    BY <1>4
  <2> QED
    BY <1>4, <2>1, <2>2, <2>3
<1> QED
  BY <1>2, <1>3, <1>4 DEF PartsIn

(* What has documents as its parts is one.                                 *)
LEMMA DocBuilt ==
  ASSUME NEW node, NEW parts, \A doc \in parts : IsDoc(doc), PartsIn(node, parts)
  PROVE  IsDoc(node)
<1> DEFINE In(doc) == CHOOSE docs : doc \in docs /\ \A d \in docs : PartsIn(d, docs)
           all == {node} \cup UNION {In(doc) : doc \in parts}
<1>1. ASSUME NEW doc \in parts PROVE doc \in In(doc) /\ \A d \in In(doc) : PartsIn(d, In(doc))
  BY DEF IsDoc
<1>2. ASSUME NEW d, NEW X, NEW Y, X \subseteq Y, PartsIn(d, X) PROVE PartsIn(d, Y)
  BY <1>2 DEF PartsIn
<1>3. parts \subseteq all
  BY <1>1
<1>4. ASSUME NEW doc \in parts PROVE In(doc) \subseteq all
  OBVIOUS
<1> HIDE DEF In
<1>5. ASSUME NEW d \in all PROVE PartsIn(d, all)
  <2>1. CASE d = node
    <3> HIDE DEF all
    <3> QED
      BY <1>2, <1>3, <2>1
  <2>2. CASE d # node
    <3>1. PICK doc \in parts : d \in In(doc)
      BY <2>2
    <3> HIDE DEF all
    <3> QED
      BY <1>1, <1>2, <1>4, <3>1
  <2> QED
    BY <2>1, <2>2
<1>6. node \in all
  OBVIOUS
<1> HIDE DEF all
<1> QED
  BY <1>5, <1>6 DEF IsDoc

(* Every document of the model is one.                                     *)
LEMMA DocsAre ==
  ASSUME NEW doc \in Docs PROVE IsDoc(doc)
  BY DocAssumption DEF IsDoc

(* There is something at a segment exactly if it leads to a document.      *)
Node(node) == IsDoc(node) \/ node = NoDoc

(* The type of a node tells whether it is a document.                      *)
LEMMA NodeTypes ==
  ASSUME NEW node, Node(node)
  PROVE  /\ node.t \in {"obj", "arr", "val", "failed"}
         /\ node.t = "failed" <=> node = NoDoc
         /\ node = NoDoc <=> ~IsDoc(node)
<1>1. NoDoc.t = "failed"
  BY DEF NoDoc
<1>2. IsDoc(node) => node.t \in {"obj", "arr", "val"}
  BY DocParts
<1> QED
  BY <1>1, <1>2 DEF Node

(* A segment leads to a document exactly if it exists.                     *)
LEMMA DownNode ==
  ASSUME NEW node, Node(node), NEW seg \in Segments
  PROVE  /\ Node(Down(node, seg))
         /\ Down(node, seg) # NoDoc <=> Exists(node, seg)
         /\ Exists(node, seg) => IsDoc(node)
<1>1. Exists(node, seg) => IsDoc(node)
  BY NodeTypes DEF Exists
<1>2. Exists(node, seg) => IsDoc(Child(node, seg))
  BY <1>1, DocParts DEF Exists, Child
<1>3. ~IsDoc(NoDoc)
  BY NodeTypes DEF Node, NoDoc
<1> QED
  BY <1>1, <1>2, <1>3 DEF Node, Down

-----------------------------------------------------------------------------
(* Going down a path.                                                      *)

(* at[i] is where a path leads from node in i segments.                    *)
Descends(at, node, path) ==
    /\ at[0] = node
    /\ \A i \in 1 .. Len(path) : at[i] = Down(at[i - 1], path[i])

(* The nodes on a path are what their definition says, and are nodes.      *)
LEMMA DescentUnfolds ==
  ASSUME NEW node, Node(node), NEW path \in Paths
  PROVE  Descends(Descent(node, path), node, path)
<1> DEFINE N == Len(path)
           Def(f, i) == IF i = 0 THEN node ELSE Down(f[i - 1], path[i])
<1>1. N \in Nat /\ \A i \in 1 .. N : path[i] \in Segments
  BY DEF Paths
<1> DEFINE Closed(docs) ==
             node \in docs \cup {NoDoc} /\ \A doc \in docs : PartsIn(doc, docs)
<1>2. PICK docs : Closed(docs)
  <2>1. CASE IsDoc(node)
    BY <2>1 DEF IsDoc
  <2>2. CASE node = NoDoc
    <3>1. Closed({})
      BY <2>2
    <3> HIDE DEF Closed
    <3> QED
      BY <3>1
  <2> QED
    BY <2>1, <2>2 DEF Node
<1> DEFINE S == docs \cup {NoDoc}
           step == [x \in (1 .. N) \X S |-> Down(x[2], path[x[1]])]
<1>3. ASSUME NEW d \in S, NEW seg \in Segments PROVE Down(d, seg) \in S
  <2>1. CASE d = NoDoc
    BY <2>1 DEF Down, Exists, NoDoc
  <2>2. CASE PartsIn(d, docs)
    BY <2>2 DEF Down, Exists, Child, PartsIn
  <2> QED
    BY <1>2, <2>1, <2>2
<1>4. step \in [(1 .. N) \X S -> S]
  <2>1. ASSUME NEW i \in 1 .. N, NEW d \in S PROVE Down(d, path[i]) \in S
    BY <1>1, <1>3
  <2> HIDE DEF S
  <2> QED
    BY <2>1
<1>5. PICK f \in [0 .. N -> S] : Recurs(f, N, node, step)
  <2> HIDE DEF step, N
  <2> QED
    BY <1>1, <1>2, <1>4, Recursion
<1>6. f = [i \in 0 .. N |-> Def(f, i)]
  <2>1. ASSUME NEW i \in 0 .. N PROVE f[i] = Def(f, i)
    <3>1. CASE i = 0
      BY <1>5, <3>1 DEF Recurs
    <3>2. CASE i # 0
      <4>1. i \in 1 .. N /\ i - 1 \in 0 .. N
        BY <1>1, <3>2
      <4>2. f[i - 1] \in S
        BY <4>1
      <4>3. f[i] = Down(f[i - 1], path[i])
        <5> HIDE DEF S
        <5> QED
          BY <1>5, <4>1, <4>2 DEF Recurs
      <4> QED
        BY <3>2, <4>3
    <3> QED
      BY <3>1, <3>2
  <2> HIDE DEF Def, N, S
  <2> QED
    BY <2>1
<1> DEFINE at == CHOOSE g : g = [i \in 0 .. N |-> Def(g, i)]
<1>7. Descent(node, path) = at
  BY DEF Descent
<1>8. at = [i \in 0 .. N |-> Def(at, i)]
  BY <1>6, Zenon
<1> HIDE DEF at
<1>9. \A i \in 0 .. N : at[i] = Def(at, i)
  <2> HIDE DEF Def, N
  <2> QED
    BY <1>8
<1>10. at[0] = node
  BY <1>1, <1>9
<1>11. ASSUME NEW i \in 1 .. N PROVE at[i] = Down(at[i - 1], path[i])
  <2>1. i \in 0 .. N /\ i # 0
    BY <1>1
  <2> QED
    BY <1>9, <2>1
<1> QED
  BY <1>7, <1>10, <1>11 DEF Descends

(* On the way down there are documents, or nothing.                        *)
LEMMA DescentNodes ==
  ASSUME NEW node, Node(node), NEW path \in Paths, NEW at, Descends(at, node, path)
  PROVE  \A i \in 0 .. Len(path) : Node(at[i])
<1> DEFINE K == {k \in Nat : k <= Len(path) => Node(at[k])}
<1>1. 0 \in K
  BY DEF Descends
<1>2. ASSUME NEW k \in Nat, k \in K PROVE k + 1 \in K
  <2> SUFFICES ASSUME k + 1 <= Len(path) PROVE Node(at[k + 1])
    OBVIOUS
  <2>1. k + 1 \in 1 .. Len(path) /\ Node(at[k]) /\ (k + 1) - 1 = k
    BY <1>2 DEF Paths
  <2>2. path[k + 1] \in Segments
    BY <2>1 DEF Paths
  <2>3. at[k + 1] = Down(at[k], path[k + 1])
    BY <2>1 DEF Descends
  <2> QED
    BY <2>1, <2>2, <2>3, DownNode
<1> HIDE DEF K
<1>3. Nat \subseteq K
  BY <1>1, <1>2, SetInduction
<1> QED
  BY <1>3 DEF K, Paths

(* After a segments p goes on like q after b, for n of them.               *)
Alike(p, a, q, b, n) ==
    /\ a \in Nat /\ b \in Nat /\ n \in Nat
    /\ a + n <= Len(p) /\ b + n <= Len(q)
    /\ \A i \in 1 .. n : p[a + i] = q[b + i]

(* Two paths that meet and go on alike lead to the same nodes.             *)
LEMMA DescentMeets ==
  ASSUME NEW at, NEW node, NEW p \in Paths, Descends(at, node, p),
         NEW to, NEW other, NEW q \in Paths, Descends(to, other, q),
         NEW a, NEW b, NEW n, Alike(p, a, q, b, n), at[a] = to[b]
  PROVE  \A i \in 0 .. n : at[a + i] = to[b + i]
<1> USE DEF Alike
<1> DEFINE K == {k \in Nat : k <= n => at[a + k] = to[b + k]}
<1>1. 0 \in K
  OBVIOUS
<1>2. ASSUME NEW k \in Nat, k \in K PROVE k + 1 \in K
  <2> SUFFICES ASSUME k + 1 <= n PROVE at[a + (k + 1)] = to[b + (k + 1)]
    OBVIOUS
  <2>1. /\ a + (k + 1) \in 1 .. Len(p) /\ (a + (k + 1)) - 1 = a + k
        /\ b + (k + 1) \in 1 .. Len(q) /\ (b + (k + 1)) - 1 = b + k
        /\ k + 1 \in 1 .. n
    BY DEF Paths
  <2>2. at[a + k] = to[b + k]
    BY <1>2
  <2>3. at[a + (k + 1)] = Down(at[a + k], p[a + (k + 1)])
    BY <2>1 DEF Descends
  <2>4. to[b + (k + 1)] = Down(to[b + k], q[b + (k + 1)])
    BY <2>1 DEF Descends
  <2>5. p[a + (k + 1)] = q[b + (k + 1)]
    BY <2>1
  <2> QED
    BY <2>2, <2>3, <2>4, <2>5
<1> HIDE DEF K
<1>3. Nat \subseteq K
  BY <1>1, <1>2, SetInduction
<1> QED
  BY <1>3 DEF K

(* A path that is the beginning of another leads to a node on its way.     *)
Begun(p, q) == Len(p) <= Len(q) /\ \A i \in 1 .. Len(p) : p[i] = q[i]

(* What stands at the shorter path is met on the way of the longer one.    *)
LEMMA Along ==
  ASSUME NEW node, Node(node), NEW p \in Paths, NEW q \in Paths, Begun(p, q),
         NEW to, Descends(to, node, q)
  PROVE  At(node, p) = to[Len(p)]
<1> DEFINE at == Descent(node, p)
<1>1. Descends(at, node, p)
  BY DescentUnfolds
<1> HIDE DEF at
<1>2. Len(p) \in Nat /\ Len(p) \in 0 .. Len(p) /\ Len(q) \in Nat
  BY DEF Paths
<1>3. Alike(p, 0, q, 0, Len(p))
  BY <1>2 DEF Begun, Alike
<1>4. at[0] = to[0]
  BY <1>1 DEF Descends
<1>5. \A i \in 0 .. Len(p) : at[0 + i] = to[0 + i]
  BY <1>1, <1>3, <1>4, DescentMeets
<1>6. at[Len(p)] = to[Len(p)]
  BY <1>2, <1>5
<1> QED
  BY <1>6 DEF At, at

(* Where a path leads is a node.                                           *)
LEMMA AtNode ==
  ASSUME NEW node, Node(node), NEW path \in Paths
  PROVE  Node(At(node, path))
<1>1. \A i \in 0 .. Len(path) : Node(Descent(node, path)[i])
  BY DescentUnfolds, DescentNodes
<1>2. Len(path) \in 0 .. Len(path)
  BY DEF Paths
<1> QED
  BY <1>1, <1>2 DEF At

(* What stands at the end of a path stands on everything before.           *)
LEMMA OnTheWay ==
  ASSUME NEW node, Node(node), NEW path \in Paths, NEW at, Descends(at, node, path),
         NEW m \in 0 .. Len(path), at[m] # NoDoc
  PROVE  \A i \in 1 .. m : Exists(at[i - 1], path[i]) /\ IsDoc(at[i - 1])
<1> DEFINE K == {k \in Nat : k <= m => at[m - k] # NoDoc}
<1>1. m \in Nat /\ Len(path) \in Nat
  BY DEF Paths
<1>2. ASSUME NEW i \in 1 .. m, at[i] # NoDoc
      PROVE  Exists(at[i - 1], path[i]) /\ IsDoc(at[i - 1]) /\ at[i - 1] # NoDoc
  <2>1. i \in 1 .. Len(path) /\ i - 1 \in 0 .. Len(path) /\ path[i] \in Segments
    BY <1>1 DEF Paths
  <2>2. Node(at[i - 1])
    BY <2>1, DescentNodes
  <2>3. at[i] = Down(at[i - 1], path[i])
    BY <2>1 DEF Descends
  <2> QED
    BY <1>2, <2>1, <2>2, <2>3, DownNode, NodeTypes
<1>3. 0 \in K
  BY <1>1
<1>4. ASSUME NEW k \in Nat, k \in K PROVE k + 1 \in K
  <2> SUFFICES ASSUME k + 1 <= m PROVE at[m - (k + 1)] # NoDoc
    OBVIOUS
  <2>1. m - k \in 1 .. m /\ (m - k) - 1 = m - (k + 1) /\ at[m - k] # NoDoc
    BY <1>1, <1>4
  <2> QED
    BY <1>2, <2>1
<1> HIDE DEF K
<1>5. Nat \subseteq K
  BY <1>3, <1>4, SetInduction
<1>6. ASSUME NEW i \in 1 .. m PROVE at[i] # NoDoc
  <2>1. m - i \in Nat /\ m - i <= m /\ m - (m - i) = i
    BY <1>1
  <2> QED
    BY <1>5, <2>1 DEF K
<1> QED
  BY <1>2, <1>6

-----------------------------------------------------------------------------
(* Changing a container.                                                   *)

(* A container with a new child has the others as they were.               *)
LEMMA WithChild ==
  ASSUME NEW node, IsDoc(node), NEW seg \in Segments, Settable(node, seg), NEW value, IsDoc(value)
  PROVE  LET new == With(node, seg, value)
         IN  /\ IsDoc(new)
             /\ Content(new) = Content(node)
             /\ Down(new, seg) = value
             /\ \A to \in Segments \ {seg} : Down(new, to) = Down(node, to)
<1> DEFINE new == With(node, seg, value)
<1>1. CASE seg.t = "name"
  <2> DEFINE f == [k \in DOMAIN node.f \cup {seg.k} |-> IF k = seg.k THEN value ELSE node.f[k]]
  <2>1. node.t = "obj" /\ \A k \in DOMAIN node.f : IsDoc(node.f[k])
    BY <1>1, DocParts DEF Settable
  <2>2. new.t = "obj" /\ new.f = f
    BY <1>1 DEF With, Obj
  <2>3. /\ DOMAIN f = DOMAIN node.f \cup {seg.k} /\ f[seg.k] = value
        /\ \A k \in DOMAIN node.f \ {seg.k} : f[k] = node.f[k]
    OBVIOUS
  <2> HIDE DEF f, new
  <2>4. IsDoc(new)
    <3> DEFINE parts == {f[k] : k \in DOMAIN f}
    <3>1. \A doc \in parts : IsDoc(doc)
      BY <2>1, <2>3
    <3>2. PartsIn(new, parts)
      BY <2>2 DEF PartsIn
    <3> HIDE DEF parts
    <3> QED
      BY <3>1, <3>2, DocBuilt
  <2>5. Content(new) = Content(node)
    BY <2>1, <2>2 DEF Content
  <2>6. Down(new, seg) = value
    BY <1>1, <2>2, <2>3 DEF Down, Exists, Child
  <2>7. ASSUME NEW to \in Segments, to # seg PROVE Down(new, to) = Down(node, to)
    <3>1. CASE to.t = "name"
      <4>1. to.k # seg.k
        BY <1>1, <2>7, <3>1 DEF Segments
      <4> QED
        BY <2>1, <2>2, <2>3, <3>1, <4>1 DEF Down, Exists, Child
    <3>2. CASE to.t # "name"
      BY <2>1, <2>2, <3>2 DEF Down, Exists
    <3> QED
      BY <3>1, <3>2
  <2> QED
    BY <2>4, <2>5, <2>6, <2>7 DEF new
<1>2. CASE seg.t = "index"
  <2> DEFINE s == [i \in DOMAIN node.s \cup {seg.n + 1} |-> IF i = seg.n + 1 THEN value ELSE node.s[i]]
             n == seg.n + 1
  <2>1. /\ node.t = "arr" /\ Len(node.s) \in Nat /\ DOMAIN node.s = 1 .. Len(node.s)
        /\ \A i \in DOMAIN node.s : IsDoc(node.s[i])
        /\ n \in 1 .. Len(node.s) + 1
    <3>1. node.t = "arr" /\ seg.n \in 0 .. Len(node.s)
      BY <1>2 DEF Settable
    <3>2. \A m \in Nat : seg.n \in 0 .. m => n \in 1 .. m + 1
      OBVIOUS
    <3> HIDE DEF n
    <3> QED
      BY <3>1, <3>2, DocParts
  <2>2. new.t = "arr" /\ new.s = s
    BY <1>2 DEF With, Arr
  <2>3. /\ DOMAIN s = DOMAIN node.s \cup {n} /\ s[n] = value
        /\ \A i \in DOMAIN node.s \ {n} : s[i] = node.s[i]
    OBVIOUS
  <2>4. \E m \in Nat : DOMAIN s = 1 .. m /\ s = [i \in 1 .. m |-> s[i]]
    <3>1. CASE n \in 1 .. Len(node.s)
      <4>1. DOMAIN s = 1 .. Len(node.s)
        BY <2>1, <2>3, <3>1
      <4> QED
        BY <2>1, <4>1
    <3>2. CASE n = Len(node.s) + 1
      <4>1. DOMAIN s = 1 .. Len(node.s) + 1
        BY <2>1, <2>3, <3>2
      <4> QED
        BY <2>1, <4>1
    <3> QED
      BY <2>1, <3>1, <3>2
  <2> HIDE DEF s, new
  <2>5. IsDoc(new)
    <3> DEFINE parts == {s[i] : i \in DOMAIN s}
    <3>1. \A doc \in parts : IsDoc(doc)
      BY <2>1, <2>3
    <3>2. s \in Seq(parts)
      BY <2>4
    <3>3. PartsIn(new, parts)
      BY <2>2, <3>2 DEF PartsIn
    <3> HIDE DEF parts
    <3> QED
      BY <3>1, <3>3, DocBuilt
  <2>6. Content(new) = Content(node)
    BY <2>1, <2>2 DEF Content
  <2>7. Down(new, seg) = value
    BY <1>2, <2>2, <2>3 DEF Down, Exists, Child
  <2>8. ASSUME NEW to \in Segments, to # seg PROVE Down(new, to) = Down(node, to)
    <3>1. CASE to.t = "index"
      <4>1. to.n + 1 # n
        BY <1>2, <2>8, <3>1 DEF Segments
      <4> QED
        BY <2>1, <2>2, <2>3, <3>1, <4>1 DEF Down, Exists, Child
    <3>2. CASE to.t # "index"
      BY <2>1, <2>2, <3>2 DEF Down, Exists
    <3> QED
      BY <3>1, <3>2
  <2> QED
    BY <2>5, <2>6, <2>7, <2>8 DEF new
<1> QED
  BY <1>1, <1>2 DEF Segments

(* One sequence after another.                                             *)
LEMMA Joined ==
  ASSUME NEW S, NEW f \in Seq(S), NEW g \in Seq(S)
  PROVE  /\ f \o g \in Seq(S)
         /\ Len(f \o g) = Len(f) + Len(g)
         /\ \A j \in 1 .. Len(f) + Len(g) :
              (f \o g)[j] = IF j <= Len(f) THEN f[j] ELSE g[j - Len(f)]
  OBVIOUS

(* A sequence without one of its elements.                                 *)
LEMMA Removal ==
  ASSUME NEW S, NEW s \in Seq(S), NEW i \in 1 .. Len(s)
  PROVE  /\ RemoveAt(s, i) \in Seq(S)
         /\ Len(RemoveAt(s, i)) = Len(s) - 1
         /\ \A j \in 1 .. Len(s) - 1 : RemoveAt(s, i)[j] = IF j < i THEN s[j] ELSE s[j + 1]
<1> DEFINE front == SubSeq(s, 1, i - 1)
           back == SubSeq(s, i + 1, Len(s))
<1>1. Len(s) \in Nat
  OBVIOUS
<1>2. front \in Seq(S) /\ Len(front) = i - 1 /\ \A j \in 1 .. i - 1 : front[j] = s[j]
  BY <1>1
<1>3. back \in Seq(S) /\ Len(back) = Len(s) - i /\ \A j \in 1 .. Len(s) - i : back[j] = s[i + j]
  BY <1>1
<1>4. RemoveAt(s, i) = front \o back
  BY DEF RemoveAt
<1> HIDE DEF front, back
<1>5. (i - 1) + (Len(s) - i) = Len(s) - 1
  BY <1>1
<1>6. /\ front \o back \in Seq(S) /\ Len(front \o back) = Len(s) - 1
      /\ \A j \in 1 .. Len(s) - 1 :
           (front \o back)[j] = IF j <= i - 1 THEN front[j] ELSE back[j - (i - 1)]
  <2>1. /\ front \o back \in Seq(S) /\ Len(front \o back) = Len(front) + Len(back)
        /\ \A j \in 1 .. Len(front) + Len(back) :
             (front \o back)[j] = IF j <= Len(front) THEN front[j] ELSE back[j - Len(front)]
    BY <1>2, <1>3, Joined, Zenon
  <2> QED
    BY <1>2, <1>3, <1>5, <2>1
<1>7. ASSUME NEW j \in 1 .. Len(s) - 1
      PROVE  (front \o back)[j] = IF j < i THEN s[j] ELSE s[j + 1]
  <2>1. CASE j < i
    <3>1. j \in 1 .. i - 1
      BY <1>1, <2>1
    <3> QED
      BY <1>2, <1>6, <2>1, <3>1
  <2>2. CASE ~(j < i)
    <3>1. j - (i - 1) \in 1 .. Len(s) - i /\ i + (j - (i - 1)) = j + 1 /\ ~(j <= i - 1)
      BY <1>1, <2>2
    <3>2. (front \o back)[j] = back[j - (i - 1)]
      BY <1>6, <3>1
    <3> QED
      BY <1>3, <2>2, <3>1, <3>2
  <2> QED
    BY <2>1, <2>2
<1> QED
  BY <1>4, <1>6, <1>7

(* Which places move when the one at seg is removed.                       *)
Shifts(seg, to) == seg.t = "index" /\ to.t = "index" /\ to.n >= seg.n

(* A container without a child has the others, those behind it one place   *)
(* before.                                                                 *)
LEMMA WithoutChild ==
  ASSUME NEW node, IsDoc(node), NEW seg \in Segments, Exists(node, seg)
  PROVE  LET new == Without(node, seg)
         IN  /\ IsDoc(new)
             /\ Content(new) = Content(node)
             /\ \A to \in Segments :
                  Down(new, to) = IF Shifts(seg, to) THEN Down(node, Index(to.n + 1))
                                  ELSE IF to = seg THEN NoDoc ELSE Down(node, to)
<1> DEFINE new == Without(node, seg)
           Then(to) == IF Shifts(seg, to) THEN Down(node, Index(to.n + 1))
                       ELSE IF to = seg THEN NoDoc ELSE Down(node, to)
<1>1. CASE seg.t = "name"
  <2> DEFINE f == [k \in DOMAIN node.f \ {seg.k} |-> node.f[k]]
  <2>1. node.t = "obj" /\ \A k \in DOMAIN node.f : IsDoc(node.f[k])
    BY <1>1, DocParts DEF Exists
  <2>2. new.t = "obj" /\ new.f = f
    BY <1>1 DEF Without, Obj
  <2>3. DOMAIN f = DOMAIN node.f \ {seg.k} /\ \A k \in DOMAIN node.f \ {seg.k} : f[k] = node.f[k]
    OBVIOUS
  <2> HIDE DEF f, new
  <2>4. IsDoc(new)
    <3> DEFINE parts == {f[k] : k \in DOMAIN f}
    <3>1. \A doc \in parts : IsDoc(doc)
      BY <2>1, <2>3
    <3>2. PartsIn(new, parts)
      BY <2>2 DEF PartsIn
    <3> HIDE DEF parts
    <3> QED
      BY <3>1, <3>2, DocBuilt
  <2>5. Content(new) = Content(node)
    BY <2>1, <2>2 DEF Content
  <2>6. ASSUME NEW to \in Segments PROVE Down(new, to) = Then(to)
    <3>0. ~Shifts(seg, to)
      BY <1>1 DEF Shifts
    <3>1. CASE to = seg
      BY <1>1, <2>2, <2>3, <3>0, <3>1 DEF Down, Exists
    <3>2. CASE to # seg /\ to.t = "name"
      <4>1. to.k # seg.k
        BY <1>1, <3>2 DEF Segments
      <4> QED
        BY <2>1, <2>2, <2>3, <3>0, <3>2, <4>1 DEF Down, Exists, Child
    <3>3. CASE to.t # "name"
      BY <1>1, <2>1, <2>2, <3>0, <3>3 DEF Down, Exists
    <3> QED
      BY <3>1, <3>2, <3>3
  <2> QED
    BY <2>4, <2>5, <2>6 DEF new
<1>2. CASE seg.t = "index"
  <2> DEFINE s == RemoveAt(node.s, seg.n + 1)
             n == seg.n + 1
             S == {node.s[i] : i \in DOMAIN node.s}
  <2>1. /\ node.t = "arr" /\ Len(node.s) \in Nat /\ DOMAIN node.s = 1 .. Len(node.s)
        /\ node.s \in Seq(S) /\ \A i \in DOMAIN node.s : IsDoc(node.s[i])
    BY <1>2, DocParts DEF Exists
  <2>2. n \in 1 .. Len(node.s) /\ n \in Int /\ seg.n \in Int /\ seg.n = n - 1
    BY <1>2, <2>1 DEF Exists, Segments
  <2>3. new.t = "arr" /\ new.s = s
    BY <1>2 DEF Without, Arr
  <2>4. /\ s \in Seq(S)
        /\ Len(s) = Len(node.s) - 1
        /\ \A j \in 1 .. Len(node.s) - 1 : s[j] = IF j < n THEN node.s[j] ELSE node.s[j + 1]
    <3> HIDE DEF S
    <3> QED
      BY <2>1, <2>2, Removal
  <2>5. DOMAIN s = 1 .. Len(node.s) - 1
    BY <2>4
  <2> HIDE DEF s, new
  <2>6. IsDoc(new)
    <3>1. \A doc \in S : IsDoc(doc)
      BY <2>1
    <3>2. PartsIn(new, S)
      BY <2>3, <2>4 DEF PartsIn
    <3> HIDE DEF S
    <3> QED
      BY <3>1, <3>2, DocBuilt
  <2>7. Content(new) = Content(node)
    BY <2>1, <2>3 DEF Content
  <2> HIDE DEF n, S
  <2>8. ASSUME NEW to \in Segments PROVE Down(new, to) = Then(to)
    <3>1. CASE to.t # "index"
      BY <1>2, <2>1, <2>3, <3>1 DEF Down, Exists, Shifts
    <3>2. CASE to.t = "index"
      <4> DEFINE m == to.n + 1
      <4>1. to.n \in Int /\ m \in Int /\ to.n = m - 1
        BY <3>2 DEF Segments
      <4>2. Shifts(seg, to) <=> m >= n
        BY <1>2, <2>2, <3>2, <4>1 DEF Shifts
      <4>3. Down(new, to) = IF m \in 1 .. Len(node.s) - 1 THEN s[m] ELSE NoDoc
        BY <2>3, <2>5, <3>2 DEF Down, Exists, Child
      <4>4. Down(node, to) = IF m \in 1 .. Len(node.s) THEN node.s[m] ELSE NoDoc
        BY <2>1, <3>2 DEF Down, Exists, Child
      <4>5. Down(node, Index(to.n + 1)) = IF m + 1 \in 1 .. Len(node.s) THEN node.s[m + 1] ELSE NoDoc
        BY <2>1 DEF Down, Exists, Child, Index
      <4> HIDE DEF m
      <4>6. CASE m >= n
        <5>1. m \in 1 .. Len(node.s) - 1 <=> m + 1 \in 1 .. Len(node.s)
          BY <2>1, <2>2, <4>1, <4>6
        <5>2. m \in 1 .. Len(node.s) - 1 => s[m] = node.s[m + 1]
          <6>1. ~(m < n)
            BY <2>2, <4>1, <4>6
          <6> QED
            BY <2>4, <6>1
        <5> QED
          BY <4>2, <4>3, <4>5, <4>6, <5>1, <5>2
      <4>7. CASE m < n
        <5>1. m \in 1 .. Len(node.s) - 1 <=> m \in 1 .. Len(node.s)
          BY <2>1, <2>2, <4>1, <4>7
        <5>2. m \in 1 .. Len(node.s) - 1 => s[m] = node.s[m]
          BY <2>2, <2>4, <4>1, <4>7
        <5>3. to # seg /\ ~Shifts(seg, to)
          BY <2>2, <4>1, <4>2, <4>7
        <5> QED
          BY <4>3, <4>4, <5>1, <5>2, <5>3
      <4> QED
        BY <2>2, <4>1, <4>6, <4>7
    <3> QED
      BY <3>1, <3>2
  <2> QED
    BY <2>6, <2>7, <2>8 DEF new
<1> QED
  BY <1>1, <1>2 DEF Segments

-----------------------------------------------------------------------------
(* Changing a document at a path.                                          *)

(* up[i] is the new node i segments down the path: the leaf at its end,    *)
(* and every container above with its changed child.                       *)
Rises(up, at, path, leaf) ==
    /\ up[Len(path)] = leaf
    /\ \A i \in 1 .. Len(path) : up[i - 1] = With(at[i - 1], path[i], up[i])

(* A rebuilt document is what its definition says.                         *)
LEMMA RebuiltUnfolds ==
  ASSUME NEW node, NEW path \in Paths, NEW leaf
  PROVE  \E up : Rises(up, Descent(node, path), path, leaf) /\ up[0] = Rebuilt(node, path, leaf)
<1> DEFINE n == Len(path)
           at == Descent(node, path)
           Over(f, i) == With(at[n - i], path[n - i + 1], f[i - 1])
           Upto(k, f) == f[0] = leaf /\ \A i \in 1 .. k : f[i] = Over(f, i)
           Def(f, i) == IF i = 0 THEN leaf ELSE Over(f, i)
           K == {k \in Nat : \E f : Upto(k, f)}
<1>1. n \in Nat
  BY DEF Paths
<1> HIDE DEF n, at
<1>2. 0 \in K
  <2>1. Upto(0, [i \in 0 .. 0 |-> leaf])
    OBVIOUS
  <2> HIDE DEF Upto
  <2> QED
    BY <2>1
<1>3. ASSUME NEW k \in Nat, k \in K PROVE k + 1 \in K
  <2>1. PICK f : Upto(k, f)
    BY <1>3
  <2> DEFINE next == With(at[n - (k + 1)], path[n - (k + 1) + 1], f[k])
             g == [i \in 0 .. k + 1 |-> IF i = k + 1 THEN next ELSE f[i]]
  <2>2. g[0] = leaf /\ g[k + 1] = next /\ \A i \in 0 .. k : g[i] = f[i]
    BY <2>1
  <2> HIDE DEF g
  <2>3. ASSUME NEW i \in 1 .. k + 1 PROVE g[i] = Over(g, i)
    <3>1. CASE i = k + 1
      <4>1. i - 1 = k /\ g[k] = f[k]
        BY <2>2, <3>1
      <4> QED
        BY <2>2, <3>1, <4>1
    <3>2. CASE i # k + 1
      <4>1. i \in 1 .. k /\ i \in 0 .. k /\ i - 1 \in 0 .. k
        BY <3>2
      <4> QED
        BY <2>1, <2>2, <4>1
    <3> QED
      BY <3>1, <3>2
  <2>4. Upto(k + 1, g)
    BY <2>2, <2>3
  <2> HIDE DEF Upto
  <2> QED
    BY <2>4
<1>4. n \in K
  <2> HIDE DEF K
  <2> QED
    BY <1>1, <1>2, <1>3, SetInduction
<1>5. PICK f : Upto(n, f)
  BY <1>4
<1> DEFINE h == [i \in 0 .. n |-> f[i]]
<1>6. h = [i \in 0 .. n |-> Def(h, i)]
  <2>1. \A i \in 0 .. n : h[i] = f[i]
    OBVIOUS
  <2>2. h = [i \in 0 .. n |-> h[i]]
    OBVIOUS
  <2> HIDE DEF h
  <2>3. ASSUME NEW i \in 0 .. n PROVE h[i] = Def(h, i)
    <3>1. CASE i = 0
      BY <1>1, <1>5, <2>1, <3>1
    <3>2. CASE i # 0
      <4>1. i \in 1 .. n /\ i - 1 \in 0 .. n
        BY <1>1, <3>2
      <4> QED
        BY <1>5, <2>1, <3>2, <4>1
    <3> QED
      BY <3>1, <3>2
  <2> HIDE DEF Def
  <2> QED
    BY <2>2, <2>3
<1> DEFINE r == CHOOSE g : g = [i \in 0 .. n |-> Def(g, i)]
<1>7. Rebuilt(node, path, leaf) = r[n]
  BY DEF Rebuilt, n, at
<1>8. r = [i \in 0 .. n |-> Def(r, i)]
  BY <1>6, Zenon
<1> HIDE DEF r, h
<1>9. \A i \in 0 .. n : r[i] = Def(r, i)
  <2> HIDE DEF Def
  <2> QED
    BY <1>8
<1> DEFINE up == [i \in 0 .. n |-> r[n - i]]
<1>10. \A i \in 0 .. n : up[i] = r[n - i]
  OBVIOUS
<1> HIDE DEF up
<1>11. up[n] = leaf
  <2>1. n \in 0 .. n /\ n - n = 0 /\ 0 \in 0 .. n
    BY <1>1
  <2> QED
    BY <1>9, <1>10, <2>1
<1>12. up[0] = r[n]
  <2>1. 0 \in 0 .. n /\ n - 0 = n
    BY <1>1
  <2> QED
    BY <1>10, <2>1
<1>13. ASSUME NEW i \in 1 .. n PROVE up[i - 1] = With(at[i - 1], path[i], up[i])
  <2> DEFINE j == n - (i - 1)
  <2>1. /\ i - 1 \in 0 .. n /\ i \in 0 .. n /\ j \in 0 .. n /\ j # 0
        /\ n - j = i - 1 /\ n - j + 1 = i /\ j - 1 = n - i
    BY <1>1
  <2>2. up[i - 1] = r[j] /\ up[i] = r[j - 1]
    BY <1>10, <2>1
  <2>3. r[j] = Over(r, j)
    BY <1>9, <2>1
  <2> HIDE DEF j
  <2> QED
    BY <2>1, <2>2, <2>3
<1>14. Rises(up, at, path, leaf) /\ up[0] = Rebuilt(node, path, leaf)
  BY <1>7, <1>11, <1>12, <1>13 DEF Rises, n
<1> QED
  BY <1>14 DEF at

(* Every container on the way to the end of the path can take the child.   *)
MayRebuild(at, path) ==
    \A i \in 1 .. Len(path) : IsDoc(at[i - 1]) /\ Settable(at[i - 1], path[i])

(* The new nodes are documents; beside the path they hold what the old     *)
(* ones held.                                                              *)
Through(up, at, path) ==
    /\ \A i \in 0 .. Len(path) : IsDoc(up[i])
    /\ Descends(up, up[0], path)
    /\ \A i \in 1 .. Len(path) :
         /\ Content(up[i - 1]) = Content(at[i - 1])
         /\ \A seg \in Segments \ {path[i]} : Down(up[i - 1], seg) = Down(at[i - 1], seg)

(* On the way back only the children on the path change.                   *)
LEMMA RisesThrough ==
  ASSUME NEW node, NEW path \in Paths, NEW at, Descends(at, node, path), MayRebuild(at, path),
         NEW leaf, IsDoc(leaf), NEW up, Rises(up, at, path, leaf)
  PROVE  Through(up, at, path)
<1> DEFINE n == Len(path)
           K == {k \in Nat : k <= n => IsDoc(up[n - k])}
<1>1. n \in Nat /\ \A i \in 1 .. n : path[i] \in Segments
  BY DEF Paths
<1>2. /\ up[n] = leaf
      /\ \A i \in 1 .. n : up[i - 1] = With(at[i - 1], path[i], up[i])
  BY DEF Rises
<1>3. \A i \in 1 .. n : IsDoc(at[i - 1]) /\ Settable(at[i - 1], path[i])
  BY DEF MayRebuild
<1> HIDE DEF n
<1>4. ASSUME NEW i \in 1 .. n, IsDoc(up[i])
      PROVE  /\ IsDoc(up[i - 1])
             /\ Content(up[i - 1]) = Content(at[i - 1])
             /\ Down(up[i - 1], path[i]) = up[i]
             /\ \A to \in Segments \ {path[i]} : Down(up[i - 1], to) = Down(at[i - 1], to)
  BY <1>1, <1>2, <1>3, <1>4, WithChild
<1>5. 0 \in K
  BY <1>1, <1>2
<1>6. ASSUME NEW k \in Nat, k \in K PROVE k + 1 \in K
  <2> SUFFICES ASSUME k + 1 <= n PROVE IsDoc(up[n - (k + 1)])
    OBVIOUS
  <2>1. n - k \in 1 .. n /\ (n - k) - 1 = n - (k + 1) /\ IsDoc(up[n - k])
    BY <1>1, <1>6
  <2>2. IsDoc(up[(n - k) - 1])
    BY <1>4, <2>1
  <2> QED
    BY <2>1, <2>2
<1>7. Nat \subseteq K
  <2> HIDE DEF K
  <2> QED
    BY <1>5, <1>6, SetInduction
<1>8. ASSUME NEW i \in 0 .. n PROVE IsDoc(up[i])
  <2>1. n - i \in Nat /\ n - i <= n /\ n - (n - i) = i
    BY <1>1
  <2> QED
    BY <1>7, <2>1
<1> HIDE DEF K
<1>9. \A i \in 1 .. n : i \in 0 .. n
  BY <1>1
<1> QED
  BY <1>4, <1>8, <1>9 DEF Through, Descends, n

(* What is left of a path after its beginning.                             *)
LEMMA RestIs ==
  ASSUME NEW q \in Paths, NEW n \in 0 .. Len(q)
  PROVE  /\ Rest(q, n) \in Paths
         /\ Len(Rest(q, n)) = Len(q) - n
         /\ \A i \in 1 .. Len(q) - n : Rest(q, n)[i] = q[n + i]
  BY DEF Paths, Rest

(* Below the end of the path stands what is in the leaf, elsewhere what    *)
(* was there.                                                              *)
LEMMA RebuiltStands ==
  ASSUME NEW node, IsDoc(node), NEW path \in Paths, NEW leaf, IsDoc(leaf),
         MayRebuild(Descent(node, path), path), NEW q \in Paths
  PROVE  LET new == Rebuilt(node, path, leaf)
         IN  /\ IsDoc(new)
             /\ Content(At(new, q)) = IF Begun(path, q) THEN Content(At(leaf, Rest(q, Len(path))))
                                      ELSE Content(At(node, q))
<1> DEFINE new == Rebuilt(node, path, leaf)
           at == Descent(node, path)
           old == Descent(node, q)
           to == Descent(new, q)
           n == Len(path)
           m == Len(q)
<1>1. n \in Nat /\ m \in Nat /\ \A i \in 1 .. m : q[i] \in Segments
  BY DEF Paths
<1>2. PICK up : Rises(up, at, path, leaf) /\ up[0] = new
  BY RebuiltUnfolds
<1>3. Descends(at, node, path) /\ Descends(old, node, q)
  BY DescentUnfolds DEF Node
<1>4. /\ \A i \in 0 .. n : IsDoc(up[i])
      /\ Descends(up, new, path)
      /\ \A i \in 1 .. n :
           /\ Content(up[i - 1]) = Content(at[i - 1])
           /\ \A seg \in Segments \ {path[i]} : Down(up[i - 1], seg) = Down(at[i - 1], seg)
  <2>1. MayRebuild(at, path)
    OBVIOUS
  <2> HIDE DEF new, at
  <2>2. Through(up, at, path)
    BY <1>2, <1>3, <2>1, RisesThrough
  <2> QED
    BY <1>2, <2>2 DEF Through
<1>5. IsDoc(new)
  BY <1>1, <1>2, <1>4
<1> HIDE DEF new, at
<1>6. Descends(to, new, q)
  BY <1>5, DescentUnfolds DEF Node
<1>7. At(new, q) = to[m] /\ At(node, q) = old[m]
  BY DEF At
<1> HIDE DEF to, old, n, m
<1>8. ASSUME NEW k \in 0 .. n, k <= m, \A i \in 1 .. k : path[i] = q[i]
      PROVE  to[k] = up[k] /\ old[k] = at[k]
  <2>1. Alike(path, 0, q, 0, k)
    BY <1>1, <1>8 DEF Alike, n, m
  <2>2. up[0] = to[0] /\ at[0] = old[0]
    BY <1>3, <1>4, <1>6 DEF Descends
  <2>3. \A i \in 0 .. k : up[0 + i] = to[0 + i]
    BY <1>4, <1>6, <2>1, <2>2, DescentMeets
  <2>4. \A i \in 0 .. k : at[0 + i] = old[0 + i]
    BY <1>3, <2>1, <2>2, DescentMeets
  <2>5. k \in 0 .. k /\ 0 + k = k
    BY <1>1
  <2> QED
    BY <2>3, <2>4, <2>5
<1>9. CASE Begun(path, q)
  <2> DEFINE rest == Rest(q, n)
             in == Descent(leaf, rest)
  <2>1. n \in 0 .. m /\ n \in 0 .. n /\ \A i \in 1 .. n : path[i] = q[i]
    BY <1>1, <1>9 DEF Begun, n, m
  <2>2. rest \in Paths /\ Len(rest) = m - n /\ \A i \in 1 .. m - n : rest[i] = q[n + i]
    BY <2>1, RestIs DEF m
  <2>3. Descends(in, leaf, rest)
    BY <2>2, DescentUnfolds DEF Node
  <2>4. At(leaf, rest) = in[m - n]
    BY <2>2 DEF At
  <2> HIDE DEF rest, in
  <2>5. to[n] = leaf
    BY <1>1, <1>2, <1>8, <2>1 DEF Rises, n
  <2>6. in[0] = leaf
    BY <2>3 DEF Descends
  <2>7. Alike(q, n, rest, 0, m - n)
    BY <1>1, <2>1, <2>2 DEF Alike, m
  <2>8. \A i \in 0 .. m - n : to[n + i] = in[0 + i]
    BY <1>6, <2>2, <2>3, <2>5, <2>6, <2>7, DescentMeets
  <2>9. m - n \in 0 .. m - n /\ n + (m - n) = m /\ 0 + (m - n) = m - n
    BY <1>1, <2>1
  <2>10. to[m] = in[m - n]
    BY <2>8, <2>9
  <2> QED
    BY <1>5, <1>7, <1>9, <2>4, <2>10 DEF new, rest, n
<1>10. CASE ~Begun(path, q) /\ Begun(q, path)
  <2>1. m \in 0 .. n /\ m <= m /\ \A i \in 1 .. m : path[i] = q[i]
    BY <1>1, <1>10 DEF Begun, n, m
  <2>2. m # n
    BY <1>1, <1>10, <2>1 DEF Begun, n, m
  <2>3. m + 1 \in 1 .. n /\ (m + 1) - 1 = m
    BY <1>1, <2>1, <2>2
  <2>4. Content(up[m]) = Content(at[m])
    BY <1>4, <2>3
  <2>5. to[m] = up[m] /\ old[m] = at[m]
    BY <1>8, <2>1
  <2> QED
    BY <1>5, <1>7, <1>10, <2>4, <2>5 DEF new
<1>11. CASE ~Begun(path, q) /\ ~Begun(q, path)
  <2> DEFINE D == {i \in Nat : i \in 1 .. n /\ i <= m /\ path[i] # q[i]}
  <2>1. D # {}
    <3>1. CASE n <= m
      BY <1>1, <1>11, <3>1 DEF Begun, n, m
    <3>2. CASE m <= n
      BY <1>1, <1>11, <3>2 DEF Begun, n, m
    <3> QED
      BY <1>1, <3>1, <3>2
  <2>2. PICK d \in D : \A i \in D : d <= i
    <3> HIDE DEF D
    <3>1. D \subseteq Nat
      BY DEF D
    <3> QED
      BY <2>1, <3>1, Least
  <2>3. d \in 1 .. n /\ d \in 1 .. m /\ d - 1 \in 0 .. n /\ d - 1 <= m /\ path[d] # q[d]
    BY <1>1, <2>2
  <2>4. \A i \in 1 .. d - 1 : path[i] = q[i]
    BY <1>1, <2>2
  <2>5. to[d - 1] = up[d - 1] /\ old[d - 1] = at[d - 1]
    BY <1>8, <2>3, <2>4
  <2>6. to[d] = Down(up[d - 1], q[d])
    BY <1>6, <2>3, <2>5 DEF Descends, m
  <2>7. old[d] = Down(at[d - 1], q[d])
    BY <1>3, <2>3, <2>5 DEF Descends, m
  <2>8. to[d] = old[d]
    BY <1>1, <1>4, <2>3, <2>6, <2>7
  <2>9. Alike(q, d, q, d, m - d)
    BY <1>1, <2>3 DEF Alike, m
  <2>10. \A i \in 0 .. m - d : to[d + i] = old[d + i]
    BY <1>3, <1>6, <2>8, <2>9, DescentMeets
  <2>11. m - d \in 0 .. m - d /\ d + (m - d) = m
    BY <1>1, <2>3
  <2>12. to[m] = old[m]
    BY <2>10, <2>11
  <2> QED
    BY <1>5, <1>7, <1>11, <2>12 DEF new
<1> QED
  BY <1>9, <1>10, <1>11

-----------------------------------------------------------------------------
(* What a removal and a setting make of the flat document.                 *)

(* The content of a node has its type.                                     *)
LEMMA ContentKind ==
  ASSUME NEW node PROVE Content(node).t = node.t
  BY DEF Content

(* Sequences that agree are the same.                                      *)
LEMMA SameSequence ==
  ASSUME NEW S, NEW f \in Seq(S), NEW g \in Seq(S), Len(f) = Len(g),
         \A i \in 1 .. Len(f) : f[i] = g[i]
  PROVE  f = g
<1>1. ASSUME NEW h \in Seq(S) PROVE h = [i \in 1 .. Len(h) |-> h[i]]
  <2>1. PICK k \in Nat : h \in [1 .. k -> S]
    OBVIOUS
  <2> QED
    BY <2>1
<1>2. [i \in 1 .. Len(f) |-> f[i]] = [i \in 1 .. Len(g) |-> g[i]]
  OBVIOUS
<1> QED
  BY <1>1, <1>2

(* Being a prefix, segment by segment.                                     *)
LEMMA PrefixBegins ==
  ASSUME NEW p \in Paths, NEW q \in Paths
  PROVE  IsPrefix(p, q) <=> Begun(p, q)
<1> DEFINE n == Len(p)
<1>1. n \in Nat /\ Len(q) \in Nat
  BY DEF Paths
<1>2. CASE n <= Len(q)
  <2>1. SubSeq(p, 1, n) \in Paths /\ Len(SubSeq(p, 1, n)) = n
        /\ \A i \in 1 .. n : SubSeq(p, 1, n)[i] = p[i]
    BY <1>1 DEF Paths
  <2>2. SubSeq(q, 1, n) \in Paths /\ Len(SubSeq(q, 1, n)) = n
        /\ \A i \in 1 .. n : SubSeq(q, 1, n)[i] = q[i]
    BY <1>1, <1>2 DEF Paths
  <2>3. SubSeq(p, 1, n) = SubSeq(q, 1, n) <=> \A i \in 1 .. n : SubSeq(p, 1, n)[i] = SubSeq(q, 1, n)[i]
    BY <2>1, <2>2, SameSequence DEF Paths
  <2> QED
    BY <1>2, <2>1, <2>2, <2>3 DEF IsPrefix, Begun
<1>3. CASE ~(n <= Len(q))
  BY <1>3 DEF IsPrefix, Begun
<1> QED
  BY <1>2, <1>3

(* The container of the last segment of a path.                            *)
LEMMA Parent ==
  ASSUME NEW path \in Paths \ {<<>>}
  PROVE  /\ Front(path) \in Paths /\ Len(Front(path)) = Len(path) - 1
         /\ Len(path) \in Nat \ {0}
         /\ Begun(Front(path), path)
         /\ Last(path) = path[Len(path)] /\ Last(path) \in Segments
<1>1. path \in Seq(Segments) /\ Len(path) \in Nat \ {0}
  BY DEF Paths
<1>2. Front(path) \in Seq(Segments) /\ Len(Front(path)) = Len(path) - 1
      /\ \A i \in 1 .. Len(path) - 1 : Front(path)[i] = path[i]
  <2>1. ASSUME NEW S, NEW s \in Seq(S), NEW n \in Nat, n <= Len(s)
        PROVE  /\ SubSeq(s, 1, n) \in Seq(S) /\ Len(SubSeq(s, 1, n)) = n
               /\ \A i \in 1 .. n : SubSeq(s, 1, n)[i] = s[i]
    BY <2>1
  <2>2. Len(path) - 1 \in Nat /\ Len(path) - 1 <= Len(path)
    BY <1>1
  <2> QED
    BY <1>1, <2>1, <2>2, Zenon DEF Front
<1>3. Last(path) = path[Len(path)] /\ path[Len(path)] \in Segments
  BY <1>1 DEF Last
<1> QED
  BY <1>1, <1>2, <1>3 DEF Paths, Begun

(* The last step down a path.                                              *)
LEMMA LastStep ==
  ASSUME NEW node, Node(node), NEW p \in Paths, NEW q \in Paths, Begun(p, q), Len(q) = Len(p) + 1
  PROVE  At(node, q) = Down(At(node, p), q[Len(q)])
<1>1. Descends(Descent(node, q), node, q)
  BY DescentUnfolds
<1>2. At(node, p) = Descent(node, q)[Len(p)]
  BY <1>1, Along
<1>3. Len(q) \in 1 .. Len(q) /\ Len(q) - 1 = Len(p)
  BY DEF Paths
<1> QED
  BY <1>1, <1>2, <1>3 DEF Descends, At

(* An existing child may be set.                                           *)
LEMMA ExistingSettable ==
  ASSUME NEW node, IsDoc(node), NEW seg \in Segments, Exists(node, seg)
  PROVE  Settable(node, seg)
<1>1. CASE seg.t = "name"
  BY <1>1 DEF Exists, Settable
<1>2. CASE seg.t = "index"
  <2>1. node.t = "arr" /\ seg.n \in Int /\ seg.n + 1 \in 1 .. Len(node.s) /\ Len(node.s) \in Nat
    BY <1>2, DocParts DEF Exists, Segments
  <2>2. seg.n \in 0 .. Len(node.s)
    BY <2>1
  <2> QED
    BY <1>2, <2>1, <2>2 DEF Settable
<1> QED
  BY <1>1, <1>2 DEF Segments

(* The containers above something that is there can be rebuilt.            *)
LEMMA WayUp ==
  ASSUME NEW doc, Node(doc), NEW path \in Paths, NEW at, Descends(at, doc, path),
         NEW m \in 0 .. Len(path), at[m] # NoDoc
  PROVE  \A i \in 1 .. m : IsDoc(at[i - 1]) /\ Settable(at[i - 1], path[i])
<1>1. \A i \in 1 .. m : Exists(at[i - 1], path[i]) /\ IsDoc(at[i - 1])
  BY OnTheWay
<1>2. \A i \in 1 .. m : path[i] \in Segments
  BY DEF Paths
<1> QED
  BY <1>1, <1>2, ExistingSettable

(* In an error there is nothing.                                           *)
LEMMA NothingThere ==
  ASSUME NEW path \in Paths
  PROVE  Content(At(NoDoc, path)) = NoDoc
<1> DEFINE at == Descent(NoDoc, path)
           m == Len(path)
<1>1. Descends(at, NoDoc, path) /\ Node(NoDoc) /\ m \in 0 .. m
  BY DescentUnfolds DEF Node, Paths
<1>2. at[m] = NoDoc
  <2>1. CASE m = 0
    BY <1>1, <2>1 DEF Descends
  <2>2. CASE m # 0
    <3>1. 1 \in 1 .. m
      BY <1>1, <2>2
    <3>2. at[m] # NoDoc => IsDoc(at[1 - 1])
      <4> HIDE DEF at
      <4> QED
        BY <1>1, <3>1, OnTheWay
    <3>3. at[1 - 1] = NoDoc
      BY <1>1 DEF Descends
    <3> QED
      BY <1>1, <3>2, <3>3, NodeTypes
  <2> QED
    BY <2>1, <2>2
<1>3. Content(NoDoc) = NoDoc
  BY DEF Content, NoDoc
<1> QED
  BY <1>2, <1>3 DEF At

(* A path may be set exactly if the flat document says so.                 *)
LEMMA MayBeSet ==
  ASSUME NEW doc, Node(doc), NEW path \in Paths \ {<<>>}
  PROVE  MayStand(Flat(doc), path) <=> Settable(At(doc, Front(path)), Last(path))
<1> DEFINE parent == Front(path)
           seg == Last(path)
           node == At(doc, parent)
           flat == Flat(doc)
<1>1. parent \in Paths /\ seg \in Segments
  BY Parent
<1>2. Node(node)
  BY <1>1, AtNode
<1>3. flat[parent].t = node.t
  BY <1>1, ContentKind DEF Flat
<1>4. CASE seg.t = "name"
  BY <1>3, <1>4 DEF MayStand, Settable
<1>5. CASE seg.t = "index" /\ ~(seg.n > 0 /\ node.t = "arr")
  <2>1. seg.n \in Int
    BY <1>1, <1>5 DEF Segments
  <2>2. node.t = "arr" => Len(node.s) \in Nat
    BY <1>2, DocParts, NodeTypes
  <2> HIDE DEF flat, parent, seg, node
  <2>3. MayStand(flat, path) <=> node.t = "arr" /\ seg.n = 0
    BY <1>3, <1>5, <2>1 DEF MayStand, parent, seg
  <2>4. Settable(node, seg) <=> node.t = "arr" /\ seg.n = 0
    BY <1>5, <2>1, <2>2 DEF Settable
  <2> QED
    BY <2>3, <2>4 DEF flat, parent, seg, node
<1>6. CASE seg.t = "index" /\ seg.n > 0 /\ node.t = "arr"
  <2> DEFINE before == Index(seg.n - 1)
             q == Append(parent, before)
  <2>1. seg.n \in Int /\ before \in Segments
    BY <1>1, <1>6 DEF Segments, Index
  <2>2. Len(node.s) \in Nat /\ DOMAIN node.s = 1 .. Len(node.s)
    BY <1>2, <1>6, DocParts, NodeTypes
  <2>3. q \in Paths /\ Len(q) = Len(parent) + 1 /\ q[Len(q)] = before /\ Begun(parent, q)
    <3> HIDE DEF before, parent
    <3> QED
      BY <1>1, <2>1 DEF Paths, Begun
  <2>4. At(doc, q) = Down(node, before)
    <3> HIDE DEF q, parent, before
    <3> QED
      BY <1>1, <2>3, LastStep DEF node
  <2>5. flat[q].t # "failed" <=> Exists(node, before)
    <3>1. flat[q].t = Down(node, before).t
      BY <2>3, <2>4, ContentKind DEF Flat
    <3> HIDE DEF flat, q, node, before
    <3> QED
      BY <1>2, <2>1, <3>1, DownNode, NodeTypes
  <2>6. Exists(node, before) <=> seg.n \in 1 .. Len(node.s)
    BY <1>6, <2>1, <2>2 DEF Exists, Index
  <2>7. MayStand(flat, path) <=> flat[q].t # "failed"
    BY <1>3, <1>6, <2>1 DEF MayStand
  <2>8. Settable(node, seg) <=> seg.n \in 1 .. Len(node.s)
    BY <1>6, <2>1, <2>2 DEF Settable
  <2> QED
    BY <2>5, <2>6, <2>7, <2>8
<1> QED
  BY <1>1, <1>4, <1>5, <1>6 DEF Segments

(* A setting puts the value at its path and leaves the rest.               *)
LEMMA SetStands ==
  ASSUME NEW doc, Node(doc), NEW path \in Paths \ {<<>>}, NEW value, IsDoc(value)
  PROVE  /\ Node(SetAttrPath(doc, path, value))
         /\ Flat(SetAttrPath(doc, path, value)) = FlatSet(Flat(doc), path, Flat(value))
<1> DEFINE parent == Front(path)
           seg == Last(path)
           n == Len(path)
           at == Descent(doc, path)
           may == Settable(At(doc, parent), seg)
           new == SetAttrPath(doc, path, value)
<1>1. /\ parent \in Paths /\ Len(parent) = n - 1 /\ n \in Nat \ {0} /\ Begun(parent, path)
      /\ seg = path[n] /\ seg \in Segments
  BY Parent
<1>2. MayStand(Flat(doc), path) <=> may
  BY MayBeSet
<1> DEFINE Then(q) == IF ~may THEN NoDoc
                      ELSE IF IsPrefix(path, q) THEN Flat(value)[Rest(q, n)] ELSE Flat(doc)[q]
<1>3. FlatSet(Flat(doc), path, Flat(value)) = [q \in Paths |-> Then(q)]
  <2>1. CASE may
    BY <1>2, <2>1 DEF FlatSet
  <2>2. CASE ~may
    BY <1>2, <2>2 DEF FlatSet
  <2> QED
    BY <2>1, <2>2
<1>4. CASE ~may
  <2>1. new = NoDoc
    BY <1>4 DEF SetAttrPath
  <2>2. \A q \in Paths : Content(At(new, q)) = Then(q)
    BY <1>4, <2>1, NothingThere
  <2>3. Flat(new) = [q \in Paths |-> Then(q)]
    <3> HIDE DEF Then, new
    <3> QED
      BY <2>2 DEF Flat
  <2> QED
    BY <1>3, <2>1, <2>3 DEF Node
<1>5. CASE may
  <2>1. new = Rebuilt(doc, path, value)
    BY <1>5 DEF SetAttrPath
  <2>2. Descends(at, doc, path)
    BY DescentUnfolds
  <2>3. At(doc, parent) = at[n - 1]
    <3> HIDE DEF at, parent, n
    <3> QED
      BY <1>1, <2>2, Along
  <2>4. IsDoc(at[n - 1]) /\ at[n - 1] # NoDoc
    <3>1. Node(at[n - 1])
      BY <1>1, <2>3, AtNode
    <3>2. at[n - 1].t \in {"obj", "arr"}
      BY <1>5, <2>3 DEF Settable
    <3> QED
      BY <3>1, <3>2, NodeTypes
  <2>5. n - 1 \in 0 .. n
    BY <1>1
  <2>6. \A i \in 1 .. n - 1 : IsDoc(at[i - 1]) /\ Settable(at[i - 1], path[i])
    <3> HIDE DEF at
    <3> QED
      BY <2>2, <2>4, <2>5, WayUp
  <2>7. MayRebuild(at, path)
    BY <1>1, <1>5, <2>3, <2>4, <2>6 DEF MayRebuild
  <2>8. IsDoc(doc)
    <3>1. 1 \in 1 .. n
      BY <1>1
    <3> QED
      BY <2>2, <2>7, <3>1 DEF MayRebuild, Descends
  <2>9. ASSUME NEW q \in Paths
        PROVE  IsDoc(new) /\ Content(At(new, q)) = Then(q)
    <3>1. IsDoc(new) /\ Content(At(new, q)) = IF Begun(path, q) THEN Content(At(value, Rest(q, n)))
                                             ELSE Content(At(doc, q))
      BY <2>1, <2>7, <2>8, RebuiltStands
    <3>2. Begun(path, q) => Flat(value)[Rest(q, n)] = Content(At(value, Rest(q, n)))
      <4>1. Begun(path, q) => Rest(q, n) \in Paths
        BY <1>1, RestIs DEF Begun
      <4> QED
        BY <4>1 DEF Flat
    <3>3. Flat(doc)[q] = Content(At(doc, q))
      BY DEF Flat
    <3> QED
      BY <1>5, <3>1, <3>2, <3>3, PrefixBegins
  <2>10. Flat(new) = [q \in Paths |-> Then(q)]
    <3> HIDE DEF Then, new
    <3> QED
      BY <2>9 DEF Flat
  <2>11. <<>> \in Paths
    BY DEF Paths
  <2> QED
    BY <1>3, <2>9, <2>10, <2>11 DEF Node
<1> QED
  BY <1>4, <1>5

(* A path beside a removed element, in the old document.                   *)
LEMMA LaterIs ==
  ASSUME NEW path \in Paths \ {<<>>}, NEW q \in Paths, Behind(path, q)
  PROVE  LET n == Len(path)
             later == Later(path, q)
         IN  /\ later \in Paths /\ Len(later) = Len(q)
             /\ later[n] = Index(q[n].n + 1)
             /\ \A i \in 1 .. Len(q) : i # n => later[i] = q[i]
<1> DEFINE n == Len(path)
<1>1. n \in Nat \ {0} /\ n \in 1 .. Len(q) /\ q[n].t = "index" /\ q \in Seq(Segments)
  BY Parent DEF Behind, Paths
<1>2. q[n] \in Segments
  BY <1>1
<1>3. Index(q[n].n + 1) \in Segments
  BY <1>1, <1>2 DEF Segments, Index
<1>4. Later(path, q) = [q EXCEPT ![n] = Index(q[n].n + 1)]
  BY DEF Later
<1> HIDE DEF n
<1> QED
  BY <1>1, <1>3, <1>4 DEF Paths, n

(* What stands in a container without one of its children, below a path.   *)
LEMMA WithoutStands ==
  ASSUME NEW doc, Node(doc), NEW path \in Paths \ {<<>>}, NEW q \in Paths,
         Begun(Front(path), q), Len(q) >= Len(path),
         Exists(At(doc, Front(path)), Last(path))
  PROVE  At(Without(At(doc, Front(path)), Last(path)), Rest(q, Len(path) - 1)) =
           IF Behind(path, q) THEN At(doc, Later(path, q))
           ELSE IF Begun(path, q) THEN NoDoc ELSE At(doc, q)
<1> DEFINE parent == Front(path)
           seg == Last(path)
           n == Len(path)
           m == Len(q)
           node == At(doc, parent)
           leaf == Without(node, seg)
           rest == Rest(q, n - 1)
           in == Descent(leaf, rest)
           r == q[n]
<1>1. /\ parent \in Paths /\ Len(parent) = n - 1 /\ n \in Nat \ {0} /\ Begun(parent, path)
      /\ seg = path[n] /\ seg \in Segments
  BY Parent
<1>2. m \in Nat /\ n \in 1 .. m /\ n - 1 \in 0 .. m /\ r \in Segments
  BY <1>1 DEF Paths
<1>3. Node(node)
  BY <1>1, AtNode
<1>4. IsDoc(node) /\ Exists(node, seg)
  BY <1>1, <1>3, DownNode
<1>5. /\ IsDoc(leaf)
      /\ Down(leaf, r) = IF Shifts(seg, r) THEN Down(node, Index(r.n + 1))
                         ELSE IF r = seg THEN NoDoc ELSE Down(node, r)
  <2> HIDE DEF node, seg, r
  <2> QED
    BY <1>1, <1>2, <1>4, WithoutChild
<1>6. rest \in Paths /\ Len(rest) = m - (n - 1) /\ \A i \in 1 .. m - (n - 1) : rest[i] = q[n - 1 + i]
  BY <1>2, RestIs
<1>7. Descends(in, leaf, rest) /\ At(leaf, rest) = in[m - (n - 1)]
  BY <1>5, <1>6, DescentUnfolds DEF Node, At
<1> HIDE DEF leaf, in, rest, node
<1>8. rest[1] = r /\ 1 \in 1 .. Len(rest)
  BY <1>1, <1>2, <1>6
<1>9. in[1] = Down(leaf, r)
  BY <1>7, <1>8 DEF Descends
<1>10. Behind(path, q) <=> Shifts(seg, r)
  BY <1>1, PrefixBegins DEF Behind, Shifts
<1>11. Begun(path, q) <=> r = seg
  <2>1. \A i \in 1 .. n - 1 : parent[i] = path[i] /\ parent[i] = q[i]
    BY <1>1 DEF Begun
  <2> HIDE DEF r, seg, parent
  <2> QED
    BY <1>1, <1>2, <2>1 DEF Begun, r
<1>12. ASSUME NEW o \in Paths, Len(o) = m, Begun(parent, o), Down(node, o[n]) = in[1],
              \A i \in 1 .. m : i > n => o[i] = q[i]
       PROVE  in[m - (n - 1)] = At(doc, o)
  <2> DEFINE to == Descent(doc, o)
  <2>1. Descends(to, doc, o) /\ At(doc, o) = to[m]
    BY <1>12, DescentUnfolds DEF At
  <2> HIDE DEF to
  <2>2. node = to[n - 1]
    <3> HIDE DEF parent
    <3> QED
      BY <1>1, <1>12, <2>1, Along DEF node
  <2>3. to[n] = in[1]
    BY <1>2, <1>12, <2>1, <2>2 DEF Descends
  <2>4. Alike(rest, 1, o, n, m - n)
    <3>1. m - n \in Nat /\ 1 + (m - n) <= Len(rest) /\ n + (m - n) <= Len(o)
      BY <1>2, <1>6, <1>12
    <3>2. ASSUME NEW i \in 1 .. m - n PROVE rest[1 + i] = o[n + i]
      <4>1. 1 + i \in 1 .. m - (n - 1) /\ n - 1 + (1 + i) = n + i /\ n + i \in 1 .. m /\ n + i > n
        BY <1>2
      <4> QED
        BY <1>6, <1>12, <4>1
    <3> QED
      BY <1>2, <3>1, <3>2 DEF Alike
  <2>5. \A i \in 0 .. m - n : in[1 + i] = to[n + i]
    <3> HIDE DEF m, n
    <3> QED
      BY <1>6, <1>7, <1>12, <2>1, <2>3, <2>4, DescentMeets
  <2>6. m - n \in 0 .. m - n /\ 1 + (m - n) = m - (n - 1) /\ n + (m - n) = m
    BY <1>2
  <2> QED
    BY <2>1, <2>5, <2>6
<1>13. CASE Behind(path, q)
  <2> DEFINE o == Later(path, q)
  <2>1. /\ o \in Paths /\ Len(o) = m /\ o[n] = Index(r.n + 1)
        /\ \A i \in 1 .. m : i # n => o[i] = q[i]
    BY <1>13, LaterIs
  <2> HIDE DEF o
  <2>2. Begun(parent, o)
    BY <1>1, <1>2, <2>1 DEF Begun
  <2>3. Down(node, o[n]) = in[1]
    BY <1>5, <1>9, <1>10, <1>13, <2>1
  <2>4. \A i \in 1 .. m : i > n => o[i] = q[i]
    BY <1>2, <2>1
  <2>5. in[m - (n - 1)] = At(doc, o)
    BY <1>12, <2>1, <2>2, <2>3, <2>4
  <2> QED
    BY <1>7, <1>13, <2>5 DEF o, leaf, rest, node
<1>14. CASE ~Behind(path, q) /\ r = seg
  <2>1. Down(leaf, r) = NoDoc
    BY <1>5, <1>10, <1>14
  <2>2. in[m - (n - 1)] = NoDoc
    <3> SUFFICES ASSUME in[m - (n - 1)] # NoDoc PROVE FALSE
      OBVIOUS
    <3>1. m - (n - 1) \in 0 .. Len(rest) /\ 1 \in 1 .. m - (n - 1)
      BY <1>2, <1>6
    <3>2. Exists(in[1 - 1], rest[1])
      BY <1>5, <1>6, <1>7, <3>1, OnTheWay DEF Node
    <3>3. in[1 - 1] = leaf
      BY <1>7 DEF Descends
    <3> QED
      BY <1>2, <1>5, <1>8, <2>1, <3>2, <3>3, DownNode DEF Node
  <2> QED
    BY <1>7, <1>11, <1>14, <2>2 DEF leaf, rest, node
<1>15. CASE ~Behind(path, q) /\ r # seg
  <2>1. Down(node, q[n]) = in[1]
    BY <1>5, <1>9, <1>10, <1>15
  <2>2. in[m - (n - 1)] = At(doc, q)
    BY <1>12, <2>1
  <2> QED
    BY <1>7, <1>11, <1>15, <2>2 DEF leaf, rest, node
<1> QED
  BY <1>13, <1>14, <1>15

(* A removal takes what is at its path, moves what stands behind it in an  *)
(* array one place down, and leaves the rest.                              *)
LEMMA RemoveStands ==
  ASSUME NEW doc, Node(doc), NEW path \in Paths \ {<<>>}
  PROVE  /\ Node(RemoveAttrPath(doc, path))
         /\ Flat(RemoveAttrPath(doc, path)) = FlatRemove(Flat(doc), path)
<1> DEFINE parent == Front(path)
           seg == Last(path)
           n == Len(path)
           node == At(doc, parent)
           leaf == Without(node, seg)
           at == Descent(doc, parent)
           new == RemoveAttrPath(doc, path)
           there == Exists(node, seg)
           Then(q) == IF ~there THEN NoDoc
                      ELSE IF Behind(path, q) THEN Content(At(doc, Later(path, q)))
                      ELSE IF Begun(path, q) THEN NoDoc ELSE Content(At(doc, q))
<1>1. /\ parent \in Paths /\ Len(parent) = n - 1 /\ n \in Nat \ {0} /\ Begun(parent, path)
      /\ seg = path[n] /\ seg \in Segments
  BY Parent
<1>2. Node(node)
  BY <1>1, AtNode
<1>3. Flat(doc)[path].t = "failed" <=> ~there
  <2>1. At(doc, path) = Down(node, seg)
    <3>1. Len(path) = Len(parent) + 1
      BY <1>1
    <3> HIDE DEF parent, n
    <3> QED
      BY <1>1, <3>1, LastStep DEF n
  <2>2. Flat(doc)[path].t = Down(node, seg).t
    <3> HIDE DEF node, seg
    <3> QED
      BY <2>1, ContentKind DEF Flat
  <2> HIDE DEF node, seg
  <2> QED
    BY <1>1, <1>2, <2>2, DownNode, NodeTypes
<1>4. FlatRemove(Flat(doc), path) = [q \in Paths |-> Then(q)]
  <2> DEFINE flat == Flat(doc)
             gone == flat[path].t = "failed"
             Old(q) == IF gone THEN NoDoc
                       ELSE IF Behind(path, q) THEN flat[Later(path, q)]
                       ELSE IF IsPrefix(path, q) THEN NoDoc
                       ELSE flat[q]
  <2>1. ASSUME NEW q \in Paths PROVE Old(q) = Then(q)
    <3>1. flat[q] = Content(At(doc, q))
      BY DEF Flat
    <3>2. Behind(path, q) => flat[Later(path, q)] = Content(At(doc, Later(path, q)))
      <4>1. Behind(path, q) => Later(path, q) \in Paths
        BY LaterIs
      <4> QED
        BY <4>1 DEF Flat
    <3>3. IsPrefix(path, q) <=> Begun(path, q)
      BY PrefixBegins
    <3> HIDE DEF flat, there
    <3> QED
      BY <1>3, <3>1, <3>2, <3>3 DEF flat
  <2>2. FlatRemove(Flat(doc), path) = [q \in Paths |-> Old(q)]
    <3>1. CASE gone
      BY <3>1 DEF FlatRemove
    <3>2. CASE ~gone
      BY <3>2 DEF FlatRemove
    <3> QED
      BY <3>1, <3>2
  <2> HIDE DEF Old, Then
  <2> QED
    BY <2>1, <2>2
<1>5. CASE ~there
  <2>1. new = NoDoc
    BY <1>5 DEF RemoveAttrPath
  <2>2. \A q \in Paths : Content(At(new, q)) = Then(q)
    BY <1>5, <2>1, NothingThere
  <2>3. Flat(new) = [q \in Paths |-> Then(q)]
    <3> HIDE DEF Then, new
    <3> QED
      BY <2>2 DEF Flat
  <2> QED
    BY <1>4, <2>1, <2>3 DEF Node
<1>6. CASE there
  <2>1. new = Rebuilt(doc, parent, leaf)
    BY <1>6 DEF RemoveAttrPath
  <2>2. IsDoc(node) /\ node # NoDoc
    BY <1>1, <1>2, <1>6, DownNode, NodeTypes
  <2>3. IsDoc(leaf) /\ Content(leaf) = Content(node)
    <3>1. IsDoc(node) /\ seg \in Segments /\ Exists(node, seg)
      BY <1>1, <1>6, <2>2
    <3> HIDE DEF node, seg
    <3> QED
      BY <3>1, WithoutChild
  <2>4. Descends(at, doc, parent) /\ at[n - 1] = node /\ n - 1 \in 0 .. Len(parent)
    BY <1>1, DescentUnfolds DEF At
  <2>5. MayRebuild(at, parent)
    <3>1. at[n - 1] # NoDoc
      BY <2>2, <2>4
    <3> HIDE DEF at, parent, n
    <3>2. \A i \in 1 .. n - 1 : IsDoc(at[i - 1]) /\ Settable(at[i - 1], parent[i])
      BY <1>1, <2>4, <3>1, WayUp
    <3> QED
      BY <1>1, <3>2 DEF MayRebuild
  <2>6. IsDoc(doc)
    <3>1. CASE n = 1
      <4>1. at[0] = doc /\ at[0] = node
        BY <2>4, <3>1 DEF Descends
      <4> QED
        BY <2>2, <4>1
    <3>2. CASE n # 1
      <4>1. 1 \in 1 .. Len(parent)
        BY <1>1, <3>2
      <4>2. IsDoc(at[1 - 1])
        BY <2>5, <4>1 DEF MayRebuild
      <4>3. at[1 - 1] = doc
        BY <2>4 DEF Descends
      <4> QED
        BY <4>2, <4>3
    <3> QED
      BY <3>1, <3>2
  <2>7. ASSUME NEW q \in Paths
        PROVE  IsDoc(new) /\ Content(At(new, q)) = Then(q)
    <3>1. IsDoc(new) /\ Content(At(new, q)) = IF Begun(parent, q) THEN Content(At(leaf, Rest(q, n - 1)))
                                             ELSE Content(At(doc, q))
      <4> HIDE DEF leaf, node
      <4> QED
        BY <1>1, <2>1, <2>3, <2>5, <2>6, RebuiltStands
    <3>2. Behind(path, q) => Begun(parent, q) /\ Len(q) >= n
      BY <1>1, PrefixBegins DEF Behind
    <3>3. Begun(path, q) => Begun(parent, q) /\ Len(q) >= n
      BY <1>1 DEF Begun, Paths
    <3>4. CASE ~Begun(parent, q)
      BY <1>6, <3>1, <3>2, <3>3, <3>4
    <3>5. CASE Begun(parent, q) /\ Len(q) >= n
      <4>1. At(leaf, Rest(q, n - 1)) =
              IF Behind(path, q) THEN At(doc, Later(path, q))
              ELSE IF Begun(path, q) THEN NoDoc ELSE At(doc, q)
        BY <1>6, <3>5, WithoutStands
      <4>2. Content(NoDoc) = NoDoc
        BY DEF Content, NoDoc
      <4> HIDE DEF leaf, there, parent, n
      <4> QED
        BY <1>6, <3>1, <3>5, <4>1, <4>2
    <3>6. CASE Begun(parent, q) /\ ~(Len(q) >= n)
      <4>1. Len(q) = n - 1 /\ n - 1 \in 0 .. Len(q)
        BY <1>1, <3>6 DEF Begun, Paths
      <4>2. q = parent
        BY <1>1, <3>6, <4>1, SameSequence DEF Begun, Paths
      <4>3. At(leaf, Rest(q, n - 1)) = leaf
        <5>1. Rest(q, n - 1) \in Paths /\ Len(Rest(q, n - 1)) = 0
          <6>1. Len(Rest(q, n - 1)) = Len(q) - (n - 1) /\ Rest(q, n - 1) \in Paths
            <7> HIDE DEF n
            <7> QED
              BY <4>1, RestIs
          <6>2. Len(q) - (n - 1) = 0
            BY <1>1, <4>1
          <6> QED
            BY <6>1, <6>2
        <5>2. Descent(leaf, Rest(q, n - 1))[0] = leaf
          <6> HIDE DEF leaf
          <6> QED
            BY <2>3, <5>1, DescentUnfolds DEF Node, Descends
        <5> QED
          BY <5>1, <5>2 DEF At
      <4>4. At(doc, q) = node
        BY <4>2
      <4>5. ~Behind(path, q) /\ ~Begun(path, q)
        BY <3>2, <3>3, <3>6
      <4> HIDE DEF leaf, there, parent, n, node
      <4> QED
        BY <1>6, <2>3, <3>1, <3>6, <4>3, <4>4, <4>5
    <3> QED
      BY <3>4, <3>5, <3>6
  <2>8. Flat(new) = [q \in Paths |-> Then(q)]
    <3> HIDE DEF Then, new
    <3> QED
      BY <2>7 DEF Flat
  <2>9. <<>> \in Paths
    BY DEF Paths
  <2> QED
    BY <1>4, <2>7, <2>8, <2>9 DEF Node
<1> QED
  BY <1>5, <1>6

-----------------------------------------------------------------------------
(* Reading a document.                                                     *)

(* What decoding makes of a document, when f is what it makes of its parts. *)
DecodedBy(f, doc) ==
    CASE doc.t = "obj" -> Obj([k \in DOMAIN doc.f |-> f[doc.f[k]]])
      [] doc.t = "arr" -> Arr([i \in DOMAIN doc.s |-> f[doc.s[i]]])
      [] doc.t = "val" -> Scalar(Float64(doc.v))

(* f is right for the documents that are nested less than n deep.          *)
RightBelow(f, n) ==
    /\ f = [doc \in Docs |-> f[doc]]
    /\ \A doc \in Docs : Nesting[doc] < n => f[doc] = DecodedBy(f, doc)

(* The parts of a document of the model are documents of it, less deep.    *)
LEMMA DocKinds ==
  ASSUME NEW doc \in Docs
  PROVE  \/ /\ doc.t = "obj"
            /\ \A k \in DOMAIN doc.f : doc.f[k] \in Docs /\ Nesting[doc.f[k]] < Nesting[doc]
         \/ /\ doc.t = "arr" /\ doc.s \in Seq(Docs)
            /\ \A i \in DOMAIN doc.s : doc.s[i] \in Docs /\ Nesting[doc.s[i]] < Nesting[doc]
         \/ doc.t = "val"
<1>1. PartsIn(doc, Docs)
  BY DocAssumption
<1>2. doc.t = "arr" /\ doc.s \in Seq(Docs) => \A i \in DOMAIN doc.s : doc.s[i] \in Docs
  OBVIOUS
<1> QED
  BY <1>1, <1>2, NestingAssumption DEF PartsIn

(* Functions that agree on the parts decode a document alike.              *)
LEMMA DecodedAlike ==
  ASSUME NEW doc \in Docs, NEW f, NEW g,
         \A part \in Docs : Nesting[part] < Nesting[doc] => f[part] = g[part]
  PROVE  DecodedBy(f, doc) = DecodedBy(g, doc)
<1>1. CASE /\ doc.t = "obj"
           /\ \A k \in DOMAIN doc.f : doc.f[k] \in Docs /\ Nesting[doc.f[k]] < Nesting[doc]
  <2>1. \A k \in DOMAIN doc.f : f[doc.f[k]] = g[doc.f[k]]
    BY <1>1
  <2>2. [k \in DOMAIN doc.f |-> f[doc.f[k]]] = [k \in DOMAIN doc.f |-> g[doc.f[k]]]
    BY <2>1
  <2> QED
    BY <1>1, <2>2 DEF DecodedBy
<1>2. CASE /\ doc.t = "arr"
           /\ \A i \in DOMAIN doc.s : doc.s[i] \in Docs /\ Nesting[doc.s[i]] < Nesting[doc]
  <2>1. \A i \in DOMAIN doc.s : f[doc.s[i]] = g[doc.s[i]]
    BY <1>2
  <2>2. [i \in DOMAIN doc.s |-> f[doc.s[i]]] = [i \in DOMAIN doc.s |-> g[doc.s[i]]]
    BY <2>1
  <2> QED
    BY <1>2, <2>2 DEF DecodedBy
<1>3. CASE doc.t = "val"
  BY <1>3 DEF DecodedBy
<1> QED
  BY <1>1, <1>2, <1>3, DocKinds

(* There is a right function, by induction over the nesting.               *)
LEMMA DecodedUnfolds ==
  \A doc \in Docs : Decoded[doc] = DecodedBy(Decoded, doc)
<1> DEFINE K == {n \in Nat : \E f : RightBelow(f, n)}
<1>0. \A doc \in Docs : Nesting[doc] \in Nat /\ Nesting[doc] < MaxNesting + 1
  BY NestingAssumption
<1>1. 0 \in K
  <2>1. RightBelow([doc \in Docs |-> doc], 0)
    BY <1>0 DEF RightBelow
  <2> QED
    BY <2>1
<1>2. ASSUME NEW n \in Nat, n \in K PROVE n + 1 \in K
  <2>1. PICK f : RightBelow(f, n)
    BY <1>2
  <2> DEFINE g == [doc \in Docs |-> IF Nesting[doc] < n THEN f[doc] ELSE DecodedBy(f, doc)]
  <2>2. g = [doc \in Docs |-> g[doc]]
    OBVIOUS
  <2>3. \A doc \in Docs : g[doc] = IF Nesting[doc] < n THEN f[doc] ELSE DecodedBy(f, doc)
    OBVIOUS
  <2> HIDE DEF g
  <2>4. ASSUME NEW doc \in Docs, Nesting[doc] < n + 1 PROVE g[doc] = DecodedBy(g, doc)
    <3>1. g[doc] = DecodedBy(f, doc)
      BY <2>1, <2>3 DEF RightBelow
    <3>2. \A part \in Docs : Nesting[part] < Nesting[doc] => Nesting[part] < n
      BY <1>0, <2>4
    <3>3. \A part \in Docs : Nesting[part] < Nesting[doc] => f[part] = g[part]
      BY <2>3, <3>2
    <3> QED
      BY <3>1, <3>3, DecodedAlike
  <2>5. RightBelow(g, n + 1)
    BY <2>2, <2>4 DEF RightBelow
  <2> QED
    BY <2>5
<1>3. MaxNesting + 1 \in K
  <2>1. Nat \subseteq K
    <3> HIDE DEF K
    <3> QED
      BY <1>1, <1>2, SetInduction
  <2> QED
    BY <2>1, NestingAssumption
<1>4. PICK f : RightBelow(f, MaxNesting + 1)
  BY <1>3
<1>5. f = [doc \in Docs |-> DecodedBy(f, doc)]
  BY <1>0, <1>4 DEF RightBelow
<1>6. Decoded = CHOOSE g : g = [doc \in Docs |-> DecodedBy(g, doc)]
  BY DEF Decoded, DecodedBy
<1>7. Decoded = [doc \in Docs |-> DecodedBy(Decoded, doc)]
  BY <1>5, <1>6, Zenon
<1> QED
  BY <1>7

(* What decoding gives is a document.                                      *)
LEMMA DecodedDocs == \A doc \in Docs : IsDoc(Decoded[doc])
<1> DEFINE all == {Decoded[doc] : doc \in Docs}
<1>1. ASSUME NEW doc \in Docs PROVE PartsIn(Decoded[doc], all)
  <2>1. Decoded[doc] = DecodedBy(Decoded, doc)
    BY DecodedUnfolds
  <2>2. CASE doc.t = "obj" /\ \A k \in DOMAIN doc.f : doc.f[k] \in Docs
    BY <2>1, <2>2 DEF DecodedBy, PartsIn, Obj
  <2>3. CASE doc.t = "arr" /\ doc.s \in Seq(Docs)
    <3> DEFINE s == [i \in DOMAIN doc.s |-> Decoded[doc.s[i]]]
    <3>1. Decoded[doc].t = "arr" /\ Decoded[doc].s = s
      BY <2>1, <2>3 DEF DecodedBy, Arr
    <3>2. Len(doc.s) \in Nat /\ DOMAIN doc.s = 1 .. Len(doc.s)
      BY <2>3
    <3>3. \A i \in DOMAIN doc.s : doc.s[i] \in Docs
      BY <2>3
    <3>4. \A i \in DOMAIN doc.s : Decoded[doc.s[i]] \in all
      BY <3>3
    <3> HIDE DEF all
    <3>5. s \in Seq(all)
      BY <3>2, <3>4
    <3> QED
      BY <3>1, <3>5 DEF PartsIn
  <2>4. CASE doc.t = "val"
    BY <2>1, <2>4 DEF DecodedBy, PartsIn, Scalar
  <2> QED
    BY <2>2, <2>3, <2>4, DocKinds
<1>2. \A node \in all : PartsIn(node, all)
  BY <1>1
<1>3. \A doc \in Docs : Decoded[doc] \in all
  OBVIOUS
<1> HIDE DEF all
<1> QED
  BY <1>2, <1>3 DEF IsDoc

(* A document as it is written, or nothing, and what is read of it.        *)
Written(node) == node \in Docs \/ node = NoDoc
AsRead(node) == IF node = NoDoc THEN NoDoc ELSE Decoded[node]

(* What is read of a node has its children, read, and its content, read.   *)
LEMMA ReadDown ==
  ASSUME NEW node, Written(node), NEW seg \in Segments
  PROVE  /\ Written(Down(node, seg))
         /\ Down(AsRead(node), seg) = AsRead(Down(node, seg))
         /\ Content(AsRead(node)) = Read(Content(node))
<1>1. \A doc \in Docs : doc # NoDoc
  BY DocsAre, NodeTypes DEF Node
<1>2. CASE node = NoDoc
  BY <1>2 DEF AsRead, Written, Down, Exists, NoDoc, Content, Read
<1>3. CASE node \in Docs
  <2> DEFINE dec == Decoded[node]
  <2>1. AsRead(node) = dec /\ dec = DecodedBy(Decoded, node)
    BY <1>1, <1>3, DecodedUnfolds DEF AsRead
  <2>2. CASE node.t = "obj" /\ \A k \in DOMAIN node.f : node.f[k] \in Docs
    <3>1. dec.t = "obj" /\ dec.f = [k \in DOMAIN node.f |-> Decoded[node.f[k]]]
      BY <2>1, <2>2 DEF DecodedBy, Obj
    <3> HIDE DEF dec
    <3>2. CASE Exists(node, seg)
      <4>1. seg.t = "name" /\ seg.k \in DOMAIN node.f
        BY <2>2, <3>2 DEF Exists
      <4>2. Down(node, seg) = node.f[seg.k] /\ node.f[seg.k] \in Docs
        BY <2>2, <3>2, <4>1 DEF Down, Child
      <4>3. Down(dec, seg) = Decoded[node.f[seg.k]]
        BY <3>1, <4>1 DEF Down, Child, Exists
      <4> QED
        BY <1>1, <2>1, <2>2, <3>1, <4>2, <4>3 DEF AsRead, Written, Content, Read
    <3>3. CASE ~Exists(node, seg)
      <4>1. Down(node, seg) = NoDoc /\ Down(dec, seg) = NoDoc
        BY <2>2, <3>1, <3>3 DEF Down, Exists
      <4> QED
        BY <2>1, <2>2, <3>1, <4>1 DEF AsRead, Written, Content, Read
    <3> QED
      BY <3>2, <3>3
  <2>3. CASE /\ node.t = "arr" /\ \A i \in DOMAIN node.s : node.s[i] \in Docs
    <3>1. dec.t = "arr" /\ dec.s = [i \in DOMAIN node.s |-> Decoded[node.s[i]]]
      BY <2>1, <2>3 DEF DecodedBy, Arr
    <3> HIDE DEF dec
    <3>2. CASE Exists(node, seg)
      <4>1. seg.t = "index" /\ seg.n + 1 \in DOMAIN node.s
        BY <2>3, <3>2 DEF Exists
      <4>2. Down(node, seg) = node.s[seg.n + 1] /\ node.s[seg.n + 1] \in Docs
        BY <2>3, <3>2, <4>1 DEF Down, Child
      <4>3. Down(dec, seg) = Decoded[node.s[seg.n + 1]]
        BY <3>1, <4>1 DEF Down, Child, Exists
      <4> QED
        BY <1>1, <2>1, <2>3, <3>1, <4>2, <4>3 DEF AsRead, Written, Content, Read
    <3>3. CASE ~Exists(node, seg)
      <4>1. Down(node, seg) = NoDoc /\ Down(dec, seg) = NoDoc
        BY <2>3, <3>1, <3>3 DEF Down, Exists
      <4> QED
        BY <2>1, <2>3, <3>1, <4>1 DEF AsRead, Written, Content, Read
    <3> QED
      BY <3>2, <3>3
  <2>4. CASE node.t = "val"
    <3>1. dec = Scalar(Float64(node.v)) /\ dec.t = "val"
      BY <2>1, <2>4 DEF DecodedBy, Scalar
    <3> HIDE DEF dec
    <3>2. Down(node, seg) = NoDoc /\ Down(dec, seg) = NoDoc
      BY <2>4, <3>1 DEF Down, Exists
    <3> QED
      BY <2>1, <2>4, <3>1, <3>2 DEF AsRead, Written, Content, Read
  <2> QED
    BY <1>3, <2>2, <2>3, <2>4, DocKinds
<1> QED
  BY <1>2, <1>3 DEF Written

(* The flat view of a document that has been read is what the reference    *)
(* reads of it: every number is a float64, nothing else is different.      *)
LEMMA ReadStands ==
  ASSUME NEW doc \in Docs PROVE Flat(Decoded[doc]) = FlatRead(doc)
<1>1. Node(doc) /\ Node(Decoded[doc]) /\ doc # NoDoc
  BY DocsAre, DecodedDocs, NodeTypes DEF Node
<1>2. ASSUME NEW path \in Paths
      PROVE  Content(At(Decoded[doc], path)) = Read(Content(At(doc, path)))
  <2> DEFINE at == Descent(doc, path)
             to == Descent(Decoded[doc], path)
             n == Len(path)
             K == {k \in Nat : k <= n => Written(at[k]) /\ to[k] = AsRead(at[k])}
  <2>1. Descends(at, doc, path) /\ Descends(to, Decoded[doc], path)
    BY <1>1, DescentUnfolds
  <2>2. n \in Nat
    BY DEF Paths
  <2> HIDE DEF at, to
  <2>3. 0 \in K
    BY <1>1, <2>1 DEF Descends, Written, AsRead
  <2>4. ASSUME NEW k \in Nat, k \in K PROVE k + 1 \in K
    <3> SUFFICES ASSUME k + 1 <= n
                 PROVE  Written(at[k + 1]) /\ to[k + 1] = AsRead(at[k + 1])
      OBVIOUS
    <3>1. k + 1 \in 1 .. n /\ (k + 1) - 1 = k /\ Written(at[k]) /\ to[k] = AsRead(at[k])
      BY <2>2, <2>4
    <3>2. path[k + 1] \in Segments
      BY <3>1 DEF Paths
    <3>3. at[k + 1] = Down(at[k], path[k + 1]) /\ to[k + 1] = Down(to[k], path[k + 1])
      BY <2>1, <3>1 DEF Descends
    <3> QED
      BY <3>1, <3>2, <3>3, ReadDown
  <2>5. Nat \subseteq K
    <3> HIDE DEF K
    <3> QED
      BY <2>3, <2>4, SetInduction
  <2>6. Written(at[n]) /\ to[n] = AsRead(at[n])
    BY <2>2, <2>5
  <2>7. Index(0) \in Segments
    BY DEF Segments, Index
  <2>8. Content(to[n]) = Read(Content(at[n]))
    BY <2>6, <2>7, ReadDown
  <2> QED
    BY <2>8 DEF At, at, to
<1> QED
  BY <1>2 DEF Flat, FlatRead

-----------------------------------------------------------------------------
(* A whole edit.                                                           *)

EditForm == [remove : Seq(Paths \ {<<>>}), set : Seq([path : Paths \ {<<>>}, value : Docs])]

(* Decoding leaves the paths of an edit and makes documents of its values. *)
LEMMA EditsDecode ==
  ASSUME NEW edits \in EditForm
  PROVE  LET decoded == DecodedEdits(edits)
         IN  /\ EditSteps(edits) \in Nat /\ EditSteps(decoded) = EditSteps(edits)
             /\ decoded.remove = edits.remove
             /\ \A i \in 1 .. EditSteps(edits) : i > Len(edits.remove) =>
                  LET value == Setting(edits, i).value
                  IN  /\ Setting(edits, i).path \in Paths \ {<<>>} /\ value \in Docs
                      /\ Setting(decoded, i).path = Setting(edits, i).path
                      /\ Setting(decoded, i).value = Decoded[value]
<1> DEFINE decoded == DecodedEdits(edits)
           T == [path : Paths \ {<<>>}, value : Docs]
           made == [j \in DOMAIN edits.set |-> [path |-> edits.set[j].path,
                                              value |-> Decoded[edits.set[j].value]]]
<1>1. /\ edits.remove \in Seq(Paths \ {<<>>}) /\ edits.set \in Seq(T)
  BY DEF EditForm
<1>2. /\ Len(edits.remove) \in Nat /\ Len(edits.set) \in Nat
      /\ DOMAIN edits.set = 1 .. Len(edits.set)
  BY <1>1
<1>3. decoded.remove = edits.remove /\ decoded.set = made
  BY DEF DecodedEdits
<1>4. Len(made) = Len(edits.set)
  BY <1>2
<1> HIDE DEF decoded
<1>5. EditSteps(edits) \in Nat /\ EditSteps(decoded) = EditSteps(edits)
  <2>1. /\ EditSteps(edits) = Len(edits.remove) + Len(edits.set)
        /\ EditSteps(decoded) = Len(decoded.remove) + Len(decoded.set)
    BY DEF EditSteps
  <2>2. EditSteps(decoded) = EditSteps(edits)
    <3> HIDE DEF made, T
    <3> QED
      BY <1>3, <1>4, <2>1, Zenon
  <2>3. EditSteps(edits) \in Nat
    <3>1. \A a \in Nat, b \in Nat : a + b \in Nat
      OBVIOUS
    <3> HIDE DEF made, T
    <3> QED
      BY <1>2, <2>1, <3>1, Zenon
  <2> QED
    BY <2>2, <2>3, Zenon
<1>6. ASSUME NEW i \in 1 .. EditSteps(edits), i > Len(edits.remove)
      PROVE  /\ Setting(edits, i) \in T
             /\ Setting(decoded, i).path = Setting(edits, i).path
             /\ Setting(decoded, i).value = Decoded[Setting(edits, i).value]
  <2> DEFINE j == i - Len(edits.remove)
  <2>1. j \in DOMAIN edits.set
    <3>1. i \in 1 .. Len(edits.remove) + Len(edits.set)
      BY DEF EditSteps
    <3>2. ASSUME NEW a \in Nat, NEW b \in Nat, i \in 1 .. a + b, i > a PROVE i - a \in 1 .. b
      BY <3>2
    <3> QED
      BY <1>2, <1>6, <3>1, <3>2
  <2>2. Setting(edits, i) = edits.set[j] /\ Setting(decoded, i) = made[j]
    BY <1>3 DEF Setting
  <2>3. edits.set[j] \in T
    <3> HIDE DEF T, j
    <3> QED
      BY <1>1, <2>1
  <2>4. /\ made[j].path = edits.set[j].path
        /\ made[j].value = Decoded[edits.set[j].value]
    <3> HIDE DEF j
    <3> QED
      BY <2>1
  <2> HIDE DEF made, j, T
  <2> QED
    BY <2>2, <2>3, <2>4
<1> HIDE DEF made
<1>7. ASSUME NEW i \in 1 .. EditSteps(edits), i > Len(edits.remove)
      PROVE  Setting(edits, i).path \in Paths \ {<<>>} /\ Setting(edits, i).value \in Docs
  BY <1>6, <1>7
<1> QED
  BY <1>3, <1>5, <1>6, <1>7 DEF decoded

(* One step of an edit says of the flat document what the reference says.  *)
LEMMA StepStands ==
  ASSUME NEW doc, Node(doc), NEW edits \in EditForm, NEW i \in 1 .. EditSteps(edits)
  PROVE  LET decoded == DecodedEdits(edits)
         IN  /\ Node(EditStep(doc, decoded, i))
             /\ Flat(EditStep(doc, decoded, i)) = FlatStep(Flat(doc), edits, i)
<1> DEFINE decoded == DecodedEdits(edits)
<1>1. edits.remove \in Seq(Paths \ {<<>>}) /\ decoded.remove = edits.remove
  BY EditsDecode DEF EditForm
<1>2. Len(edits.remove) \in Nat /\ i \in Nat \ {0}
  BY <1>1, EditsDecode
<1>3. CASE i <= Len(edits.remove)
  <2>1. edits.remove[i] \in Paths \ {<<>>}
    BY <1>1, <1>2, <1>3
  <2> HIDE DEF decoded
  <2>2. EditStep(doc, decoded, i) = RemoveAttrPath(doc, edits.remove[i])
    BY <1>1, <1>3 DEF EditStep
  <2>3. FlatStep(Flat(doc), edits, i) = FlatRemove(Flat(doc), edits.remove[i])
    BY <1>3 DEF FlatStep
  <2> QED
    BY <2>1, <2>2, <2>3, RemoveStands DEF decoded
<1>4. CASE ~(i <= Len(edits.remove))
  <2> DEFINE path == Setting(edits, i).path
             value == Setting(edits, i).value
  <2>1. i > Len(edits.remove)
    BY <1>2, <1>4
  <2>2. /\ path \in Paths \ {<<>>} /\ value \in Docs
        /\ Setting(decoded, i).path = path /\ Setting(decoded, i).value = Decoded[value]
    BY <2>1, EditsDecode
  <2> HIDE DEF path, value, decoded
  <2>3. IsDoc(Decoded[value]) /\ Flat(Decoded[value]) = FlatRead(value)
    BY <2>2, DecodedDocs, ReadStands
  <2>4. EditStep(doc, decoded, i) = SetAttrPath(doc, path, Decoded[value])
    BY <1>1, <1>4, <2>2 DEF EditStep
  <2>5. FlatStep(Flat(doc), edits, i) = FlatSet(Flat(doc), path, FlatRead(value))
    BY <1>4 DEF FlatStep, path, value
  <2>6. /\ Node(SetAttrPath(doc, path, Decoded[value]))
        /\ Flat(SetAttrPath(doc, path, Decoded[value]))
             = FlatSet(Flat(doc), path, Flat(Decoded[value]))
    BY <2>2, <2>3, SetStands
  <2>7. Flat(SetAttrPath(doc, path, Decoded[value])) = FlatSet(Flat(doc), path, FlatRead(value))
    BY <2>3, <2>6, Zenon
  <2> QED
    BY <2>4, <2>5, <2>6, <2>7 DEF decoded
<1> QED
  BY <1>3, <1>4

(* The documents of an edit are what their definition says.                *)
LEMMA EditedUnfolds ==
  ASSUME NEW doc, NEW edits, EditSteps(edits) \in Nat
  PROVE  LET after == Edited(doc, edits)
         IN  /\ after[0] = doc
             /\ \A i \in 1 .. EditSteps(edits) : after[i] = EditStep(after[i - 1], edits, i)
<1> DEFINE n == EditSteps(edits)
           Upto(k, f) == f[0] = doc /\ \A i \in 1 .. k : f[i] = EditStep(f[i - 1], edits, i)
           Def(f, i) == IF i = 0 THEN doc ELSE EditStep(f[i - 1], edits, i)
           K == {k \in Nat : \E f : Upto(k, f)}
<1>1. n \in Nat
  OBVIOUS
<1> HIDE DEF n
<1>2. 0 \in K
  <2>1. Upto(0, [i \in 0 .. 0 |-> doc])
    OBVIOUS
  <2> HIDE DEF Upto
  <2> QED
    BY <2>1
<1>3. ASSUME NEW k \in Nat, k \in K PROVE k + 1 \in K
  <2>1. PICK f : Upto(k, f)
    BY <1>3
  <2> DEFINE next == EditStep(f[k], edits, k + 1)
             g == [i \in 0 .. k + 1 |-> IF i = k + 1 THEN next ELSE f[i]]
  <2>2. g[0] = doc /\ g[k + 1] = next /\ \A i \in 0 .. k : g[i] = f[i]
    BY <2>1
  <2> HIDE DEF g
  <2>3. ASSUME NEW i \in 1 .. k + 1 PROVE g[i] = EditStep(g[i - 1], edits, i)
    <3>1. CASE i = k + 1
      <4>1. i - 1 = k /\ g[k] = f[k]
        BY <2>2, <3>1
      <4> QED
        BY <2>2, <3>1, <4>1
    <3>2. CASE i # k + 1
      <4>1. i \in 1 .. k /\ i \in 0 .. k /\ i - 1 \in 0 .. k
        BY <3>2
      <4> QED
        BY <2>1, <2>2, <4>1
    <3> QED
      BY <3>1, <3>2
  <2>4. Upto(k + 1, g)
    BY <2>2, <2>3
  <2> HIDE DEF Upto
  <2> QED
    BY <2>4
<1>4. n \in K
  <2> HIDE DEF K
  <2> QED
    BY <1>1, <1>2, <1>3, SetInduction
<1>5. PICK f : Upto(n, f)
  BY <1>4
<1> DEFINE h == [i \in 0 .. n |-> f[i]]
<1>6. h = [i \in 0 .. n |-> Def(h, i)]
  <2>1. \A i \in 0 .. n : h[i] = f[i]
    OBVIOUS
  <2>2. h = [i \in 0 .. n |-> h[i]]
    OBVIOUS
  <2> HIDE DEF h
  <2>3. ASSUME NEW i \in 0 .. n PROVE h[i] = Def(h, i)
    <3>1. CASE i = 0
      BY <1>1, <1>5, <2>1, <3>1
    <3>2. CASE i # 0
      <4>1. i \in 1 .. n /\ i - 1 \in 0 .. n
        BY <1>1, <3>2
      <4> QED
        BY <1>5, <2>1, <3>2, <4>1
    <3> QED
      BY <3>1, <3>2
  <2> HIDE DEF Def
  <2> QED
    BY <2>2, <2>3
<1> DEFINE after == CHOOSE g : g = [i \in 0 .. n |-> Def(g, i)]
<1>7. Edited(doc, edits) = after
  BY DEF Edited, n
<1>8. after = [i \in 0 .. n |-> Def(after, i)]
  BY <1>6, Zenon
<1> HIDE DEF after, h
<1>9. \A i \in 0 .. n : after[i] = Def(after, i)
  <2> HIDE DEF Def
  <2> QED
    BY <1>8
<1>10. after[0] = doc
  BY <1>1, <1>9
<1>11. ASSUME NEW i \in 1 .. n PROVE after[i] = EditStep(after[i - 1], edits, i)
  <2>1. i \in 0 .. n /\ i # 0
    BY <1>1
  <2> QED
    BY <1>9, <2>1
<1> QED
  BY <1>7, <1>10, <1>11 DEF n

(* They are documents, or an error.                                        *)
LEMMA EditedNodes ==
  ASSUME NEW doc, Node(doc), NEW edits \in EditForm
  PROVE  \A i \in 0 .. EditSteps(edits) : Node(Edited(doc, DecodedEdits(edits))[i])
<1> DEFINE n == EditSteps(edits)
           after == Edited(doc, DecodedEdits(edits))
           K == {k \in Nat : k <= n => Node(after[k])}
<1>1. n \in Nat
  BY EditsDecode
<1>2. /\ after[0] = doc
      /\ \A i \in 1 .. n : after[i] = EditStep(after[i - 1], DecodedEdits(edits), i)
  BY EditsDecode, EditedUnfolds
<1> HIDE DEF after
<1>3. 0 \in K
  BY <1>2
<1>4. ASSUME NEW k \in Nat, k \in K PROVE k + 1 \in K
  <2> SUFFICES ASSUME k + 1 <= n PROVE Node(after[k + 1])
    OBVIOUS
  <2>1. k + 1 \in 1 .. n /\ Node(after[k]) /\ (k + 1) - 1 = k
    BY <1>1, <1>4
  <2>2. after[k + 1] = EditStep(after[k], DecodedEdits(edits), k + 1)
    BY <1>2, <2>1
  <2> QED
    BY <2>1, <2>2, StepStands
<1>5. Nat \subseteq K
  <2> HIDE DEF K
  <2> QED
    BY <1>3, <1>4, SetInduction
<1> QED
  BY <1>1, <1>5 DEF after

(* An edit does to the document what the reference does to the flat one,   *)
(* and both start with what is read of it.                                 *)
LEMMA EditStands ==
  ASSUME NEW doc \in Docs, NEW edits \in EditForm
  PROVE  Flat(Edit(doc, edits)) = FlatEdited(doc, edits)[EditSteps(edits)]
<1> DEFINE n == EditSteps(edits)
           after == Edited(Decoded[doc], DecodedEdits(edits))
           g == [i \in 0 .. n |-> Flat(after[i])]
           Def(f, i) == IF i = 0 THEN FlatRead(doc) ELSE FlatStep(f[i - 1], edits, i)
           flat == CHOOSE f : f = [i \in 0 .. n |-> Def(f, i)]
           K == {k \in Nat : k <= n => flat[k] = Flat(after[k])}
<1>1. n \in Nat
  BY EditsDecode
<1>2. /\ after[0] = Decoded[doc]
      /\ \A i \in 1 .. n : after[i] = EditStep(after[i - 1], DecodedEdits(edits), i)
  BY EditsDecode, EditedUnfolds
<1>3. \A i \in 0 .. n : Node(after[i])
  BY DecodedDocs, EditedNodes DEF Node
<1> HIDE DEF after, n
<1>4. ASSUME NEW i \in 1 .. n
      PROVE  /\ i - 1 \in 0 .. n /\ i \in 0 .. n /\ i # 0
             /\ Flat(after[i]) = FlatStep(Flat(after[i - 1]), edits, i)
  <2>1. i - 1 \in 0 .. n /\ i \in 0 .. n /\ i # 0
    BY <1>1
  <2> QED
    BY <1>2, <1>3, <2>1, StepStands DEF n
<1>5. g = [i \in 0 .. n |-> Def(g, i)]
  <2>1. \A i \in 0 .. n : g[i] = Flat(after[i])
    OBVIOUS
  <2>2. g = [i \in 0 .. n |-> g[i]]
    OBVIOUS
  <2> HIDE DEF g
  <2>3. ASSUME NEW i \in 0 .. n PROVE g[i] = Def(g, i)
    <3>1. CASE i = 0
      BY <1>1, <1>2, <2>1, <3>1, ReadStands
    <3>2. CASE i # 0
      <4>1. i \in 1 .. n
        BY <1>1, <3>2
      <4> QED
        BY <1>4, <2>1, <3>2, <4>1
    <3> QED
      BY <3>1, <3>2
  <2> HIDE DEF Def
  <2> QED
    BY <2>2, <2>3
<1>6. FlatEdited(doc, edits) = flat
  BY DEF FlatEdited, n
<1>7. flat = [i \in 0 .. n |-> Def(flat, i)]
  BY <1>5, Zenon
<1> HIDE DEF flat, g
<1>8. \A i \in 0 .. n : flat[i] = Def(flat, i)
  <2> HIDE DEF Def
  <2> QED
    BY <1>7
<1>9. 0 \in K
  BY <1>1, <1>2, <1>8, ReadStands
<1>10. ASSUME NEW k \in Nat, k \in K PROVE k + 1 \in K
  <2> SUFFICES ASSUME k + 1 <= n PROVE flat[k + 1] = Flat(after[k + 1])
    OBVIOUS
  <2>1. k + 1 \in 1 .. n /\ flat[k] = Flat(after[k]) /\ (k + 1) - 1 = k
    BY <1>1, <1>10
  <2>2. flat[k + 1] = FlatStep(flat[k], edits, k + 1)
    BY <1>4, <1>8, <2>1
  <2>3. Flat(after[k + 1]) = FlatStep(Flat(after[k]), edits, k + 1)
    BY <1>4, <2>1
  <2> QED
    BY <2>1, <2>2, <2>3
<1>11. Nat \subseteq K
  <2> HIDE DEF K
  <2> QED
    BY <1>9, <1>10, SetInduction
<1>12. flat[n] = Flat(after[n])
  BY <1>1, <1>11
<1> QED
  BY <1>6, <1>12 DEF Edit, after, n

-----------------------------------------------------------------------------
(* What "attr" makes of a value.                                           *)

(* A process that has read a value has what the current "attr" makes of it.*)
HoldsEdit(p) ==
    proc[p].got # None =>
      /\ proc[p].pc \in {"attr", "stopped"}
      /\ proc[p].at \in DOMAIN proc[p].ops
      /\ Valid(Current(p)) /\ Current(p).op = "attr"
      /\ proc[p].new = AttrResult(proc[p].got, proc[p].secret, Current(p).edits)
AttrInv == \A p \in Procs : HoldsEdit(p)

(* A process whose memory stays, or that stops, keeps it.                  *)
LEMMA HoldsOn ==
  ASSUME NEW p \in Procs, HoldsEdit(p), proc[p] \in ProcState,
         \/ proc'[p] = proc[p] \/ proc'[p] = [proc[p] EXCEPT !.pc = "stopped"]
         \/ proc'[p].got = None
  PROVE  HoldsEdit(p)'
<1>1. CASE proc'[p] = proc[p]
  BY <1>1 DEF HoldsEdit, Current
<1>2. CASE proc'[p] = [proc[p] EXCEPT !.pc = "stopped"]
  <2>1. /\ proc'[p].pc = "stopped" /\ proc'[p].at = proc[p].at /\ proc'[p].ops = proc[p].ops
        /\ proc'[p].got = proc[p].got /\ proc'[p].new = proc[p].new
        /\ proc'[p].secret = proc[p].secret
    BY <1>2 DEF ProcState
  <2> QED
    BY <2>1 DEF HoldsEdit, Current
<1>3. CASE proc'[p].got = None
  BY <1>3 DEF HoldsEdit
<1> QED
  BY <1>1, <1>2, <1>3

(* A step of p's own keeps it.                                             *)
LEMMA HoldsMoves ==
  ASSUME TypeOK, RunInv, NEW p \in Procs, HoldsEdit(p), Moves(p) PROVE HoldsEdit(p)'
<1>1. proc[p] \in ProcState /\ Idle.got = None
  BY DEF TypeOK, Idle
<1>2. CASE Starts(p)
  <2>1. PICK ops, secret, expected : Load(p, ops, secret, expected)
    BY <1>2, StartsType DEF Starts
  <2>2. \E next : proc'[p] = [Idle EXCEPT !.pc = next, !.ops = ops, !.secret = secret]
    BY <2>1 DEF Load, Step, Fresh, TypeOK
  <2>3. proc'[p].got = None
    BY <2>2 DEF Idle
  <2> QED
    BY <1>1, <2>3, HoldsOn
<1>3. ASSUME NEW value, Apply(p, value) PROVE HoldsEdit(p)'
  <2>1. proc'[p] = Advanced(proc[p]) \/ proc'[p] = [proc[p] EXCEPT !.pc = "stopped"]
    BY <1>3 DEF Apply, Step, TypeOK
  <2>2. Advanced(proc[p]).got = None
    BY <1>1 DEF Advanced, ProcState
  <2> QED
    BY <1>1, <2>1, <2>2, HoldsOn
<1>4. CASE RunAttrGet(p)
  <2> DEFINE got == Answer(Slot(Current(p)))
             new == AttrResult(got, proc[p].secret, Current(p).edits)
  <2>1. /\ proc[p].pc = "run" /\ Current(p).op = "attr"
        /\ proc'[p] = [proc[p] EXCEPT !.pc = GoesOn(new), !.got = got, !.new = new]
    BY <1>4 DEF RunAttrGet, Step, TypeOK
  <2>2. GoesOn(new) \in {"attr", "stopped"}
    BY DEF GoesOn
  <2> HIDE DEF new, got
  <2>3. /\ proc'[p].pc = GoesOn(new) /\ proc'[p].got = got /\ proc'[p].new = new
        /\ proc'[p].at = proc[p].at /\ proc'[p].ops = proc[p].ops
        /\ proc'[p].secret = proc[p].secret
    BY <1>1, <2>1 DEF ProcState
  <2>4. Current(p)' = Current(p)
    BY <2>3 DEF Current
  <2>5. Valid(Current(p)) /\ proc[p].at \in DOMAIN proc[p].ops
    BY <2>1, CurrentType DEF RunInv, RunsWell
  <2> QED
    BY <2>1, <2>2, <2>3, <2>4, <2>5 DEF HoldsEdit, new
<1>5. CASE Exports(p)
  <2>1. CASE ExportList(p)
    <3>1. PICK todo : proc'[p] = IF todo = {} THEN Idle
                                 ELSE [Idle EXCEPT !.pc = "get", !.todo = todo]
      BY <2>1 DEF ExportList, Step, TypeOK
    <3>2. proc'[p].got = None
      BY <3>1 DEF Idle
    <3> QED
      BY <1>1, <3>2, HoldsOn
  <2>2. CASE ExportGet(p) \/ ExportOpen(p)
    <3>1. proc[p].got = None
      BY <2>2 DEF ExportGet, ExportOpen, HoldsEdit
    <3>2. proc'[p].got = proc[p].got
      <4>1. CASE ExportGet(p)
        <5> DEFINE Got(slot) == [proc[p] EXCEPT
                                   !.ops = Append(@, ExportOp(slot, Answer(slot))),
                                   !.todo = @ \ {slot},
                                   !.pc = IF proc[p].todo = {slot} THEN "open" ELSE "get"]
        <5>1. PICK slot \in proc[p].todo : Step(p, Got(slot))
          BY <4>1 DEF ExportGet
        <5>2. Got(slot).got = proc[p].got
          BY <1>1 DEF ProcState
        <5> HIDE DEF Got
        <5>3. proc'[p] = Got(slot)
          BY <5>1 DEF Step, TypeOK
        <5> QED
          BY <5>2, <5>3
      <4>2. CASE ExportOpen(p)
        BY <1>1, <4>2 DEF ExportOpen, Step, TypeOK, ProcState
      <4> QED
        BY <2>2, <4>1, <4>2
    <3> QED
      BY <1>1, <3>1, <3>2, HoldsOn
  <2>3. CASE ExportSave(p)
    <3>1. proc'[p].got = None
      BY <1>1, <2>3 DEF ExportSave, Step, TypeOK
    <3> QED
      BY <1>1, <3>1, HoldsOn
  <2> QED
    BY <1>5, <2>1, <2>2, <2>3 DEF Exports
<1>6. CASE Fail(p)
  <2>1. proc'[p] = Idle \/ proc'[p] = [proc[p] EXCEPT !.pc = "stopped"]
    BY <1>6 DEF Fail, Step, TypeOK
  <2> QED
    BY <1>1, <2>1, HoldsOn
<1> QED
  BY <1>2, <1>3, <1>4, <1>5, <1>6 DEF Moves, Calls, RunSet, RunDelete, RunAttrSet

(* Every step keeps it.                                                    *)
LEMMA StepHolds ==
  ASSUME TypeOK, RunInv, AttrInv, [Next]_vars PROVE AttrInv'
<1>0. \A p \in Procs : proc[p] \in ProcState
  BY DEF TypeOK
<1>1. ASSUME NEW q \in Procs, Moves(q), NEW p \in Procs PROVE HoldsEdit(p)'
  <2>1. CASE p = q
    BY <1>1, <2>1, HoldsMoves DEF AttrInv
  <2>2. CASE p # q
    BY <1>0, <1>1, <2>2, MoveType, HoldsOn DEF AttrInv
  <2> QED
    BY <2>1, <2>2
<1>2. ASSUME ForeignWrite \/ UNCHANGED vars, NEW p \in Procs PROVE HoldsEdit(p)'
  <2>1. proc' = proc
    BY <1>2 DEF ForeignWrite, vars
  <2> QED
    BY <1>0, <2>1, HoldsOn DEF AttrInv
<1> QED
  BY <1>1, <1>2, Steps DEF AttrInv

(* What a process has computed is what its edits mean.                     *)
LEMMA HeldIsMeant ==
  ASSUME TypeOK, AttrInv PROVE EditsOnlyAddressed
<1> SUFFICES ASSUME NEW p \in Procs, proc[p].got # None,
                    Document(proc[p].got, proc[p].secret) \in Docs, NEW path \in LookedAt
             PROVE  LET doc == Document(proc[p].got, proc[p].secret)
                        edits == Current(p).edits
                    IN  Content(At(proc[p].new, path))
                          = FlatEdited(doc, edits)[EditSteps(edits)][path]
  BY DEF EditsOnlyAddressed
<1> DEFINE doc == Document(proc[p].got, proc[p].secret)
           edits == Current(p).edits
<1>1. /\ proc[p].got \in Stored /\ proc[p].ops \in Seq(BatchOp)
  BY DEF TypeOK, ProcState
<1>2. /\ proc[p].at \in DOMAIN proc[p].ops /\ Valid(Current(p)) /\ Current(p).op = "attr"
      /\ proc[p].new = AttrResult(proc[p].got, proc[p].secret, edits)
  BY DEF AttrInv, HoldsEdit
<1>3. Current(p) \in BatchOp
  BY <1>1, <1>2 DEF Current
<1>4. edits \in Edits
  BY <1>2, <1>3 DEF Valid, BatchOp
<1>5. IsDoc(doc) /\ doc # Failed
  BY DocsAre, NodeTypes, ErrorAssumption DEF Node
<1>6. doc \in Contents
  <2>1. Open(proc[p].got, proc[p].secret) # Failed => Open(proc[p].got, proc[p].secret).plain \in Contents
    BY <1>1, OpenType DEF Stored
  <2> QED
    BY <1>5, <2>1, ContentAssumption DEF Document
<1>7. proc[p].new = Edit(doc, edits)
  <2>1. proc[p].new = AttrEdit(doc, edits)
    BY <1>2, <1>5 DEF AttrResult
  <2> HIDE DEF doc, edits
  <2> QED
    BY <1>4, <1>6, <2>1, AttrAssumption DEF doc
<1>8. edits \in EditForm
  BY <1>4, PathAssumption DEF EditForm
<1>9. Flat(Edit(doc, edits)) = FlatEdited(doc, edits)[EditSteps(edits)]
  <2>1. doc \in Docs
    OBVIOUS
  <2> HIDE DEF doc, edits
  <2> QED
    BY <1>8, <2>1, EditStands
<1>10. Content(At(proc[p].new, path)) = Flat(proc[p].new)[path]
  BY LookedAtAssumption DEF Flat
<1> QED
  BY <1>7, <1>9, <1>10

(* Whatever is stored, and whatever fails or is written by others: what an *)
(* "attr" writes is what its removals and settings mean, each at its own   *)
(* place and in their order.  Everything else is as it is stored, except   *)
(* that every number of the document, where no path leads too, has become  *)
(* the float64 nearest to it (SetAttrPath, RemoveAttrPath, execBatchOp).   *)
THEOREM OnlyAddressed == Spec => []EditsOnlyAddressed
<1>1. Init => TypeOK /\ RunInv /\ AttrInv
  BY InitTypes DEF Init, AttrInv, HoldsEdit, Idle
<1>2. TypeOK /\ RunInv /\ AttrInv /\ [Next]_vars => (TypeOK /\ RunInv /\ AttrInv)'
  BY StepTypes, StepHolds
<1>3. TypeOK /\ AttrInv => EditsOnlyAddressed
  BY HeldIsMeant
<1> QED
  BY <1>1, <1>2, <1>3, PTL DEF Spec
===============================================================================
