-------------------------- MODULE RouterFindProofs --------------------------
(***************************************************************************)
(* Proofs about Find in Router: where no route has an escaped colon in the *)
(* place of another one's parameter, it never panics.                      *)
(***************************************************************************)
EXTENDS RouterProofs

\* The character of a path that a parameter or a wildcard stands for
Special(s, k) == s[k] = "*" \/ (s[k] = ":" /\ k > 1 /\ s[k - 1] \in ParamAfter)

\* How many of them are among the first m characters, and in a node's word
Count(s, m) == Cardinality({k \in 1 .. m : Special(s, k)})
Params(w, i) == Count(w[i], Len(w[i]))

\* A static node has none in its part; another node's part is just that, and a
\* wildcard knows how many there are in its word
KindsOf(t, w) ==
  \A i \in DOMAIN t :
    /\ t[i].kind = "static" =>
         \A k \in StartIn(t, w, i) + 1 .. Len(w[i]) : ~Special(w[i], k)
    /\ t[i].kind # "static" =>
         /\ Len(t[i].prefix) = 1
         /\ Special(w[i], Len(w[i]))
         /\ (t[i].kind = "any") <=> (w[i][Len(w[i])] = "*")
    /\ t[i].kind = "any" => t[i].paramsCount = Params(w, i)
    /\ \A c \in t[i].statics : t[c].kind = "static"
    /\ t[i].param # NoNode => t[t[i].param].kind = "param"
    /\ t[i].any # NoNode => t[t[i].any].kind = "any"

\* The colons of a path from i on are parameters or escaped
Colons(p, i) ==
  \A j \in i .. Len(p) : p[j] = ":" /\ j > 1 =>
    IF p[j - 1] = "\\" THEN j > 2 /\ p[j - 2] \notin ParamAfter ELSE p[j - 1] \in ParamAfter

\* Add has found the parameters among the first m characters, and is past them
ScannedTo(m) ==
  /\ m \in 0 .. Len(add.path) /\ m < add.i
  /\ Len(add.pnames) = Count(add.path, m)
  /\ \A k \in m + 1 .. Len(add.path) : k < add.i => ~Special(add.path, k)

\* There is a node wherever one of the first m characters stands for a parameter
Marked(w, p, m) == \A k \in 1 .. m : Special(p, k) => NodeAt(w, p, k)

ScanInv(w) ==
  /\ pc \in {"scan", "insert"} => Colons(add.path, add.i)
  /\ pc = "scan" => \E m \in 0 .. Len(add.path) : ScannedTo(m) /\ Marked(w, add.path, m)
  /\ pc = "insert" =>
       LET q == calls[Len(calls)]
           m == Len(q.path)
       IN  /\ Len(add.pnames) = Count(add.path, m)
           /\ q.kind = "static" => Marked(w, add.path, m)
           /\ q.kind # "static" => /\ Marked(w, add.path, m - 1)
                                   /\ ScannedTo(m) /\ Special(add.path, m)

\* A context has room for the values of every node's parameters, but for those
\* of the route that is being added
CountInv(w) ==
  \A i \in DOMAIN tree :
    \/ Params(w, i) <= maxParam
    \/ pc \in {"scan", "insert"} /\ Params(w, i) <= Len(add.pnames)

SegInv(w) == Inv(w) /\ KindsOf(tree, w) /\ ScanInv(w) /\ CountInv(w)

\* What Find has taken of the topic with node j, and before it
TakenBy(w, j, values) ==
  IF tree[j].kind = "static" THEN Len(tree[j].prefix) ELSE Len(values[Params(w, j)])
Above(off, j) == IF tree[j].parent = NoNode THEN 0 ELSE off[tree[j].parent]

\* The nodes on the way to node i
OnWay(w, j, i) == Len(w[j]) <= Len(w[i]) /\ Agree(w[j], w[i], Len(w[j]))

\* off says how much of the topic is taken after each node on the way
Taking(w, i, values, off) ==
  /\ off \in [DOMAIN tree -> Nat]
  /\ \A j \in DOMAIN tree : OnWay(w, j, i) => off[j] = Above(off, j) + TakenBy(w, j, values)

Walking(w, l, f) ==
  /\ f.node \in DOMAIN tree
  /\ Len(f.pvalues) = maxParam
  /\ \A k \in 1 .. Len(w[f.node]) : w[f.node][k] # "*"
  /\ f.paramIndex = Params(w, f.node)
  /\ \E off : /\ Taking(w, f.node, f.pvalues, off)
              /\ f.searchIndex = IF l = "loop" /\ tree[f.node].kind = "static"
                                 THEN Above(off, f.node) ELSE off[f.node]

FindAt(w, l, f) ==
  /\ l # "panic"
  /\ l \in {"loop", "param", "any"} => Walking(w, l, f)
  /\ l = "out" => f.best # NoNode \/ f.matched # NoRoute \/ f.node = NoNode

-----------------------------------------------------------------------------
(* Counting parameters *)

\* There are only so many.
LEMMA CountNat ==
  ASSUME NEW s, NEW m \in Nat
  PROVE  IsFiniteSet({k \in 1 .. m : Special(s, k)}) /\ Count(s, m) \in Nat
<1> DEFINE S == {k \in 1 .. m : Special(s, k)}
<1>1. IsFiniteSet(1 .. m) /\ S \in SUBSET (1 .. m)
  BY FS_Interval
<1> HIDE DEF S
<1>2. IsFiniteSet(S)
  BY <1>1, FS_Subset
<1> QED
  BY <1>2, FS_CardinalityType DEF Count, S

\* Paths that agree have the same ones.
LEMMA CountAgree ==
  ASSUME NEW s, NEW t, NEW m \in Nat, Agree(s, t, m)
  PROVE  Count(s, m) = Count(t, m) /\ \A k \in 1 .. m : Special(s, k) <=> Special(t, k)
<1>1. \A k \in 1 .. m : Special(s, k) <=> Special(t, k)
  <2> SUFFICES ASSUME NEW k \in 1 .. m PROVE Special(s, k) <=> Special(t, k)
    OBVIOUS
  <2>1. s[k] = t[k] /\ (k > 1 => s[k - 1] = t[k - 1])
    BY DEF Agree
  <2> QED
    BY <2>1 DEF Special
<1>2. {k \in 1 .. m : Special(s, k)} = {k \in 1 .. m : Special(t, k)}
  BY <1>1
<1> QED
  BY <1>1, <1>2 DEF Count

\* More characters have no fewer.
LEMMA CountMono ==
  ASSUME NEW s, NEW l \in Nat, NEW m \in Nat, l <= m
  PROVE  Count(s, l) <= Count(s, m)
<1> DEFINE S == {k \in 1 .. l : Special(s, k)}
           T == {k \in 1 .. m : Special(s, k)}
<1>1. S \in SUBSET T
  OBVIOUS
<1>2. IsFiniteSet(T)
  BY CountNat
<1> HIDE DEF S, T
<1> QED
  BY <1>1, <1>2, FS_Subset DEF Count, S, T

\* Ordinary characters do not count.
LEMMA CountNone ==
  ASSUME NEW s, NEW l \in Nat, NEW m \in Nat, l <= m, \A k \in l + 1 .. m : ~Special(s, k)
  PROVE  Count(s, m) = Count(s, l)
<1>1. {k \in 1 .. m : Special(s, k)} = {k \in 1 .. l : Special(s, k)}
  <2> SUFFICES ASSUME NEW k PROVE k \in {i \in 1 .. m : Special(s, i)} <=> k \in {i \in 1 .. l : Special(s, i)}
    OBVIOUS
  <2>1. k \in 1 .. m => k \in 1 .. l \/ k \in l + 1 .. m
    OBVIOUS
  <2>2. k \in 1 .. l => k \in 1 .. m
    OBVIOUS
  <2> QED
    BY <2>1, <2>2
<1> QED
  BY <1>1 DEF Count

\* A parameter counts for one.
LEMMA CountOne ==
  ASSUME NEW s, NEW m \in Nat, Special(s, m + 1)
  PROVE  Count(s, m + 1) = Count(s, m) + 1
<1> DEFINE S == {k \in 1 .. m : Special(s, k)}
<1>1. {k \in 1 .. m + 1 : Special(s, k)} = S \cup {m + 1}
  OBVIOUS
<1>2. m + 1 \notin S
  OBVIOUS
<1>3. IsFiniteSet(S)
  BY CountNat
<1> HIDE DEF S
<1>4. Cardinality(S \cup {m + 1}) = Cardinality(S) + 1
  BY <1>2, <1>3, FS_AddElement
<1> QED
  BY <1>1, <1>4 DEF Count, S

-----------------------------------------------------------------------------
(* The calls of insert *)

\* Whether there is a node depends on these characters only.
LEMMA NodeAtAgree ==
  ASSUME NEW w, NEW s, NEW t, NEW m, Agree(s, t, m), NodeAt(w, s, m)
  PROVE  NodeAt(w, t, m)
<1>1. PICK j \in DOMAIN tree : Len(w[j]) = m /\ Agree(w[j], s, m)
  BY DEF NodeAt
<1> QED
  BY <1>1, AgreeTrans DEF NodeAt

\* Nor does it depend on others where there are nodes for parameters.
LEMMA MarkedAgree ==
  ASSUME NEW w, NEW s, NEW t, NEW m \in Int, NEW l \in Int, l <= m, Agree(s, t, l), Marked(w, s, m)
  PROVE  Marked(w, t, l)
<1> SUFFICES ASSUME NEW k \in 1 .. l, Special(t, k) PROVE NodeAt(w, t, k)
  BY DEF Marked
<1>1. k \in Nat /\ k \in 1 .. k /\ k \in 1 .. m /\ k <= l
  OBVIOUS
<1>2. Agree(s, t, k)
  BY <1>1, AgreeLess
<1>3. Special(s, k)
  BY <1>1, <1>2, CountAgree
<1>4. NodeAt(w, s, k)
  BY <1>1, <1>3 DEF Marked
<1> QED
  BY <1>2, <1>4, NodeAtAgree

\* The running call: the path's parameters have nodes, but for the one that the
\* call is for, and there are as many as Add has names.
CallOK(w) ==
  /\ Now.kind = "static" => Marked(w, Now.path, Len(Now.path))
  /\ Now.kind # "static" => Special(Now.path, Len(Now.path))
  /\ Now.kind = "param" => Now.path[Len(Now.path)] = ":"
  /\ Now.kind = "any" => Now.path[Len(Now.path)] = "*" /\ Now.rm.handler # "nil"
  /\ Count(Now.path, Len(Now.path)) <= Len(add.pnames)
  /\ Now.rm.handler # "nil" => Len(Now.rm.pnames) = Count(Now.path, Len(Now.path))

\* Every call of insert is such a one.
LEMMA CallIsOK ==
  ASSUME NEW w, SegInv(w), pc = "insert"
  PROVE  CallOK(w)
<1>1. TypeInv /\ AddInv /\ ScanInv(w)
  BY DEF SegInv, Inv
<1>2. calls \in Seq(Caller) /\ Len(calls) \in 1 .. 2 /\ add \in Adds /\ DOMAIN calls = 1 .. Len(calls)
  BY <1>1 DEF TypeInv, AddInv
<1>3. PICK q : q = calls[Len(calls)]
  OBVIOUS
<1>4. PICK m : m = Len(q.path)
  OBVIOUS
<1>5. /\ Len(add.pnames) = Count(add.path, m)
      /\ q.kind = "static" => Marked(w, add.path, m)
      /\ q.kind # "static" => Marked(w, add.path, m - 1) /\ Special(add.path, m)
  BY <1>1, <1>3, <1>4 DEF ScanInv
<1>6. m \in Nat /\ m >= 1 /\ Agree(q.path, add.path, m) /\ q.path \in Seq(Characters)
  BY <1>1, <1>2, <1>3, <1>4, CallPaths
<1>7. /\ Count(q.path, m) = Len(add.pnames) /\ (Special(q.path, m) <=> Special(add.path, m))
      /\ Len(add.pnames) \in Nat
  BY <1>2, <1>5, <1>6, CountAgree DEF Adds
<1>8. q.rm \in {EmptyRoute} \cup {Full(add.pnames)} /\ Full(add.pnames).pnames = add.pnames
  BY <1>1, <1>2, <1>3 DEF AddInv, Full
<1>9. EmptyRoute.handler = "nil"
  BY DEF EmptyRoute
<1>10. Agree(add.path, q.path, m) /\ Agree(add.path, q.path, m - 1)
  BY <1>6, AgreeSym, AgreeLess
<1>11. CASE Len(calls) = 1
  <2>1. Now = q
    BY <1>3, <1>11 DEF Now
  <2>2. q.kind = "static" => Marked(w, q.path, m)
    BY <1>5, <1>6, <1>10, MarkedAgree
  <2>3. q.kind = "param" => q.path[m] = ":"
    BY <1>1, <1>3, <1>4 DEF AddInv
  <2>4. q.kind = "any" => q.path[m] = "*" /\ q.rm # EmptyRoute
    BY <1>1, <1>3, <1>4 DEF AddInv
  <2>5. q.rm # EmptyRoute => q.rm.handler # "nil"
    <3>1. Full(add.pnames).handler = add.method /\ add.method \in AnyMethod
      BY <1>1 DEF Full, AddInv
    <3> QED
      BY <1>8, <3>1, MethodsAssumption DEF AnyMethod, RouteNotFound
  <2>6. q.rm.handler # "nil" => Len(q.rm.pnames) = Len(add.pnames)
    BY <1>8, <1>9
  <2> QED
    BY <1>4, <1>5, <1>7, <2>1, <2>2, <2>3, <2>4, <2>5, <2>6 DEF CallOK
<1>12. CASE Len(calls) = 2
  <2>1. /\ q = calls[2] /\ Now = calls[1] /\ Now.kind = "static" /\ Now.rm = EmptyRoute
        /\ q.kind # "static" /\ m = Len(Now.path) + 1
    BY <1>1, <1>3, <1>4, <1>12 DEF AddInv, Now
  <2>2. Len(Now.path) \in Nat /\ Agree(Now.path, add.path, Len(Now.path))
    BY <1>1, <1>2, <1>12, CallPaths DEF Now
  <2>3. Agree(add.path, Now.path, Len(Now.path)) /\ m - 1 \in Int /\ Len(Now.path) <= m - 1
    BY <1>6, <2>1, <2>2, AgreeSym
  <2>4. Marked(w, Now.path, Len(Now.path))
    BY <1>5, <2>1, <2>2, <2>3, MarkedAgree
  <2>5. Count(Now.path, Len(Now.path)) = Count(add.path, Len(Now.path))
    BY <2>2, CountAgree
  <2>6. Count(add.path, Len(Now.path)) <= Count(add.path, m)
    BY <1>6, <2>1, <2>2, CountMono
  <2> QED
    BY <1>5, <1>9, <2>1, <2>4, <2>5, <2>6 DEF CallOK
<1> QED
  BY <1>2, <1>11, <1>12

-----------------------------------------------------------------------------
(* insert keeps the kinds of nodes *)

\* The first part is that of a static node.
LEMMA RootKinds ==
  ASSUME NEW w, SegInv(w), InsertAtRoot, NEW v, v = RootWords
  PROVE  KindsOf(tree', v)
<1>1. TypeInv /\ AddInv /\ WordInv(w) /\ WalkInv(w) /\ pc = "insert" /\ KindsOf(tree, w)
  BY DEF SegInv, Inv, InsertAtRoot, Inserting
<1>2. CallOK(w)
  BY <1>1, CallIsOK
<1>3. /\ Len(tree') = Len(tree) /\ tree' \in Seq(Nodes) /\ Node.prefix = <<>>
      /\ tree'[cur.node].statics = Node.statics /\ tree'[cur.node].param = Node.param
      /\ tree'[cur.node].any = Node.any
      /\ tree'[cur.node].kind = IF Now.rm.handler # "nil" THEN Now.kind ELSE Node.kind
  BY <1>1, RootShape
<1>4. cur.node \in DOMAIN tree /\ Node = tree[cur.node] /\ Now.path \in Seq(Characters)
  BY <1>1, InsertFacts
<1>5. Len(tree) = 1 /\ IsLeafNode(Node)
  BY <1>1, <1>3, <1>4 DEF WordInv, WordsOf
<1>6. DOMAIN tree = {Root} /\ DOMAIN tree' = {Root} /\ cur.node = Root
  BY <1>1, <1>3, <1>4, <1>5 DEF TypeInv, Root
<1>7. Len(w[Root]) = 0
  BY <1>1, <1>3, <1>4, <1>6 DEF WordInv, WordsOf, StartIn
<1>8. ASSUME NEW k \in Nat, k # 0 PROVE ~NodeAt(w, Now.path, k)
  BY <1>6, <1>7, <1>8 DEF NodeAt
<1>9. Now.path[1] = "/" /\ Len(Now.path) \in Nat /\ Len(Now.path) >= 1
  BY <1>1, CallPaths DEF Now, AddInv, TypeInv
<1>10. Now.kind = "static"
  <2>1. SUFFICES ASSUME Now.kind # "static" PROVE FALSE
    OBVIOUS
  <2>2. NodeAt(w, Now.path, Len(Now.path) - 1)
    BY <1>1, <2>1 DEF WalkInv
  <2>3. Len(Now.path) = 1
    <3>1. PICK k : k = Len(Now.path) - 1
      OBVIOUS
    <3>2. k \in Nat /\ NodeAt(w, Now.path, k)
      BY <1>9, <2>2, <3>1
    <3>3. k = 0
      BY <1>8, <3>2
    <3> QED
      BY <1>9, <3>1, <3>3
  <2> QED
    BY <1>2, <1>9, <2>1, <2>3 DEF CallOK, Special
<1>11. Node.kind = "static"
  <2>1. Len(Node.prefix) # 1
    BY <1>3
  <2> QED
    BY <1>1, <1>4, <2>1 DEF KindsOf
<1>12. ASSUME NEW k \in 1 .. Len(Now.path) PROVE ~Special(Now.path, k)
  BY <1>2, <1>8, <1>10 DEF CallOK, Marked
<1>13. v[Root] = Now.path /\ StartIn(tree', v, Root) \in Int /\ StartIn(tree', v, Root) >= 0
  <2>1. WordsOf(tree', v)
    BY RootStep DEF SegInv
  <2>2. v[Root] = Now.path
    BY DEF RootWords
  <2> QED
    BY <1>3, <1>6, <2>1, <2>2, StartInFacts
<1>14. tree'[Root].kind = "static" /\ tree'[Root].statics = {} /\ tree'[Root].param = NoNode
       /\ tree'[Root].any = NoNode
  BY <1>3, <1>5, <1>6, <1>10, <1>11 DEF IsLeafNode
<1> QED
  BY <1>6, <1>9, <1>12, <1>13, <1>14 DEF KindsOf

\* A node that gets another handler keeps its kind.
LEMMA ExistsKinds ==
  ASSUME NEW w, SegInv(w), InsertExists
  PROVE  KindsOf(tree', w)
<1>1. TypeInv /\ AddInv /\ WordInv(w) /\ WalkInv(w) /\ pc = "insert" /\ KindsOf(tree, w)
  BY DEF SegInv, Inv, InsertExists, Inserting
<1>2. CallOK(w)
  BY <1>1, CallIsOK
<1>3. /\ tree' \in Seq(Nodes) /\ Len(tree') = Len(tree)
      /\ \A i \in DOMAIN tree : SamePlace(tree[i], tree'[i]) /\ tree'[i].kind = tree[i].kind
      /\ \A i \in DOMAIN tree \ {cur.node} : tree'[i].paramsCount = tree[i].paramsCount
      /\ tree'[cur.node].paramsCount
           = IF Now.rm.handler # "nil" THEN Len(Now.rm.pnames) ELSE Node.paramsCount
  BY <1>1, ExistsShape
<1>4. DOMAIN tree' = DOMAIN tree
  BY <1>1, <1>3 DEF TypeInv
<1>5. /\ cur.node \in DOMAIN tree /\ Node = tree[cur.node] /\ Now.path \in Seq(Characters)
      /\ Len(w[cur.node]) = Start(w, cur.node) + Len(Node.prefix)
      /\ Len(Now.path) = Start(w, cur.node) + Len(cur.search)
      /\ Agree(w[cur.node], Now.path, Reached(w))
      /\ w[cur.node] \in Seq(Characters) /\ Start(w, cur.node) \in Nat
  BY <1>1, InsertFacts
<1>6. Reached(w) = Len(w[cur.node]) /\ Len(w[cur.node]) = Len(Now.path) /\ Len(w[cur.node]) \in Nat
  <2>1. Common = Len(Node.prefix) /\ Common = Len(cur.search)
    BY DEF InsertExists
  <2> QED
    BY <1>5, <2>1 DEF Reached
<1>7. Params(w, cur.node) = Count(Now.path, Len(Now.path))
  BY <1>5, <1>6, CountAgree DEF Params
<1>8. ASSUME NEW i \in DOMAIN tree
      PROVE  /\ tree'[i].kind = tree[i].kind /\ tree'[i].prefix = tree[i].prefix
             /\ tree'[i].statics = tree[i].statics /\ tree'[i].param = tree[i].param
             /\ tree'[i].any = tree[i].any
             /\ StartIn(tree', w, i) = StartIn(tree, w, i)
             /\ tree'[i].kind = "any" => tree'[i].paramsCount = Params(w, i)
  <2>1. /\ tree'[i].kind = tree[i].kind /\ tree'[i].prefix = tree[i].prefix
        /\ tree'[i].statics = tree[i].statics /\ tree'[i].param = tree[i].param
        /\ tree'[i].any = tree[i].any
    BY <1>3 DEF SamePlace, SameBelow
  <2>2. tree[i].kind = "any" => tree[i].paramsCount = Params(w, i)
    BY <1>1 DEF KindsOf
  <2>3. tree'[i].kind = "any" => tree'[i].paramsCount = Params(w, i)
    BY <1>2, <1>3, <1>5, <1>7, <2>1, <2>2 DEF CallOK
  <2> QED
    BY <2>1, <2>3 DEF StartIn
<1>9. ASSUME NEW i \in DOMAIN tree
      PROVE  /\ \A c \in tree[i].statics : c \in DOMAIN tree
             /\ tree[i].param # NoNode => tree[i].param \in DOMAIN tree
             /\ tree[i].any # NoNode => tree[i].any \in DOMAIN tree
  BY DEF SegInv, Inv, LinkInv, Kids
<1> QED
  BY <1>1, <1>4, <1>8, <1>9 DEF KindsOf

\* One is not more than one.
LEMMA MoreThanOne == \A a : a > 1 => a # 1
OBVIOUS

\* A node that is longer than one character is static, and so are its halves.
LEMMA HalvedKinds ==
  ASSUME NEW w, SegInv(w), pc = "insert",
         NEW v, NEW n, NEW c, NEW extra, Halving(w, v, n, c, extra),
         tree'[n].kind = "static", \A e \in extra : tree'[e].kind = "static",
         extra # {} => \A k \in Reached(w) + 1 .. Len(Now.path) : ~Special(Now.path, k)
  PROVE  KindsOf(tree', v)
<1>1. /\ n = cur.node /\ c = Len(tree) + 1 /\ extra \in SUBSET {c + 1}
      /\ DOMAIN tree' = DOMAIN tree \cup {c} \cup extra
      /\ 0 < Common /\ Common < Len(Node.prefix)
      /\ Halved(c, extra) /\ \A e \in extra : Sprouted(e)
  BY DEF Halving
<1>2. /\ \A i \in DOMAIN tree \ {n} : v[i] = w[i]
      /\ v[c] = w[n] /\ \A e \in extra : v[e] = Now.path
      /\ Len(v[n]) = Reached(w) /\ Agree(v[n], w[n], Reached(w))
  BY DEF Halving
<1>3. Inv(w) /\ TypeInv /\ AddInv /\ LinkInv /\ WordInv(w) /\ WalkInv(w) /\ KindsOf(tree, w)
  BY DEF SegInv, Inv
<1>4. PICK m : m = Reached(w)
  OBVIOUS
<1>5. /\ n \in DOMAIN tree /\ Node = tree[n] /\ Start(w, n) \in Nat /\ Common \in Nat
      /\ w[n] \in Seq(Characters) /\ Node.prefix \in Seq(Characters)
      /\ Len(w[n]) = Start(w, n) + Len(Node.prefix)
  BY <1>3, <1>1, InsertFacts
<1>6. m \in Nat /\ Start(w, n) < m /\ m < Len(w[n]) /\ Len(w[n]) \in Nat /\ Len(Node.prefix) > 1
  <2>1. m = Start(w, n) + Common
    BY <1>4, <1>1 DEF Reached
  <2>2. Len(Node.prefix) \in Nat
    BY <1>5
  <2>3. /\ Start(w, n) \in Nat /\ Common \in Nat /\ 0 < Common /\ Common < Len(Node.prefix)
        /\ Len(w[n]) = Start(w, n) + Len(Node.prefix)
    BY <1>5, <1>1
  <2> QED
    BY ONLY <2>1, <2>2, <2>3
<1>7. tree[n].kind = "static" /\ \A k \in Start(w, n) + 1 .. Len(w[n]) : ~Special(w[n], k)
  <2>1. Len(Node.prefix) # 1
    BY <1>6, MoreThanOne
  <2> QED
    BY <1>3, <1>5, <2>1 DEF KindsOf, Start
<1>8. /\ \A i \in DOMAIN tree : StartIn(tree', v, i) = Start(w, i)
      /\ StartIn(tree', v, c) = m /\ \A e \in extra : StartIn(tree', v, e) = m
  BY <1>3, <1>4, HalvedWords
<1>9. /\ \A i \in DOMAIN tree : tree'[i].kind = tree[i].kind
      /\ \A i \in DOMAIN tree \ {n} :
           /\ tree'[i].prefix = tree[i].prefix /\ tree'[i].statics = tree[i].statics
           /\ tree'[i].param = tree[i].param /\ tree'[i].any = tree[i].any
           /\ tree'[i].paramsCount = tree[i].paramsCount
  BY <1>7, <1>1 DEF Halved, SameBelow
<1>10. /\ tree'[n].statics = {c} \cup extra /\ tree'[n].param = NoNode /\ tree'[n].any = NoNode
       /\ tree'[c].statics = tree[n].statics /\ tree'[c].param = tree[n].param
       /\ tree'[c].any = tree[n].any /\ tree'[c].kind = "static"
       /\ \A e \in extra : /\ tree'[e].statics = {} /\ tree'[e].param = NoNode
                           /\ tree'[e].any = NoNode
  BY <1>5, <1>7, <1>1 DEF Halved, Sprouted, IsLeafNode
<1>11. ASSUME NEW i \in DOMAIN tree
       PROVE  /\ \A d \in tree[i].statics : tree'[d].kind = "static"
              /\ tree[i].param # NoNode => tree'[tree[i].param].kind = "param"
              /\ tree[i].any # NoNode => tree'[tree[i].any].kind = "any"
  <2>1. /\ \A d \in tree[i].statics : d \in DOMAIN tree
        /\ tree[i].param # NoNode => tree[i].param \in DOMAIN tree
        /\ tree[i].any # NoNode => tree[i].any \in DOMAIN tree
    BY <1>3 DEF LinkInv, Kids
  <2>2. /\ \A d \in tree[i].statics : tree[d].kind = "static"
        /\ tree[i].param # NoNode => tree[tree[i].param].kind = "param"
        /\ tree[i].any # NoNode => tree[tree[i].any].kind = "any"
    BY <1>3 DEF KindsOf
  <2> QED
    BY <1>9, <2>1, <2>2
<1> DEFINE Kind(i) ==
      /\ tree'[i].kind = "static" =>
           \A k \in StartIn(tree', v, i) + 1 .. Len(v[i]) : ~Special(v[i], k)
      /\ tree'[i].kind # "static" =>
           /\ Len(tree'[i].prefix) = 1
           /\ Special(v[i], Len(v[i]))
           /\ (tree'[i].kind = "any") <=> (v[i][Len(v[i])] = "*")
      /\ tree'[i].kind = "any" => tree'[i].paramsCount = Params(v, i)
      /\ \A d \in tree'[i].statics : tree'[d].kind = "static"
      /\ tree'[i].param # NoNode => tree'[tree'[i].param].kind = "param"
      /\ tree'[i].any # NoNode => tree'[tree'[i].any].kind = "any"
<1>12. ASSUME NEW i \in DOMAIN tree \ {n} PROVE Kind(i)
  <2>1. v[i] = w[i] /\ StartIn(tree', v, i) = StartIn(tree, w, i) /\ Params(v, i) = Params(w, i)
    BY <1>8, <1>2 DEF Start, Params
  <2>2. /\ tree[i].kind = "static" =>
             \A k \in StartIn(tree, w, i) + 1 .. Len(w[i]) : ~Special(w[i], k)
        /\ tree[i].kind # "static" =>
             /\ Len(tree[i].prefix) = 1
             /\ Special(w[i], Len(w[i]))
             /\ (tree[i].kind = "any") <=> (w[i][Len(w[i])] = "*")
        /\ tree[i].kind = "any" => tree[i].paramsCount = Params(w, i)
    BY <1>3 DEF KindsOf
  <2> QED
    BY <1>9, <1>11, <2>1, <2>2
<1>13. Kind(n)
  <2>1. ASSUME NEW k \in Start(w, n) + 1 .. m PROVE ~Special(v[n], k)
    <3>1. k \in 1 .. m /\ k \in Start(w, n) + 1 .. Len(w[n])
      BY <1>5, <1>6
    <3>2. Special(v[n], k) <=> Special(w[n], k)
      BY <1>4, <1>6, <1>2, <3>1, CountAgree
    <3> QED
      BY <1>7, <3>1, <3>2
  <2>2. StartIn(tree', v, n) = Start(w, n) /\ Len(v[n]) = m
    BY <1>4, <1>5, <1>8, <1>2
  <2> QED
    BY <1>10, <2>1, <2>2
<1>14. Kind(c)
  <2>1. \A k \in m + 1 .. Len(w[n]) : k \in Start(w, n) + 1 .. Len(w[n])
    BY <1>5, <1>6
  <2> QED
    BY <1>5, <1>7, <1>8, <1>10, <1>11, <1>2, <2>1
<1>15. ASSUME NEW e \in extra PROVE Kind(e)
  BY <1>4, <1>8, <1>10, <1>15, <1>2
<1> HIDE DEF Kind
<1>16. \A i \in DOMAIN tree' : Kind(i)
  BY <1>5, <1>12, <1>13, <1>14, <1>15, <1>1
<1> QED
  BY <1>16 DEF KindsOf, Kind

\* The path ends inside a static node, so the call is not for a parameter.
LEMMA SplitKinds ==
  ASSUME NEW w, SegInv(w), InsertSplit, NEW v, v = SplitWords(w)
  PROVE  KindsOf(tree', v)
<1>1. Inv(w) /\ TypeInv /\ AddInv /\ WordInv(w) /\ WalkInv(w) /\ KindsOf(tree, w)
  BY DEF SegInv, Inv
<1>2. /\ pc = "insert" /\ 0 < Common /\ Common < Len(Node.prefix) /\ Common = Len(cur.search)
  BY DEF InsertSplit, Inserting
<1>3. Halving(w, v, cur.node, Len(tree) + 1, {}) /\ tree'[cur.node].kind = Now.kind
  BY <1>1, SplitStep, SplitShape
<1>4. /\ cur.node \in DOMAIN tree /\ Node = tree[cur.node] /\ Start(w, cur.node) \in Nat
      /\ w[cur.node] \in Seq(Characters) /\ Node.prefix \in Seq(Characters)
      /\ Now.path \in Seq(Characters) /\ Agree(w[cur.node], Now.path, Reached(w))
      /\ Len(w[cur.node]) = Start(w, cur.node) + Len(Node.prefix)
      /\ Len(Now.path) = Start(w, cur.node) + Len(cur.search) /\ Common \in Nat
  BY <1>1, <1>2, InsertFacts
<1>5. /\ Reached(w) = Len(Now.path) /\ Len(Now.path) \in Nat /\ Len(Node.prefix) > 1
      /\ Len(Now.path) \in Start(w, cur.node) + 1 .. Len(w[cur.node])
      /\ Len(Now.path) \in 1 .. Len(Now.path)
  <2>1. Reached(w) = Start(w, cur.node) + Common
    BY DEF Reached
  <2>2. PICK s, c, l, p, u : /\ s = Start(w, cur.node) /\ c = Common /\ l = Len(Node.prefix)
                              /\ p = Len(Now.path) /\ u = Len(w[cur.node])
    OBVIOUS
  <2>3. /\ s \in Nat /\ c \in Nat /\ l \in Nat /\ 0 < c /\ c < l
        /\ u = s + l /\ p = s + c
    BY <1>2, <1>4, <2>2
  <2>4. /\ s + c = p /\ p \in Nat /\ l > 1 /\ p \in s + 1 .. u /\ p \in 1 .. p
    BY ONLY <2>3
  <2> QED
    BY <2>1, <2>2, <2>4
<1>6. ~Special(w[cur.node], Len(Now.path))
  <2>1. Len(Node.prefix) # 1
    BY <1>5, MoreThanOne
  <2> QED
    BY <1>1, <1>4, <1>5, <2>1 DEF KindsOf, Start
<1>7. ~Special(Now.path, Len(Now.path))
  BY <1>4, <1>5, <1>6, CountAgree
<1>8. Now.kind = "static"
  BY <1>2, <1>7, CallIsOK DEF CallOK
<1> QED
  BY <1>2, <1>3, <1>8, HalvedKinds

\* There is no node on the path beyond where it leaves a node.
LEMMA ForkFree ==
  ASSUME NEW w, Inv(w), InsertFork, NEW k \in Reached(w) .. Len(Now.path)
  PROVE  ~NodeAt(w, Now.path, k)
<1> USE DEF Inv
<1>1. PICK n : n = cur.node
  OBVIOUS
<1>2. PICK P : P = Now.path
  OBVIOUS
<1>3. PICK m : m = Reached(w)
  OBVIOUS
<1>4. pc = "insert" /\ 0 < Common /\ Common < Len(Node.prefix) /\ Common < Len(cur.search)
  BY DEF InsertFork, Inserting
<1>5. /\ n \in DOMAIN tree /\ Node = tree[n] /\ w[n] \in Seq(Characters) /\ P \in Seq(Characters)
      /\ Agree(w[n], P, m) /\ w[n][m + 1] # P[m + 1]
  BY <1>1, <1>2, <1>3, <1>4, InsertFacts
<1>6. /\ m \in Nat /\ Start(w, n) \in Nat /\ Start(w, n) < m /\ m < Len(w[n]) /\ Len(w[n]) \in Nat
      /\ k \in Nat /\ m <= k /\ Start(w, n) + 1 <= m /\ Start(w, n) + 1 \in Nat
  <2>1. m = Start(w, n) + Common
    BY <1>1, <1>3 DEF Reached
  <2>2. /\ Start(w, n) \in Nat /\ Common \in Nat /\ Len(w[n]) = Start(w, n) + Len(Node.prefix)
        /\ Node.prefix \in Seq(Characters)
    BY <1>1, <1>4, InsertFacts
  <2>3. Len(Node.prefix) \in Nat /\ m \in Nat
    BY <2>1, <2>2
  <2>4. k \in Nat /\ m <= k
    BY <1>2, <1>3, <1>5, <2>3
  <2>5. 0 < Common /\ Common < Len(Node.prefix)
    BY <1>4
  <2> QED
    BY ONLY <2>1, <2>2, <2>3, <2>4, <2>5
<1>7. SUFFICES ASSUME NodeAt(w, P, k) PROVE FALSE
  BY <1>2
<1>8. PICK j \in DOMAIN tree : Len(w[j]) = k /\ Agree(w[j], P, k)
  BY <1>7 DEF NodeAt
<1>9. Agree(w[n], w[j], Start(w, n) + 1) /\ Len(w[j]) > Start(w, n)
  <2>1. Agree(w[j], P, m)
    BY <1>6, <1>8, AgreeLess
  <2>2. Agree(w[n], w[j], m)
    BY <1>5, <2>1, AgreeSym, AgreeTrans
  <2> QED
    BY <1>6, <1>8, <2>2, AgreeLess
<1>10. Len(w[n]) <= k /\ Agree(w[n], w[j], Len(w[n]))
  <2>1. Through(DOMAIN tree, w, [i \in DOMAIN tree |-> StartIn(tree, w, i)])
    BY DEF TreeTrie, TrieOf, Trie
  <2> QED
    BY <1>5, <1>8, <1>9, <2>1 DEF Through, Start
<1>11. m + 1 \in 1 .. Len(w[n]) /\ m + 1 \in 1 .. k
  BY <1>6, <1>10
<1>12. w[n][m + 1] = w[j][m + 1] /\ w[j][m + 1] = P[m + 1]
  BY <1>6, <1>8, <1>10, <1>11, AgreeAt
<1> QED
  BY <1>5, <1>12

\* A call for a parameter never forks, and no parameter is in the second branch.
LEMMA ForkKinds ==
  ASSUME NEW w, SegInv(w), InsertFork, NEW v, v = ForkWords(w)
  PROVE  KindsOf(tree', v)
<1>1. Inv(w) /\ TypeInv /\ AddInv /\ WordInv(w) /\ WalkInv(w)
  BY DEF SegInv, Inv
<1>2. pc = "insert" /\ 0 < Common /\ Common < Len(Node.prefix) /\ Common < Len(cur.search)
  BY DEF InsertFork, Inserting
<1>3. /\ Halving(w, v, cur.node, Len(tree) + 1, {Len(tree) + 2})
      /\ tree'[cur.node].kind = "static" /\ tree'[Len(tree) + 2].kind = Now.kind
  BY <1>1, ForkStep, ForkShape DEF Sprouted
<1>4. /\ Reached(w) \in Nat /\ Reached(w) < Len(Now.path) /\ Len(Now.path) \in Nat
  <2>1. /\ Start(w, cur.node) \in Nat /\ Common \in Nat /\ Now.path \in Seq(Characters)
        /\ Len(Now.path) = Start(w, cur.node) + Len(cur.search) /\ cur.search \in Seq(Characters)
    BY <1>1, <1>2, InsertFacts
  <2> QED
    BY <1>2, <2>1 DEF Reached
<1>5. Now.kind = "static"
  <2>1. SUFFICES ASSUME Now.kind # "static" PROVE FALSE
    OBVIOUS
  <2>2. NodeAt(w, Now.path, Len(Now.path) - 1)
    BY <1>1, <1>2, <2>1 DEF WalkInv
  <2>3. Len(Now.path) - 1 \in Reached(w) .. Len(Now.path)
    BY <1>4
  <2> QED
    BY <1>1, <2>2, <2>3, ForkFree
<1>6. ASSUME NEW k \in Reached(w) + 1 .. Len(Now.path) PROVE ~Special(Now.path, k)
  <2>1. k \in Reached(w) .. Len(Now.path) /\ k \in 1 .. Len(Now.path)
    BY <1>4
  <2>2. ~NodeAt(w, Now.path, k)
    BY <1>1, <2>1, ForkFree
  <2>3. Marked(w, Now.path, Len(Now.path))
    BY <1>2, <1>5, CallIsOK DEF CallOK
  <2> QED
    BY <2>1, <2>2, <2>3 DEF Marked
<1> QED
  BY <1>2, <1>3, <1>5, <1>6, HalvedKinds

\* A child for a parameter or a wildcard has its one character; a static one
\* would have met the nodes of the parameters in its part.
LEMMA ChildKinds ==
  ASSUME NEW w, SegInv(w), InsertChild, NEW v, v = ChildWords(w)
  PROVE  KindsOf(tree', v)
<1>1. Inv(w) /\ TypeInv /\ AddInv /\ LinkInv /\ WordInv(w) /\ WalkInv(w) /\ KindsOf(tree, w)
  BY DEF SegInv, Inv
<1>2. PICK n : n = cur.node
  OBVIOUS
<1>3. PICK e : e = Len(tree) + 1
  OBVIOUS
<1>4. PICK P : P = Now.path
  OBVIOUS
<1>5. pc = "insert" /\ Below /\ Common > 0
  BY DEF InsertChild, Below, Inserting
<1>6. CallOK(w) /\ Now.kind \in Kinds
  BY <1>1, <1>5, CallIsOK, InsertFacts, CallFacts
<1>7. Sprouting(w, v, n, e)
  BY <1>1, <1>2, <1>3, ChildSprouts
<1>8. /\ n = cur.node /\ n \in DOMAIN tree /\ Node = tree[n] /\ e = Len(tree) + 1
      /\ DOMAIN tree' = DOMAIN tree \cup {e} /\ tree' \in Seq(Nodes)
      /\ \A i \in DOMAIN tree : tree'[i].prefix = tree[i].prefix
      /\ \A i \in DOMAIN tree \ {n} : tree'[i] = tree[i]
      /\ Sprouted(e)
      /\ v[e] = P /\ \A i \in DOMAIN tree : v[i] = w[i]
  BY <1>4, <1>7 DEF Sprouting
<1>9. /\ tree'[n].statics = tree[n].statics \cup (IF Now.kind = "static" THEN {e} ELSE {})
      /\ tree'[n].param = IF Now.kind = "param" THEN e ELSE tree[n].param
      /\ tree'[n].any = IF Now.kind = "any" THEN e ELSE tree[n].any
      /\ tree'[n].kind = tree[n].kind /\ tree'[n].paramsCount = tree[n].paramsCount
  BY <1>1, <1>8, ChildShape
<1>10. /\ tree'[e].kind = Now.kind /\ tree'[e].statics = {} /\ tree'[e].param = NoNode
       /\ tree'[e].any = NoNode /\ tree'[e].prefix = Drop(cur.search, Common)
       /\ tree'[e].paramsCount = IF Now.rm.handler # "nil" THEN Len(Now.rm.pnames) ELSE 0
  BY <1>8 DEF Sprouted, IsLeafNode
<1>11. \A i \in DOMAIN tree : tree'[i].kind = tree[i].kind
  BY <1>8, <1>9
<1>12. ASSUME NEW i \in DOMAIN tree
       PROVE  /\ \A d \in tree[i].statics : tree'[d].kind = "static"
              /\ tree[i].param # NoNode => tree'[tree[i].param].kind = "param"
              /\ tree[i].any # NoNode => tree'[tree[i].any].kind = "any"
  <2>1. /\ \A d \in tree[i].statics : d \in DOMAIN tree
        /\ tree[i].param # NoNode => tree[i].param \in DOMAIN tree
        /\ tree[i].any # NoNode => tree[i].any \in DOMAIN tree
    BY <1>1 DEF LinkInv, Kids
  <2>2. /\ \A d \in tree[i].statics : tree[d].kind = "static"
        /\ tree[i].param # NoNode => tree[tree[i].param].kind = "param"
        /\ tree[i].any # NoNode => tree[tree[i].any].kind = "any"
    BY <1>1 DEF KindsOf
  <2> QED
    BY <1>11, <2>1, <2>2
<1> DEFINE Own(i) ==
      /\ tree'[i].kind = "static" =>
           \A k \in StartIn(tree', v, i) + 1 .. Len(v[i]) : ~Special(v[i], k)
      /\ tree'[i].kind # "static" =>
           /\ Len(tree'[i].prefix) = 1
           /\ Special(v[i], Len(v[i]))
           /\ (tree'[i].kind = "any") <=> (v[i][Len(v[i])] = "*")
      /\ tree'[i].kind = "any" => tree'[i].paramsCount = Params(v, i)
           Children(i) ==
      /\ \A d \in tree'[i].statics : tree'[d].kind = "static"
      /\ tree'[i].param # NoNode => tree'[tree'[i].param].kind = "param"
      /\ tree'[i].any # NoNode => tree'[tree'[i].any].kind = "any"
<1>13. ASSUME NEW i \in DOMAIN tree PROVE Own(i)
  <2>1. v[i] = w[i] /\ StartIn(tree', v, i) = StartIn(tree, w, i) /\ Params(v, i) = Params(w, i)
    BY <1>8 DEF StartIn, Params
  <2>2. /\ tree[i].kind = "static" =>
             \A k \in StartIn(tree, w, i) + 1 .. Len(w[i]) : ~Special(w[i], k)
        /\ tree[i].kind # "static" =>
             /\ Len(tree[i].prefix) = 1
             /\ Special(w[i], Len(w[i]))
             /\ (tree[i].kind = "any") <=> (w[i][Len(w[i])] = "*")
        /\ tree[i].kind = "any" => tree[i].paramsCount = Params(w, i)
    BY <1>1 DEF KindsOf
  <2>3. tree'[i].paramsCount = tree[i].paramsCount
    BY <1>8, <1>9
  <2> QED
    BY <1>8, <1>11, <2>1, <2>2, <2>3
<1>14. ASSUME NEW i \in DOMAIN tree PROVE Children(i)
  <2>1. CASE i # n
    <3>1. tree'[i] = tree[i]
      BY <1>8, <2>1
    <3> QED
      BY <1>12, <3>1
  <2>2. CASE i = n
    BY <1>9, <1>10, <1>12, <2>2
  <2> QED
    BY <2>1, <2>2
<1>15. Children(e)
  BY <1>10
<1>16. Own(e)
  <2>1. /\ Reached(w) \in Nat /\ P \in Seq(Characters) /\ Len(P) \in Nat
        /\ cur.search \in Seq(Characters) /\ Common \in Nat /\ Common <= Len(cur.search)
        /\ Len(P) = Start(w, n) + Len(cur.search) /\ Reached(w) = Start(w, n) + Common
        /\ Start(w, n) \in Nat
    <3>1. /\ cur.search \in Seq(Characters) /\ Common \in Nat /\ Common <= Len(cur.search)
          /\ Len(P) = Start(w, n) + Len(cur.search) /\ Reached(w) = Start(w, n) + Common
          /\ P \in Seq(Characters) /\ Start(w, n) \in Nat
      BY <1>1, <1>2, <1>4, <1>5, InsertFacts DEF Reached
    <3> QED
      BY <3>1
  <2>2. CASE Now.kind = "static"
    <3>1. StartIn(tree', v, e) = Reached(w)
      <4>1. Len(Drop(cur.search, Common)) = Len(cur.search) - Common
        <5>1. PICK s, c : s = cur.search /\ c = Common
          OBVIOUS
        <5>2. s \in Seq(Characters) /\ c \in Nat /\ c <= Len(s)
          BY <2>1, <5>1
        <5>3. Len(Drop(s, c)) = Len(s) - c
          BY ONLY <5>2, DropFacts
        <5> QED
          BY <5>1, <5>3
      <4>2. StartIn(tree', v, e) = Len(P) - Len(Drop(cur.search, Common))
        BY <1>8, <1>10 DEF StartIn
      <4>3. Len(cur.search) \in Nat
        BY <2>1
      <4> QED
        BY <2>1, <4>1, <4>2, <4>3
    <3>2. ASSUME NEW k \in Reached(w) + 1 .. Len(P) PROVE ~Special(P, k)
      <4>1. k \in 1 .. Len(P)
        BY <2>1
      <4>2. ~NodeAt(w, P, k)
        BY <1>1, <1>4, ChildFree
      <4>3. Marked(w, P, Len(P))
        BY <1>4, <1>6, <2>2 DEF CallOK
      <4> QED
        BY <4>1, <4>2, <4>3 DEF Marked
    <3> QED
      BY <1>8, <1>10, <2>2, <3>1, <3>2
  <2>3. CASE Now.kind # "static"
    <3>1. Len(tree'[e].prefix) = 1
      <4>1. \A d : Len(<<d>>) = 1
        OBVIOUS
      <4> QED
        BY <1>1, <1>6, <1>10, <2>3, <4>1, ChildFacts DEF Kinds
    <3>2. Special(P, Len(P)) /\ ((Now.kind = "any") <=> (P[Len(P)] = "*"))
      BY <1>4, <1>6, <2>3 DEF CallOK, Kinds
    <3>3. Now.kind = "any" => tree'[e].paramsCount = Count(P, Len(P))
      BY <1>4, <1>6, <1>10 DEF CallOK
    <3> QED
      BY <1>8, <1>10, <2>3, <3>1, <3>2, <3>3 DEF Params
  <2> QED
    BY <2>2, <2>3
<1> HIDE DEF Own, Children
<1>17. \A i \in DOMAIN tree' : Own(i) /\ Children(i)
  BY <1>8, <1>13, <1>14, <1>15, <1>16
<1> QED
  BY <1>17 DEF KindsOf, Own, Children

-----------------------------------------------------------------------------
(* insert keeps the words, and adds words of its path *)

\* The words v of the tree that insert leaves are those it found and prefixes of
\* them and of its path.
Grown(w, v) ==
  /\ v \in [DOMAIN tree' -> Seq(Characters)]
  /\ \A i \in DOMAIN tree : Len(w[i]) # 0 => \E j \in DOMAIN tree' : v[j] = w[i]
  /\ \A j \in DOMAIN tree' :
       \/ \E i \in DOMAIN tree : Len(v[j]) <= Len(w[i]) /\ Agree(v[j], w[i], Len(v[j]))
       \/ Len(v[j]) <= Len(Now.path) /\ Agree(v[j], Now.path, Len(v[j]))

\* Prefixes have no more parameters.
LEMMA CountPrefix ==
  ASSUME NEW s \in Seq(Characters), NEW t \in Seq(Characters),
         Len(s) <= Len(t), Agree(s, t, Len(s))
  PROVE  Count(s, Len(s)) <= Count(t, Len(t)) /\ Count(s, Len(s)) \in Nat /\ Count(t, Len(t)) \in Nat
<1>1. Len(s) \in Nat /\ Len(t) \in Nat
  OBVIOUS
<1>2. Count(s, Len(s)) = Count(t, Len(s))
  BY <1>1, CountAgree
<1>3. Count(t, Len(s)) <= Count(t, Len(t))
  BY <1>1, CountMono
<1> QED
  BY <1>1, <1>2, <1>3, CountNat

\* Room for the values grows with the parameters of the nodes.
LEMMA ReturnCounts ==
  ASSUME NEW w, SegInv(w), pc = "insert", Returns(tree'), tree' \in Seq(Nodes), tree' # <<>>,
         NEW v, Grown(w, v)
  PROVE  CountInv(v)'
<1>1. TypeInv /\ AddInv /\ WordInv(w) /\ WalkInv(w) /\ CountInv(w)
  BY DEF SegInv, Inv
<1>2. CallOK(w) /\ Now.path \in Seq(Characters)
  BY <1>1, CallIsOK, InsertFacts
<1>3. /\ UNCHANGED add /\ maxParam' >= maxParam /\ maxParam' >= Len(Now.rm.pnames)
      /\ pc' \in {"insert", "scan", "register"} /\ (pc' # "insert" => Len(calls) = 1)
  BY <1>1, ReturnsStep
<1>4. maxParam \in Nat /\ Len(add.pnames) \in Nat /\ maxParam' \in Nat
  <2>1. TypeInv'
    BY <1>1, ReturnsStep
  <2> QED
    BY <1>1, <2>1 DEF TypeInv, Adds
<1>5. pc' = "register" => Len(add.pnames) <= maxParam'
  <2>1. SUFFICES ASSUME pc' = "register" PROVE Len(add.pnames) <= maxParam'
    OBVIOUS
  <2>2. Len(calls) = 1
    BY <1>3, <2>1
  <2>3. Now.kind = "static" /\ Now.rm # EmptyRoute
    BY <2>1, <2>2 DEF Returns
  <2>4. Now.rm = Full(add.pnames)
    <3>1. 1 \in DOMAIN calls /\ Now = calls[1]
      BY <1>1 DEF AddInv, TypeInv, Now
    <3> QED
      BY <1>1, <2>3, <3>1 DEF AddInv
  <2>5. Now.rm.pnames = add.pnames
    BY <2>4 DEF Full
  <2> QED
    BY <1>3, <2>5
<1>6. ASSUME NEW j \in DOMAIN tree'
      PROVE  Params(v, j) <= maxParam' \/ Params(v, j) <= Len(add.pnames)
  <2>1. v[j] \in Seq(Characters)
    BY DEF Grown
  <2>2. ASSUME NEW i \in DOMAIN tree, Len(v[j]) <= Len(w[i]), Agree(v[j], w[i], Len(v[j]))
        PROVE  Params(v, j) <= maxParam' \/ Params(v, j) <= Len(add.pnames)
    <3>1. w[i] \in Seq(Characters)
      BY <1>1 DEF WordInv, WordsOf
    <3>2. Params(v, j) <= Params(w, i) /\ Params(v, j) \in Nat /\ Params(w, i) \in Nat
      BY <2>1, <2>2, <3>1, CountPrefix DEF Params
    <3>3. Params(w, i) <= maxParam \/ Params(w, i) <= Len(add.pnames)
      BY <1>1 DEF CountInv
    <3> QED
      BY <1>3, <1>4, <3>2, <3>3
  <2>3. CASE Len(v[j]) <= Len(Now.path) /\ Agree(v[j], Now.path, Len(v[j]))
    <3>1. /\ Params(v, j) <= Count(Now.path, Len(Now.path)) /\ Params(v, j) \in Nat
          /\ Count(Now.path, Len(Now.path)) \in Nat
      BY <1>2, <2>1, <2>3, CountPrefix DEF Params
    <3>2. Count(Now.path, Len(Now.path)) <= Len(add.pnames)
      BY <1>2 DEF CallOK
    <3> QED
      BY <1>4, <3>1, <3>2
  <2> QED
    BY <2>2, <2>3 DEF Grown
<1>7. ASSUME NEW j \in DOMAIN tree'
      PROVE  \/ Params(v, j) <= maxParam'
             \/ pc' \in {"scan", "insert"} /\ Params(v, j) <= Len(add.pnames)
  <2>1. Params(v, j) \in Nat
    <3>1. Len(v[j]) \in Nat
      BY DEF Grown
    <3> QED
      BY <3>1, CountNat DEF Params
  <2> QED
    BY <1>3, <1>4, <1>5, <1>6, <2>1
<1> QED
  BY <1>3, <1>7 DEF CountInv

\* Nodes for parameters stay, and that of the call has come.
LEMMA ReturnScan ==
  ASSUME NEW w, SegInv(w), pc = "insert", Returns(tree'), tree' \in Seq(Nodes), tree' # <<>>,
         NEW v, Grown(w, v), HasNode(DOMAIN tree', v, Now.path)
  PROVE  ScanInv(v)'
<1>1. TypeInv /\ AddInv /\ WordInv(w) /\ WalkInv(w) /\ ScanInv(w)
  BY DEF SegInv, Inv
<1>2. /\ UNCHANGED add /\ pc' \in {"insert", "scan", "register"}
      /\ pc' = "insert" => Len(calls) = 2 /\ calls'[1] = calls[2] /\ Len(calls') = 1
      /\ pc' # "insert" => Len(calls) = 1
  BY <1>1, ReturnsStep
<1>3. ASSUME NEW s, NEW k \in Nat, k # 0, NodeAt(w, s, k)
      PROVE  NodeAt(v, s, k)'
  <2>1. PICK i \in DOMAIN tree : Len(w[i]) = k /\ Agree(w[i], s, k)
    BY <1>3 DEF NodeAt
  <2>2. PICK j \in DOMAIN tree' : v[j] = w[i]
    BY <1>3, <2>1 DEF Grown
  <2> QED
    BY <2>1, <2>2 DEF NodeAt
<1>4. ASSUME NEW s, NEW m \in Int, Marked(w, s, m) PROVE Marked(v, s, m)'
  <2>1. ASSUME NEW k \in 1 .. m, Special(s, k) PROVE NodeAt(v, s, k)'
    <3>1. NodeAt(w, s, k) /\ k \in Nat /\ k # 0
      BY <1>4, <2>1 DEF Marked
    <3> QED
      BY <1>3, <3>1
  <2> QED
    BY <2>1 DEF Marked
<1>5. Colons(add.path, add.i)
  BY <1>1 DEF ScanInv
<1>6. PICK p : p = add.path
  OBVIOUS
<1>7. PICK q : q = calls[Len(calls)]
  OBVIOUS
<1>8. PICK m : m = Len(q.path)
  OBVIOUS
<1>9. m \in Nat /\ m >= 1 /\ Agree(q.path, p, m) /\ m - 1 \in Int /\ m <= Len(p)
  <2>1. Len(calls) \in DOMAIN calls
    <3>1. Len(calls) \in 1 .. 2 /\ DOMAIN calls = 1 .. Len(calls)
      BY <1>1 DEF TypeInv, AddInv
    <3> QED
      BY <3>1
  <2> QED
    BY <1>1, <1>6, <1>7, <1>8, <2>1, CallPaths
<1>10. /\ Len(add.pnames) = Count(p, m)
       /\ q.kind = "static" => Marked(w, p, m)
       /\ q.kind # "static" => Marked(w, p, m - 1) /\ ScannedTo(m) /\ Special(p, m)
  BY <1>1, <1>6, <1>7, <1>8 DEF ScanInv
<1>11. CASE pc' = "register"
  BY <1>11 DEF ScanInv
<1>12. CASE pc' = "insert"
  <2>1. calls'[Len(calls')] = q
    BY <1>2, <1>7, <1>12
  <2>2. /\ q.kind = "static" => Marked(v, p, m)'
        /\ q.kind # "static" => Marked(v, p, m - 1)'
    BY <1>4, <1>9, <1>10
  <2>3. add' = add /\ (ScannedTo(m) => ScannedTo(m)')
    BY <1>2 DEF ScannedTo
  <2> QED
    BY <1>5, <1>6, <1>8, <1>10, <1>12, <2>1, <2>2, <2>3 DEF ScanInv
<1>13. CASE pc' = "scan"
  <2>1. q = Now /\ Len(calls) = 1
    BY <1>2, <1>7, <1>13 DEF Now
  <2>2. q.kind # "static"
    <3>1. q.kind = "static" => q.rm # EmptyRoute
      BY <1>1, <1>7 DEF AddInv
    <3>2. ~(Now.kind = "static" /\ Now.rm # EmptyRoute)
      BY <1>13, <2>1 DEF Returns
    <3> QED
      BY <2>1, <3>1, <3>2
  <2>3. NodeAt(v, p, m)'
    <3>1. PICK j \in DOMAIN tree' : Len(v[j]) = m /\ Agree(v[j], q.path, m)
      BY <1>8, <2>1 DEF HasNode
    <3>2. Agree(v[j], p, m)
      BY <1>9, <3>1, AgreeTrans
    <3> QED
      BY <3>1, <3>2 DEF NodeAt
  <2>4. Marked(v, p, m - 1)'
    BY <1>4, <1>9, <1>10, <2>2
  <2>5. Marked(v, p, m)'
    <3>1. ASSUME NEW k \in 1 .. m, Special(p, k) PROVE NodeAt(v, p, k)'
      <4>1. CASE k = m
        BY <2>3, <4>1
      <4>2. CASE k # m
        <5>1. k \in 1 .. m - 1
          BY <1>9, <4>2
        <5> QED
          BY <2>4, <3>1, <5>1 DEF Marked
      <4> QED
        BY <4>1, <4>2
    <3> QED
      BY <3>1 DEF Marked
  <2>6. add' = add /\ ScannedTo(m)' /\ m \in 0 .. Len(p)
    BY <1>2, <1>10, <2>2, <1>9 DEF ScannedTo
  <2> QED
    BY <1>5, <1>6, <1>13, <2>5, <2>6 DEF ScanInv
<1> QED
  BY <1>2, <1>11, <1>12, <1>13

\* Words that are halved at n, with a second branch or without.
LEMMA HalvedGrown ==
  ASSUME NEW w, Inv(w), pc = "insert",
         NEW v, NEW n, NEW c, NEW extra, Halving(w, v, n, c, extra)
  PROVE  Grown(w, v)
<1>1. TypeInv /\ AddInv /\ WordInv(w) /\ WalkInv(w)
  BY DEF Inv
<1>2. /\ n = cur.node /\ c = Len(tree) + 1
      /\ DOMAIN tree' = DOMAIN tree \cup {c} \cup extra
      /\ v \in [DOMAIN tree' -> Seq(Characters)]
      /\ \A i \in DOMAIN tree \ {n} : v[i] = w[i]
      /\ v[c] = w[n] /\ \A e \in extra : v[e] = Now.path
      /\ Len(v[n]) = Reached(w) /\ Agree(v[n], w[n], Reached(w))
      /\ 0 < Common /\ Common < Len(Node.prefix)
  BY DEF Halving
<1>3. n \in DOMAIN tree /\ w[n] \in Seq(Characters) /\ Now.path \in Seq(Characters)
  BY <1>1, <1>2, InsertFacts
<1>4. Reached(w) <= Len(w[n])
  <2>1. /\ Start(w, n) \in Nat /\ Common \in Nat /\ Node.prefix \in Seq(Characters)
        /\ Len(w[n]) = Start(w, n) + Len(Node.prefix) /\ Reached(w) = Start(w, n) + Common
    BY <1>1, <1>2, InsertFacts DEF Reached
  <2>2. Len(Node.prefix) \in Nat
    BY <2>1
  <2> QED
    BY <1>2, <2>1, <2>2
<1>5. ASSUME NEW i \in DOMAIN tree PROVE \E j \in DOMAIN tree' : v[j] = w[i]
  <2>1. CASE i = n
    BY <1>2, <2>1
  <2>2. CASE i # n
    BY <1>2, <2>2
  <2> QED
    BY <2>1, <2>2
<1>6. \A s \in Seq(Characters) : Len(s) <= Len(s)
  OBVIOUS
<1>7. ASSUME NEW j \in DOMAIN tree'
      PROVE  \/ \E i \in DOMAIN tree : Len(v[j]) <= Len(w[i]) /\ Agree(v[j], w[i], Len(v[j]))
             \/ Len(v[j]) <= Len(Now.path) /\ Agree(v[j], Now.path, Len(v[j]))
  <2>1. CASE j = n
    BY <1>2, <1>3, <1>4, <2>1
  <2>2. CASE j = c
    BY <1>2, <1>3, <1>6, <2>2, AgreeSelf
  <2>3. CASE j \in extra
    BY <1>2, <1>3, <1>6, <2>3, AgreeSelf
  <2>4. CASE j \in DOMAIN tree \ {n}
    <3>1. v[j] = w[j] /\ w[j] \in Seq(Characters)
      BY <1>2, <2>4
    <3> QED
      BY <1>6, <2>4, <3>1, AgreeSelf
  <2> QED
    BY <1>2, <2>1, <2>2, <2>3, <2>4
<1> QED
  BY <1>2, <1>5, <1>7 DEF Grown

\* A word that is added.
LEMMA ChildGrown ==
  ASSUME NEW w, Inv(w), InsertChild, NEW v, v = ChildWords(w)
  PROVE  Grown(w, v)
<1>1. PICK n : n = cur.node
  OBVIOUS
<1>2. PICK e : e = Len(tree) + 1
  OBVIOUS
<1>3. Sprouting(w, v, n, e)
  BY <1>1, <1>2, ChildSprouts
<1>4. /\ DOMAIN tree' = DOMAIN tree \cup {e} /\ v \in [DOMAIN tree' -> Seq(Characters)]
      /\ v[e] = Now.path /\ \A i \in DOMAIN tree : v[i] = w[i]
  BY <1>3 DEF Sprouting
<1>5. \A s \in Seq(Characters) : Len(s) <= Len(s)
  OBVIOUS
<1>6. ASSUME NEW j \in DOMAIN tree'
      PROVE  \/ \E i \in DOMAIN tree : Len(v[j]) <= Len(w[i]) /\ Agree(v[j], w[i], Len(v[j]))
             \/ Len(v[j]) <= Len(Now.path) /\ Agree(v[j], Now.path, Len(v[j]))
  <2>1. v[j] \in Seq(Characters) /\ Len(v[j]) <= Len(v[j]) /\ Agree(v[j], v[j], Len(v[j]))
    BY <1>4, <1>5, AgreeSelf
  <2> QED
    BY <1>4, <2>1
<1>7. \A i \in DOMAIN tree : \E j \in DOMAIN tree' : v[j] = w[i]
  BY <1>4
<1> QED
  BY <1>4, <1>6, <1>7 DEF Grown

\* The first word.
LEMMA RootGrown ==
  ASSUME NEW w, Inv(w), InsertAtRoot, NEW v, v = RootWords
  PROVE  Grown(w, v)
<1>1. TypeInv /\ AddInv /\ WordInv(w) /\ WalkInv(w) /\ pc = "insert"
  BY DEF Inv, InsertAtRoot, Inserting
<1>2. Len(tree') = Len(tree) /\ tree' \in Seq(Nodes) /\ Node.prefix = <<>>
  BY <1>1, RootShape
<1>3. cur.node \in DOMAIN tree /\ Node = tree[cur.node] /\ Now.path \in Seq(Characters)
  BY <1>1, InsertFacts
<1>4. Len(tree) = 1
  BY <1>1, <1>2, <1>3 DEF WordInv, WordsOf
<1>5. DOMAIN tree = {Root} /\ DOMAIN tree' = {Root} /\ cur.node = Root
  BY <1>1, <1>2, <1>3, <1>4 DEF TypeInv, Root
<1>6. Len(w[Root]) = 0
  BY <1>1, <1>2, <1>3, <1>5 DEF WordInv, WordsOf, StartIn
<1>7. v \in [DOMAIN tree' -> Seq(Characters)] /\ v[Root] = Now.path
  BY <1>3, <1>5 DEF RootWords
<1>8. Len(Now.path) <= Len(Now.path)
  BY <1>3
<1> QED
  BY <1>5, <1>6, <1>7, <1>8, AgreeSelf DEF Grown

\* A word that is there.
LEMMA ExistsGrown ==
  ASSUME NEW w, Inv(w), InsertExists
  PROVE  Grown(w, w)
<1>1. TypeInv /\ AddInv /\ WordInv(w) /\ WalkInv(w)
  BY DEF Inv
<1>2. Len(tree') = Len(tree) /\ tree' \in Seq(Nodes)
  BY <1>1, ExistsShape
<1>3. DOMAIN tree' = DOMAIN tree /\ w \in [DOMAIN tree -> Seq(Characters)]
  BY <1>1, <1>2 DEF TypeInv, WordInv, WordsOf
<1>4. \A s \in Seq(Characters) : Len(s) <= Len(s)
  OBVIOUS
<1> QED
  BY <1>3, <1>4, AgreeSelf DEF Grown

-----------------------------------------------------------------------------
(* The steps of Add *)

\* What a router keeps that Find relies on
RoomOf(w) == FindOK(pc, find) /\ SegInv(w) /\ FindAt(w, pc, find)
RoomInv == \E w : RoomOf(w)

\* What a step makes of the words of nodes
Inserts(w, v) ==
  \/ InsertAtRoot /\ v = RootWords
  \/ InsertSplit /\ v = SplitWords(w)
  \/ InsertFork /\ v = ForkWords(w)
  \/ InsertChild /\ v = ChildWords(w)
  \/ InsertExists /\ v = w
Rewords(w, v) == Inserts(w, v) \/ (UNCHANGED tree /\ v = w)

\* Find's part does not matter elsewhere.
LEMMA FindAtIdle ==
  ASSUME NEW w, NEW l \in {"idle", "scan", "register", "insert", "done"}, NEW f
  PROVE  FindAt(w, l, f)
BY DEF FindAt

\* insert keeps what Find relies on.
LEMMA InsertRoom ==
  ASSUME NEW w, SegInv(w), FindOK(pc, find),
         InsertAtRoot \/ InsertSplit \/ InsertFork \/ InsertDeeper \/ InsertChild \/ InsertExists
  PROVE  \E v : Rewords(w, v) /\ RoomOf(v)'
<1>1. pc = "insert" /\ Inv(w)
  BY DEF InsertAtRoot, InsertSplit, InsertFork, InsertDeeper, InsertChild, InsertExists, Below,
         Inserting, SegInv
<1>2. CASE InsertDeeper
  <2>1. TypeInv' /\ AddInv' /\ UNCHANGED tree /\ WalkInv(w)'
    BY <1>1, <1>2, DeeperStep
  <2>2. Inv(w)'
    BY <1>1, <2>1, SameTree
  <2>3. UNCHANGED <<tree, maxParam, routes, pc, add, calls, find>>
    BY <1>2 DEF InsertDeeper
  <2>4. FindOK(pc, find)' /\ FindAt(w, pc, find)'
    BY <1>1, <2>3, FindIdle DEF Inv, TypeInv, FindAt
  <2>5. KindsOf(tree, w)' /\ ScanInv(w)' /\ CountInv(w)'
    BY <2>3 DEF SegInv, KindsOf, ScanInv, CountInv, ScannedTo, Marked, NodeAt
  <2> QED
    BY <2>2, <2>3, <2>4, <2>5 DEF Rewords, RoomOf, SegInv
<1>3. ASSUME NEW v, Returns(tree'), tree' \in Seq(Nodes), Len(tree') >= Len(tree), LinkInv',
             WordsOf(tree', v), TrieOf(tree', v), HasNode(DOMAIN tree', v, Now.path),
             KindsOf(tree', v), Grown(w, v)
      PROVE  RoomOf(v)'
  <2>1. tree' # <<>>
    BY <1>1, <1>3 DEF Inv, TypeInv
  <2>2. TypeInv' /\ AddInv'
    BY <1>1, <1>3, <2>1, ReturnsStep DEF Inv
  <2>3. Inv(v)' /\ FindOK(pc, find)'
    BY <1>1, <1>3, <2>2, ReturnStep
  <2>4. ScanInv(v)' /\ CountInv(v)'
    BY <1>1, <1>3, <2>1, ReturnScan, ReturnCounts
  <2>5. pc' \in {"insert", "scan", "register"}
    BY <1>1, <1>3, <2>1, ReturnsStep DEF Inv
  <2>6. FindAt(v, pc, find)'
    BY <2>5 DEF FindAt
  <2>7. KindsOf(tree, v)'
    BY <1>3 DEF KindsOf
  <2> QED
    BY <2>3, <2>4, <2>6, <2>7 DEF RoomOf, SegInv
<1>4. /\ TypeInv /\ AddInv /\ WordInv(w) /\ WalkInv(w) /\ cur.node \in DOMAIN tree /\ Len(tree) \in Nat
      /\ DOMAIN tree = 1 .. Len(tree)
  BY <1>1, InsertFacts DEF Inv, TypeInv
<1>5. CASE InsertAtRoot
  <2>1. PICK v : v = RootWords
    OBVIOUS
  <2>2. Len(tree') = Len(tree) /\ tree' \in Seq(Nodes)
    BY <1>5, <1>4, RootShape
  <2>3. /\ LinkInv' /\ WordsOf(tree', v) /\ TrieOf(tree', v) /\ HasNode(DOMAIN tree', v, Now.path)
        /\ Returns(tree') /\ KindsOf(tree', v) /\ Grown(w, v)
    BY <1>1, <1>5, <2>1, RootStep, RootKinds, RootGrown
  <2> QED
    BY <1>3, <1>5, <1>4, <2>1, <2>2, <2>3 DEF Rewords, Inserts
<1>6. CASE InsertSplit
  <2>1. PICK v : v = SplitWords(w)
    OBVIOUS
  <2>2. Len(tree') = Len(tree) + 1 /\ tree' \in Seq(Nodes) /\ Returns(tree')
    BY <1>6, <1>4, SplitShape
  <2>3. /\ LinkInv' /\ WordsOf(tree', v) /\ TrieOf(tree', v) /\ v[cur.node] = Now.path
        /\ KindsOf(tree', v) /\ Halving(w, v, cur.node, Len(tree) + 1, {})
    BY <1>1, <1>6, <2>1, SplitStep, SplitKinds
  <2>4. cur.node \in DOMAIN tree' /\ Len(tree') >= Len(tree)
    BY <1>4, <2>2
  <2>5. HasNode(DOMAIN tree', v, Now.path) /\ Grown(w, v)
    BY <1>1, <2>3, <2>4, AgreeSelf, HalvedGrown DEF HasNode
  <2> QED
    BY <1>3, <1>6, <2>1, <2>2, <2>3, <2>4, <2>5 DEF Rewords, Inserts
<1>7. CASE InsertFork
  <2>1. PICK v : v = ForkWords(w)
    OBVIOUS
  <2>2. Len(tree') = Len(tree) + 2 /\ tree' \in Seq(Nodes) /\ Returns(tree')
    BY <1>7, <1>4, ForkShape
  <2>3. /\ LinkInv' /\ WordsOf(tree', v) /\ TrieOf(tree', v)
        /\ Len(tree) + 2 \in DOMAIN tree' /\ v[Len(tree) + 2] = Now.path
        /\ KindsOf(tree', v) /\ Halving(w, v, cur.node, Len(tree) + 1, {Len(tree) + 2})
    BY <1>1, <1>7, <2>1, ForkStep, ForkKinds
  <2>4. Len(tree') >= Len(tree)
    BY <1>4, <2>2
  <2>5. HasNode(DOMAIN tree', v, Now.path) /\ Grown(w, v)
    BY <1>1, <2>3, AgreeSelf, HalvedGrown DEF HasNode
  <2> QED
    BY <1>3, <1>7, <2>1, <2>2, <2>3, <2>4, <2>5 DEF Rewords, Inserts
<1>8. CASE InsertChild
  <2>1. PICK v : v = ChildWords(w)
    OBVIOUS
  <2>2. Len(tree') = Len(tree) + 1 /\ tree' \in Seq(Nodes) /\ Returns(tree')
    BY <1>8, <1>4, ChildShape
  <2>3. /\ LinkInv' /\ WordsOf(tree', v) /\ TrieOf(tree', v)
        /\ Len(tree) + 1 \in DOMAIN tree' /\ v[Len(tree) + 1] = Now.path
        /\ KindsOf(tree', v) /\ Grown(w, v)
    BY <1>1, <1>8, <2>1, ChildStep, ChildKinds, ChildGrown
  <2>4. Len(tree') >= Len(tree)
    BY <1>4, <2>2
  <2>5. HasNode(DOMAIN tree', v, Now.path)
    BY <2>3, AgreeSelf DEF HasNode
  <2> QED
    BY <1>3, <1>8, <2>1, <2>2, <2>3, <2>4, <2>5 DEF Rewords, Inserts
<1>9. CASE InsertExists
  <2>1. Len(tree') = Len(tree) /\ tree' \in Seq(Nodes)
    BY <1>9, <1>4, ExistsShape
  <2>2. /\ LinkInv' /\ WordsOf(tree', w) /\ TrieOf(tree', w) /\ HasNode(DOMAIN tree', w, Now.path)
        /\ Returns(tree') /\ KindsOf(tree', w) /\ Grown(w, w)
    BY <1>1, <1>9, ExistsStep, ExistsKinds, ExistsGrown
  <2> QED
    BY <1>3, <1>9, <1>4, <2>1, <2>2 DEF Rewords, Inserts
<1> QED
  BY <1>2, <1>5, <1>6, <1>7, <1>8, <1>9

\* Add starts with a path whose colons are parameters or escaped.
LEMMA RouteColons ==
  ASSUME ColonsApart, NEW r \in Routes
  PROVE  Colons(Rooted(r[2]), 1)
<1>1. r[2] \in Seq(Characters)
  BY PathsAssumption DEF AnyMethod
<1>2. PICK p : p = Rooted(r[2])
  OBVIOUS
<1>3. p \in Seq(Characters) /\ p # <<>> /\ p[1] = "/"
  BY <1>1, <1>2, RootedFacts
<1>4. SUFFICES ASSUME NEW j \in 1 .. Len(p), p[j] = ":", j > 1
               PROVE  IF p[j - 1] = "\\" THEN j > 2 /\ p[j - 2] \notin ParamAfter
                                         ELSE p[j - 1] \in ParamAfter
  BY <1>2 DEF Colons
<1>5. CASE p[j - 1] = "\\"
  <2>1. j # 2
    BY <1>3, <1>5
  <2>2. j \in 3 .. Len(p)
    BY <1>3, <1>4, <2>1
  <2>3. p[j - 2] \notin ParamAfter
    BY <1>2, <1>4, <1>5, <2>2 DEF ColonsApart
  <2> QED
    BY <1>5, <2>2, <2>3
<1>6. CASE p[j - 1] # "\\"
  <2>1. j \in 2 .. Len(p) /\ j - 1 \in 1 .. Len(p)
    BY <1>3, <1>4
  <2>2. p[j - 1] \in Characters
    BY <1>3, <2>1
  <2>3. p[j - 1] \in ParamAfter
    BY <1>2, <1>4, <1>6, <2>1, <2>2 DEF ParamAfter
  <2> QED
    BY <1>6, <2>3
<1> QED
  BY <1>5, <1>6

\* Where Add has come to, the names are those of the parameters up to there.
LEMMA ScanCount ==
  ASSUME NEW w, SegInv(w), pc = "scan"
  PROVE  /\ Len(add.pnames) = Count(add.path, ScanAt - 1) /\ Marked(w, add.path, ScanAt - 1)
         /\ Colons(add.path, add.i)
<1>1. TypeInv /\ AddInv /\ ScanInv(w)
  BY DEF SegInv, Inv
<1>2. PICK m \in 0 .. Len(add.path) : ScannedTo(m) /\ Marked(w, add.path, m)
  BY <1>1 DEF ScanInv
<1>3. add.path \in Seq(Characters) /\ add.i \in Nat \ {0}
  BY <1>1 DEF TypeInv, Adds
<1>4. PICK p : p = add.path
  OBVIOUS
<1>5. PICK s : s = ScanAt
  OBVIOUS
<1>6. /\ s \in 1 .. Len(p) + 1 /\ (s <= Len(p) => s >= add.i) /\ Len(p) \in Nat
      /\ \A j \in add.i .. Len(p) : j < s => p[j] \notin {":", "*"}
  BY <1>1, <1>3, <1>4, <1>5, ScanAtFacts
<1>7. m \in Nat /\ s - 1 \in Nat /\ m <= s - 1
  BY <1>2, <1>3, <1>4, <1>6 DEF ScannedTo
<1>8. ASSUME NEW k \in m + 1 .. s - 1 PROVE ~Special(p, k)
  <2>1. k \in m + 1 .. Len(p) /\ k < s /\ k \in Nat
    BY <1>6, <1>7
  <2>2. CASE k < add.i
    BY <1>2, <1>4, <2>1, <2>2 DEF ScannedTo
  <2>3. CASE ~(k < add.i)
    <3>1. k \in add.i .. Len(p)
      BY <1>3, <2>1, <2>3
    <3> QED
      BY <1>6, <2>1, <3>1 DEF Special
  <2> QED
    BY <2>2, <2>3
<1>9. Count(p, s - 1) = Count(p, m)
  BY <1>7, <1>8, CountNone
<1>10. Marked(w, p, s - 1)
  <2>1. ASSUME NEW k \in 1 .. s - 1, Special(p, k) PROVE NodeAt(w, p, k)
    <3>1. k \in 1 .. m
      BY <1>7, <1>8, <2>1
    <3> QED
      BY <1>2, <1>4, <2>1, <3>1 DEF Marked
  <2> QED
    BY <2>1 DEF Marked
<1> QED
  BY <1>1, <1>2, <1>4, <1>5, <1>9, <1>10 DEF ScanInv, ScannedTo

\* A backslash goes, and its colon is no parameter.
LEMMA EscapeScan ==
  ASSUME NEW w, SegInv(w), ScanEscape
  PROVE  ScanInv(w)'
<1>1. TypeInv /\ AddInv /\ pc = "scan"
  BY DEF SegInv, Inv, ScanEscape, Scanning
<1>2. PICK p : p = add.path
  OBVIOUS
<1>3. PICK s : s = ScanAt
  OBVIOUS
<1>4. /\ s <= Len(p) /\ s > 1 /\ p[s - 1] = "\\" /\ p[s] = ":"
  BY <1>2, <1>3 DEF ScanEscape, Scanning, Escaped
<1>5. /\ p \in Seq(Characters) /\ s \in 1 .. Len(p) /\ p[1] = "/" /\ Len(p) \in Nat
      /\ add.i \in Nat \ {0} /\ s >= add.i
  BY <1>1, <1>2, <1>3, <1>4, ScanAtFacts DEF TypeInv, AddInv, Adds
<1>6. s > 2 /\ s \in Nat /\ s - 1 \in 1 .. Len(p) /\ s \in add.i .. Len(p)
  BY <1>4, <1>5
<1>7. /\ Len(add.pnames) = Count(p, s - 1) /\ Marked(w, p, s - 1) /\ Colons(p, add.i)
  BY <1>1, <1>2, <1>3, ScanCount
<1>8. PICK t : t = RemoveAt(p, s - 1)
  OBVIOUS
<1>9. /\ t \in Seq(Characters) /\ Len(t) = Len(p) - 1
      /\ \A k \in 1 .. s - 2 : t[k] = p[k]
      /\ \A k \in s - 1 .. Len(p) - 1 : t[k] = p[k + 1]
  <2>1. PICK i : i = s - 1
    OBVIOUS
  <2>2. i \in 1 .. Len(p) /\ t = RemoveAt(p, i) /\ i - 1 = s - 2
    BY <1>6, <1>8, <2>1
  <2>3. /\ t \in Seq(Characters) /\ Len(t) = Len(p) - 1
        /\ \A k \in 1 .. i - 1 : t[k] = p[k]
        /\ \A k \in i .. Len(p) - 1 : t[k] = p[k + 1]
    BY <1>5, <2>2, RemoveAtFacts
  <2> QED
    BY <2>1, <2>2, <2>3
<1>10. /\ add'.path = t /\ add'.i = s /\ add'.pnames = add.pnames /\ pc' = "scan" /\ UNCHANGED tree
  BY <1>1, <1>2, <1>3, <1>8 DEF ScanEscape, TypeInv, Adds
<1>11. Colons(t, s)
  <2> SUFFICES ASSUME NEW j \in s .. Len(t), t[j] = ":", j > 1
               PROVE  IF t[j - 1] = "\\" THEN j > 2 /\ t[j - 2] \notin ParamAfter
                                         ELSE t[j - 1] \in ParamAfter
    BY DEF Colons
  <2>1. /\ j + 1 \in add.i .. Len(p) /\ j + 1 > 1 /\ j \in s - 1 .. Len(p) - 1
        /\ j - 1 \in s - 1 .. Len(p) - 1 /\ j \in Nat /\ j > 2
    BY <1>5, <1>6, <1>9
  <2>2. t[j] = p[j + 1] /\ t[j - 1] = p[(j - 1) + 1] /\ (j - 1) + 1 = j
    BY <1>9, <2>1
  <2>3. IF p[(j + 1) - 1] = "\\" THEN p[(j + 1) - 2] \notin ParamAfter
                                 ELSE p[(j + 1) - 1] \in ParamAfter
    BY <1>7, <2>1, <2>2 DEF Colons
  <2>4. (j + 1) - 1 = j /\ (j + 1) - 2 = j - 1
    BY <2>1
  <2>5. IF p[j] = "\\" THEN p[j - 1] \notin ParamAfter ELSE p[j] \in ParamAfter
    BY <2>3, <2>4
  <2>6. CASE j = s
    BY <1>4, <2>2, <2>5, <2>6
  <2>7. CASE j # s
    <3>1. j - 2 \in s - 1 .. Len(p) - 1 /\ (j - 2) + 1 = j - 1
      BY <1>5, <1>6, <2>1, <2>7
    <3>2. t[j - 2] = p[j - 1]
      BY <1>9, <3>1
    <3> QED
      BY <2>1, <2>2, <2>5, <3>2
  <2> QED
    BY <2>6, <2>7
<1>12. ~Special(p, s - 1) /\ ~Special(t, s - 1)
  <2>1. s - 1 \in s - 1 .. Len(p) - 1 /\ s - 2 \in 1 .. s - 2 /\ (s - 1) + 1 = s /\ (s - 1) - 1 = s - 2
    BY <1>5, <1>6
  <2>2. t[s - 1] = ":" /\ t[s - 2] = p[s - 2]
    BY <1>4, <1>9, <2>1
  <2>3. p[s - 2] \notin ParamAfter
    BY <1>4, <1>6, <1>7 DEF Colons
  <2> QED
    BY <1>4, <2>1, <2>2, <2>3 DEF Special
<1>13. Agree(p, t, s - 2) /\ s - 2 \in Nat /\ s - 1 \in Nat /\ s - 2 <= s - 1
  BY <1>6, <1>9 DEF Agree
<1>14. Count(t, s - 1) = Count(p, s - 1)
  <2>1. \A k \in (s - 2) + 1 .. s - 1 : k = s - 1
    BY <1>6
  <2>2. Count(p, s - 1) = Count(p, s - 2) /\ Count(t, s - 1) = Count(t, s - 2)
    BY <1>12, <1>13, <2>1, CountNone
  <2> QED
    BY <1>13, <2>2, CountAgree
<1>15. ScannedTo(s - 1)' /\ s - 1 \in 0 .. Len(t)
  <2>1. s - 1 \in 0 .. Len(t) /\ s - 1 < s /\ \A k \in (s - 1) + 1 .. Len(t) : ~(k < s)
    BY <1>5, <1>6, <1>9
  <2> QED
    BY <1>7, <1>10, <1>14, <2>1 DEF ScannedTo
<1>16. Marked(w, t, s - 1)
  <2>1. Marked(w, t, s - 2)
    BY <1>7, <1>13, MarkedAgree
  <2>2. \A k \in 1 .. s - 1 : k = s - 1 \/ k \in 1 .. s - 2
    BY <1>6
  <2> QED
    BY <1>12, <2>1, <2>2 DEF Marked
<1>17. Marked(w, t, s - 1)'
  BY <1>10, <1>16 DEF Marked, NodeAt
<1> QED
  BY <1>10, <1>11, <1>15, <1>17 DEF ScanInv

\* t is p without n characters after the first s, which are no slashes, and goes
\* on with a slash if it does
Cut(p, t, s, n) ==
  /\ s <= Len(t) /\ Agree(p, t, s) /\ Len(p) = Len(t) + n
  /\ \A k \in s + 1 .. Len(t) : t[k] = p[k + n]
  /\ s + 1 <= Len(t) => t[s + 1] = "/"
  /\ \A k \in s + 1 .. s + n : p[k] # "/"

\* The path after a parameter at s is t, without the n characters of its name
Shortened(s, t, n) ==
  /\ add'.path = t /\ add'.i = s + 2 /\ Len(add'.pnames) = Len(add.pnames) + 1
  /\ pc' = "insert" /\ Len(calls') = 2 /\ calls'[2].kind = "param"
  /\ calls'[2].path = Take(t, s) /\ (calls'[2].rm # EmptyRoute => s = Len(t))
  /\ s \in 2 .. Len(t) /\ t[s] = ":" /\ Cut(add.path, t, s, n)

\* A parameter's name goes from the path.
LEMMA ParamShape ==
  ASSUME TypeInv, AddInv, ScanParam, NEW s, s = ScanAt
  PROVE  \E t \in Seq(Characters), d \in Nat : Shortened(s, t, d)
<1>1. PICK p : p = add.path
  OBVIOUS
<1>2. PICK end : end = Next1(p, s, {"/"})
  OBVIOUS
<1>3. PICK names : names = Append(add.pnames, SubSeq(p, s + 1, end - 1))
  OBVIOUS
<1>4. PICK t : t = Take(p, s) \o Drop(p, end - 1)
  OBVIOUS
<1>5. PICK rm : rm = IF s = Len(t) THEN Full(names) ELSE EmptyRoute
  OBVIOUS
<1>6. pc = "scan" /\ s <= Len(p) /\ p[s] = ":"
  BY <1>1 DEF ScanParam, Scanning
<1>7. /\ p \in Seq(Characters) /\ s \in 2 .. Len(p) /\ p[1] = "/" /\ Len(p) \in Nat
      /\ add.pnames \in Seq(Seq(Characters))
  BY <1>1, <1>6, ScanInside, AddFacts
<1>8. /\ end \in s + 1 .. Len(p) + 1 /\ (end <= Len(p) => p[end] = "/")
      /\ \A k \in s .. Len(p) : k < end => p[k] # "/"
  <2>1. s \in Nat \ {0}
    BY <1>7
  <2>2. /\ end \in 1 .. Len(p) + 1 /\ (end <= Len(p) => end >= s /\ p[end] \in {"/"})
        /\ \A k \in s .. Len(p) : k < end => p[k] \notin {"/"}
    BY <1>2, <1>7, <2>1, Next1Facts
  <2>3. end # s
    BY <1>6, <1>7, <2>2
  <2> QED
    BY <1>7, <2>1, <2>2, <2>3
<1>9. SubSeq(p, s + 1, end - 1) \in Seq(Characters)
  BY <1>7, <1>8
<1>10. names \in Seq(Seq(Characters)) /\ Len(names) = Len(add.pnames) + 1
  BY <1>3, <1>7, <1>9
<1>11. /\ Take(p, s) \in Seq(Characters) /\ Len(Take(p, s)) = s
       /\ \A k \in 1 .. s : Take(p, s)[k] = p[k]
  BY <1>7, TakeFacts
<1>12. /\ Drop(p, end - 1) \in Seq(Characters) /\ Len(Drop(p, end - 1)) = Len(p) - (end - 1)
       /\ \A k \in 1 .. Len(p) - (end - 1) : Drop(p, end - 1)[k] = p[(end - 1) + k]
  <2>1. end - 1 \in 0 .. Len(p)
    BY <1>7, <1>8
  <2> QED
    BY <1>7, <2>1, DropFacts
<1>13. PICK x \in Seq(Characters) : x = Take(p, s)
  BY <1>11
<1>14. PICK y \in Seq(Characters) : y = Drop(p, end - 1)
  BY <1>12
<1>15. /\ t = x \o y /\ t \in Seq(Characters) /\ Len(t) = Len(x) + Len(y)
       /\ \A k \in 1 .. Len(x) + Len(y) : t[k] = IF k <= Len(x) THEN x[k] ELSE y[k - Len(x)]
  BY <1>4, <1>13, <1>14, ConcatProperties
<1>16. Len(x) = s /\ Len(y) = Len(p) - (end - 1) /\ Len(y) \in Nat /\ Len(t) = s + Len(y)
  BY <1>11, <1>12, <1>13, <1>14, <1>15
<1>17. PICK d : d = (end - 1) - s
  OBVIOUS
<1>18. d \in Nat /\ Len(p) = Len(t) + d /\ s \in 2 .. Len(t) /\ Len(t) \in Nat
  BY ONLY <1>7, <1>8, <1>16, <1>17
<1>19. ASSUME NEW k \in 1 .. s PROVE t[k] = p[k]
  <2>1. k \in 1 .. Len(x) + Len(y) /\ k <= Len(x)
    BY <1>7, <1>16
  <2> QED
    BY <1>11, <1>13, <1>15, <2>1
<1>20. ASSUME NEW k \in s + 1 .. Len(t) PROVE t[k] = p[k + d]
  <2>1. /\ k \in 1 .. Len(x) + Len(y) /\ ~(k <= Len(x)) /\ k - s \in 1 .. Len(p) - (end - 1)
        /\ (end - 1) + (k - s) = k + d
    BY <1>7, <1>8, <1>16, <1>17
  <2>2. t[k] = y[k - s]
    BY <1>15, <1>16, <2>1
  <2>3. y[k - s] = p[(end - 1) + (k - s)]
    BY <1>12, <1>14, <2>1
  <2> QED
    BY <2>1, <2>2, <2>3
<1>21. s + 1 <= Len(t) => t[s + 1] = "/"
  <2> SUFFICES ASSUME s + 1 <= Len(t) PROVE t[s + 1] = "/"
    OBVIOUS
  <2>1. s + 1 \in s + 1 .. Len(t) /\ (s + 1) + d = end /\ end <= Len(p)
    BY <1>7, <1>8, <1>16, <1>17, <1>18
  <2> QED
    BY <1>8, <1>20, <2>1
<1>22. /\ add' = [add EXCEPT !.path = t, !.pnames = names, !.i = s + 2]
       /\ Calls(<<Call(Take(t, s - 1), "static", EmptyRoute), Call(Take(t, s), "param", rm)>>)
       /\ UNCHANGED <<tree, maxParam, routes, find>>
  BY <1>1, <1>2, <1>3, <1>4, <1>5 DEF ScanParam
<1>23. /\ rm \in {EmptyRoute, Full(names)} /\ s + 2 \in Nat \ {0} /\ t[1] = "/" /\ t[s] = ":"
  BY <1>5, <1>6, <1>7, <1>19
<1>24. /\ pc' = "insert" /\ Len(calls') = 2 /\ calls'[2].kind = "param" /\ calls'[2].path = Take(t, s)
  BY <1>6, <1>10, <1>15, <1>18, <1>22, <1>23, TwoCalls
<1>25. add'.path = t /\ add'.i = s + 2 /\ add'.pnames = names
  BY <1>22 DEF TypeInv, Adds
<1>26. Agree(p, t, s)
  BY <1>19 DEF Agree
<1>27. \A k \in s + 1 .. s + d : p[k] # "/"
  <2>1. \A k \in s + 1 .. s + d : k \in s .. Len(p) /\ k < end
    BY <1>7, <1>8, <1>17, <1>18
  <2> QED
    BY <1>8, <2>1
<1>28. calls'[2].rm # EmptyRoute => s = Len(t)
  <2>1. PICK c1, c2 : /\ c1 = Call(Take(t, s - 1), "static", EmptyRoute)
                      /\ c2 = Call(Take(t, s), "param", rm)
    OBVIOUS
  <2>2. calls' = <<c1, c2>>
    BY <1>22, <2>1 DEF Calls
  <2>3. c2.rm = rm
    BY <2>1 DEF Call
  <2> QED
    BY <1>5, <2>2, <2>3
<1>29. Cut(p, t, s, d)
  <2>1. s <= Len(t)
    BY <1>18
  <2> QED
    BY <1>18, <1>20, <1>21, <1>26, <1>27, <2>1 DEF Cut
<1>30. Shortened(s, t, d)
  BY <1>1, <1>10, <1>18, <1>23, <1>24, <1>25, <1>28, <1>29 DEF Shortened
<1> QED
  BY <1>15, <1>18, <1>30

\* The call for a parameter or a wildcard.
LEMMA MarkScan ==
  ASSUME NEW w, NEW p, NEW t \in Seq(Characters), NEW s \in 2 .. Len(t), Agree(p, t, s),
         Special(t, s), Marked(w, p, s - 1), Len(add.pnames) = Count(p, s - 1),
         UNCHANGED tree, pc' = "insert", add'.path = t, Len(add'.pnames) = Len(add.pnames) + 1,
         Len(calls') = 2, calls'[2].kind \in {"param", "any"}, calls'[2].path = Take(t, s),
         add'.i \in {s + 1, s + 2}, s + 1 <= Len(t) /\ add'.i = s + 2 => ~Special(t, s + 1),
         Colons(t, add'.i)
  PROVE  ScanInv(w)'
<1>1. s - 1 \in Nat /\ s \in Nat /\ s - 1 <= s /\ (s - 1) + 1 = s /\ Len(t) \in Nat /\ s - 1 \in Int
  OBVIOUS
<1>2. Agree(p, t, s - 1)
  BY <1>1, AgreeLess
<1>3. Count(t, s) = Count(t, s - 1) + 1
  BY <1>1, CountOne
<1>4. Count(t, s - 1) = Count(p, s - 1)
  BY <1>1, <1>2, CountAgree
<1>5. Marked(w, t, s - 1)
  BY <1>1, <1>2, MarkedAgree
<1>6. Marked(w, t, s - 1)'
  BY <1>5 DEF Marked, NodeAt
<1>7. Len(Take(t, s)) = s
  BY <1>1, TakeFacts
<1>8. PICK q : q = calls'[2]
  OBVIOUS
<1>9. q = calls[Len(calls)]' /\ q.kind # "static" /\ Len(q.path) = s
  BY <1>7, <1>8
<1>10. Len(add'.pnames) = Count(t, s)
  BY <1>3, <1>4
<1>11. \A k \in s + 1 .. Len(t) : k < add'.i => k = s + 1 /\ add'.i = s + 2 /\ s + 1 <= Len(t)
  BY <1>1
<1>12. s \in 0 .. Len(t) /\ s < add'.i
  BY <1>1
<1>13. ScannedTo(s)'
  BY <1>10, <1>11, <1>12 DEF ScannedTo
<1> QED
  BY <1>6, <1>8, <1>9, <1>10, <1>13 DEF ScanInv

\* A parameter is called for.
LEMMA ParamScan ==
  ASSUME NEW w, SegInv(w), ScanParam
  PROVE  ScanInv(w)' /\ Len(add'.pnames) >= Len(add.pnames) /\ pc' = "insert"
<1>1. TypeInv /\ AddInv /\ pc = "scan" /\ UNCHANGED tree
  BY DEF SegInv, Inv, ScanParam, Scanning
<1>2. PICK s : s = ScanAt
  OBVIOUS
<1>3. PICK p : p = add.path
  OBVIOUS
<1>4. PICK t \in Seq(Characters), d \in Nat : Shortened(s, t, d)
  BY <1>1, <1>2, ParamShape
<1>5. /\ add'.path = t /\ add'.i = s + 2 /\ Len(add'.pnames) = Len(add.pnames) + 1
      /\ pc' = "insert" /\ Len(calls') = 2 /\ calls'[2].kind = "param"
      /\ calls'[2].path = Take(t, s)
      /\ s \in 2 .. Len(t) /\ Agree(p, t, s) /\ t[s] = ":"
      /\ Len(p) = Len(t) + d
      /\ \A k \in s + 1 .. Len(t) : t[k] = p[k + d]
      /\ s + 1 <= Len(t) => t[s + 1] = "/"
  BY <1>3, <1>4 DEF Shortened, Cut
<1>6. Len(add.pnames) = Count(p, s - 1) /\ Marked(w, p, s - 1) /\ Colons(p, add.i)
  BY <1>1, <1>2, <1>3, ScanCount
<1>7. s <= Len(p) /\ p[s] = ":" /\ ~(s > 1 /\ p[s - 1] = "\\")
  BY <1>2, <1>3 DEF ScanParam, Scanning, Escaped
<1>8. /\ s >= add.i /\ add.i \in Nat \ {0} /\ Len(t) \in Nat /\ Len(p) \in Nat
      /\ Len(add.pnames) \in Nat
  <2>1. Len(t) \in Nat
    BY <1>5
  <2> QED
    BY <1>1, <1>2, <1>3, <1>7, <2>1, ScanInside, AddFacts
<1>9. s \in add.i .. Len(p) /\ s > 1 /\ s - 1 \in 1 .. s
  <2>1. PICK i, l : i = add.i /\ l = Len(p)
    OBVIOUS
  <2>2. s \in 2 .. l /\ i \in Nat /\ s >= i /\ l \in Nat
    BY <1>1, <1>2, <1>3, <1>7, <1>8, <2>1, ScanInside
  <2>3. s \in i .. l /\ s > 1 /\ s - 1 \in 1 .. s
    BY ONLY <2>2
  <2> QED
    BY <2>1, <2>3
<1>10. p[s - 1] \in ParamAfter
  BY <1>6, <1>7, <1>9 DEF Colons
<1>11. Special(t, s)
  <2>1. t[s - 1] = p[s - 1]
    BY <1>5, <1>9 DEF Agree
  <2> QED
    BY <1>5, <1>9, <1>10, <2>1 DEF Special
<1>12. s + 1 <= Len(t) => ~Special(t, s + 1)
  BY <1>5 DEF Special
<1>13. Colons(t, s + 2)
  <2> SUFFICES ASSUME NEW j \in s + 2 .. Len(t), t[j] = ":", j > 1
               PROVE  IF t[j - 1] = "\\" THEN j > 2 /\ t[j - 2] \notin ParamAfter
                                         ELSE t[j - 1] \in ParamAfter
    BY DEF Colons
  <2>1. /\ j \in s + 1 .. Len(t) /\ j - 1 \in s + 1 .. Len(t) /\ j + d \in add.i .. Len(p)
        /\ j + d > 1 /\ (j - 1) + d = (j + d) - 1 /\ j > 2
    <3>1. PICK i, l, q : i = add.i /\ l = Len(t) /\ q = Len(p)
      OBVIOUS
    <3>2. /\ i \in Nat /\ s >= i /\ l \in Nat /\ q \in Nat /\ d \in Nat /\ q = l + d
          /\ s \in 2 .. l /\ j \in s + 2 .. l
      BY <1>5, <1>8, <3>1
    <3>3. /\ j \in s + 1 .. l /\ j - 1 \in s + 1 .. l /\ j + d \in i .. q
          /\ j + d > 1 /\ (j - 1) + d = (j + d) - 1 /\ j > 2
      BY ONLY <3>2
    <3> QED
      BY <3>1, <3>3
  <2>2. t[j] = p[j + d] /\ t[j - 1] = p[(j + d) - 1]
    BY <1>5, <2>1
  <2>3. IF p[(j + d) - 1] = "\\" THEN p[(j + d) - 2] \notin ParamAfter
                                 ELSE p[(j + d) - 1] \in ParamAfter
    BY <1>6, <2>1, <2>2 DEF Colons
  <2>4. CASE j = s + 2
    <3>1. j - 1 = s + 1 /\ s + 1 <= Len(t)
      <4>1. PICK l : l = Len(t)
        OBVIOUS
      <4>2. s \in 2 .. l /\ j - 1 \in s + 1 .. l /\ l \in Nat /\ j = s + 2
        BY <1>5, <1>8, <2>1, <2>4, <4>1
      <4>3. j - 1 = s + 1 /\ s + 1 <= l
        BY ONLY <4>2
      <4> QED
        BY <4>1, <4>3
    <3>2. t[j - 1] = "/"
      BY <1>5, <3>1
    <3> QED
      BY <2>2, <2>3, <3>2
  <2>5. CASE j # s + 2
    <3>1. j - 2 \in s + 1 .. Len(t) /\ (j - 2) + d = (j + d) - 2
      BY <1>5, <2>1, <2>5
    <3>2. t[j - 2] = p[(j + d) - 2]
      BY <1>5, <3>1
    <3> QED
      BY <2>1, <2>2, <2>3, <3>2
  <2> QED
    BY <2>4, <2>5
<1>14. s \in 2 .. Len(t) /\ Len(add'.pnames) >= Len(add.pnames)
  BY <1>5, <1>8
<1> QED
  BY <1>1, <1>5, <1>6, <1>11, <1>12, <1>13, <1>14, MarkScan

\* A wildcard is called for.
LEMMA AnyScan ==
  ASSUME NEW w, SegInv(w), ScanAny
  PROVE  ScanInv(w)' /\ Len(add'.pnames) >= Len(add.pnames) /\ pc' = "insert"
<1>1. TypeInv /\ AddInv /\ pc = "scan" /\ UNCHANGED <<tree, maxParam, routes, find>>
  BY DEF SegInv, Inv, ScanAny, Scanning
<1>2. PICK s : s = ScanAt
  OBVIOUS
<1>3. PICK p : p = add.path
  OBVIOUS
<1>4. Len(add.pnames) = Count(p, s - 1) /\ Marked(w, p, s - 1) /\ Colons(p, add.i)
  BY <1>1, <1>2, <1>3, ScanCount
<1>5. s <= Len(p) /\ p[s] = "*"
  BY <1>2, <1>3 DEF ScanAny, Scanning
<1>6. /\ s >= add.i /\ add.i \in Nat \ {0} /\ s \in 2 .. Len(p) /\ p \in Seq(Characters) /\ Len(p) \in Nat
      /\ add.pnames \in Seq(Seq(Characters)) /\ p[1] = "/"
  BY <1>1, <1>2, <1>3, <1>5, ScanInside, AddFacts
<1>7. PICK names : names = Append(add.pnames, <<"*">>)
  OBVIOUS
<1>8. names \in Seq(Seq(Characters)) /\ Len(names) = Len(add.pnames) + 1 /\ Len(add.pnames) \in Nat
  <2>1. <<"*">> \in Seq(Characters)
    BY Single, PathsAssumption
  <2> QED
    BY <1>6, <1>7, <2>1
<1>9. /\ add' = [add EXCEPT !.pnames = names, !.i = s + 1]
      /\ Calls(<<Call(Take(p, s - 1), "static", EmptyRoute), Call(Take(p, s), "any", Full(names))>>)
  BY <1>2, <1>3, <1>7 DEF ScanAny
<1>10. add' = [add EXCEPT !.path = p, !.pnames = names, !.i = s + 1]
       /\ add'.path = p /\ add'.pnames = names /\ add'.i = s + 1
  BY <1>1, <1>3, <1>9 DEF TypeInv, Adds
<1>11. /\ pc' = "insert" /\ Len(calls') = 2 /\ calls'[2].kind = "any" /\ calls'[2].path = Take(p, s)
  <2>1. PICK c1, c2 : /\ c1 = Call(Take(p, s - 1), "static", EmptyRoute)
                      /\ c2 = Call(Take(p, s), "any", Full(names))
    OBVIOUS
  <2>2. calls' = <<c1, c2>> /\ pc' = "insert"
    BY <1>9, <2>1 DEF Calls
  <2>3. c2.kind = "any" /\ c2.path = Take(p, s)
    BY <2>1 DEF Call
  <2> QED
    BY <2>2, <2>3
<1>12. Special(p, s) /\ Agree(p, p, s) /\ s + 1 # s + 2
  BY <1>5, <1>6, AgreeSelf DEF Special
<1>13. Colons(p, s + 1)
  <2>1. \A j \in s + 1 .. Len(p) : j \in add.i .. Len(p)
    BY <1>6
  <2> QED
    BY <1>4, <2>1 DEF Colons
<1>14. Len(add'.pnames) >= Len(add.pnames)
  BY <1>8, <1>10
<1> QED
  BY <1>1, <1>4, <1>6, <1>8, <1>10, <1>11, <1>12, <1>13, <1>14, MarkScan

\* The last call is for the whole path.
LEMMA EndScan ==
  ASSUME NEW w, SegInv(w), ScanEnd
  PROVE  ScanInv(w)' /\ Len(add'.pnames) >= Len(add.pnames) /\ pc' = "insert"
<1>1. TypeInv /\ AddInv /\ pc = "scan"
  BY DEF SegInv, Inv, ScanEnd
<1>2. /\ pc' = "insert" /\ UNCHANGED <<tree, add>>
      /\ calls' = <<Call(add.path, "static", Full(add.pnames))>>
  BY <1>1, ScanEndStep
<1>3. PICK p : p = add.path
  OBVIOUS
<1>4. Len(add.pnames) = Count(p, ScanAt - 1) /\ Marked(w, p, ScanAt - 1) /\ Colons(p, add.i)
  BY <1>1, <1>3, ScanCount
<1>5. p \in Seq(Characters) /\ Len(p) \in Nat /\ Len(add.pnames) \in Nat
  BY <1>1, <1>3 DEF TypeInv, Adds
<1>6. ScanAt \in 1 .. Len(p) + 1 /\ ScanAt > Len(p)
  BY <1>1, <1>3, ScanAtFacts DEF ScanEnd
<1>7. ScanAt - 1 = Len(p)
  BY <1>5, <1>6
<1>8. Len(calls') = 1 /\ calls'[1].kind = "static" /\ calls'[1].path = p
  BY <1>2, <1>3 DEF Call
<1>9. Marked(w, p, Len(p))'
  BY <1>2, <1>4, <1>7 DEF Marked, NodeAt
<1>10. add' = add /\ add'.path = p
  BY <1>2, <1>3
<1>11. Len(add'.pnames) = Count(p, Len(p)) /\ Colons(add'.path, add'.i)
  BY <1>4, <1>7, <1>10
<1>12. calls[Len(calls)]' = calls'[1]
  BY <1>8
<1>13. Len(add'.pnames) >= Len(add.pnames)
  BY <1>5, <1>10
<1> QED
  BY <1>2, <1>8, <1>9, <1>10, <1>11, <1>12, <1>13 DEF ScanInv

\* The parameters of a node's word are so many.
LEMMA ParamsNat ==
  ASSUME NEW w, WordInv(w), NEW i \in DOMAIN tree
  PROVE  Params(w, i) \in Nat /\ w[i] \in Seq(Characters) /\ Len(w[i]) \in Nat
<1>1. w[i] \in Seq(Characters)
  BY DEF WordInv, WordsOf
<1>2. Len(w[i]) \in Nat
  BY <1>1
<1> QED
  BY <1>1, <1>2, CountNat DEF Params

\* Add's loop keeps what Find relies on.
LEMMA ScanRoom ==
  ASSUME NEW w, SegInv(w), FindOK(pc, find), ScanEscape \/ ScanParam \/ ScanAny \/ ScanEnd
  PROVE  RoomOf(w)'
<1>1. /\ TypeInv /\ WordInv(w) /\ Inv(w) /\ pc = "scan" /\ KindsOf(tree, w) /\ CountInv(w)
      /\ UNCHANGED <<tree, maxParam>>
  BY DEF SegInv, Inv, ScanEscape, ScanParam, ScanAny, ScanEnd, Scanning
<1>2. Inv(w)' /\ FindOK(pc, find)'
  BY <1>1, ScanStep
<1>3. ScanInv(w)' /\ Len(add'.pnames) >= Len(add.pnames) /\ pc' \in {"scan", "insert"}
  <2>1. CASE ScanEscape
    <3>1. pc' = "scan" /\ add'.pnames = add.pnames
      BY <1>1, <2>1 DEF ScanEscape, TypeInv, Adds
    <3>2. Len(add.pnames) \in Nat
      BY <1>1 DEF TypeInv, Adds
    <3> QED
      BY <2>1, <3>1, <3>2, EscapeScan
  <2> QED
    BY <2>1, ParamScan, AnyScan, EndScan
<1>4. Len(add'.pnames) \in Nat /\ Len(add.pnames) \in Nat
  <2>1. add \in Adds /\ add' \in Adds
    BY <1>1, <1>2 DEF TypeInv, Inv
  <2>2. \A a \in Adds : Len(a.pnames) \in Nat
    <3> SUFFICES ASSUME NEW a \in Adds PROVE Len(a.pnames) \in Nat
      OBVIOUS
    <3>1. a.pnames \in Seq(Seq(Characters))
      BY DEF Adds
    <3> QED
      BY <3>1
  <2> QED
    BY <2>1, <2>2
<1>5. CountInv(w)'
  <2>1. ASSUME NEW i \in DOMAIN tree
        PROVE  Params(w, i) <= maxParam \/ Params(w, i) <= Len(add'.pnames)
    <3>1. Params(w, i) <= maxParam \/ Params(w, i) <= Len(add.pnames)
      BY <1>1 DEF CountInv
    <3>2. Params(w, i) \in Nat
      BY <1>1, ParamsNat
    <3> QED
      BY <1>3, <1>4, <3>1, <3>2
  <2> QED
    BY <1>1, <1>3, <2>1 DEF CountInv
<1>6. KindsOf(tree, w)'
  BY <1>1 DEF KindsOf
<1>7. FindAt(w, pc, find)'
  BY <1>3 DEF FindAt
<1> QED
  BY <1>2, <1>3, <1>5, <1>6, <1>7 DEF RoomOf, SegInv

\* Nothing is scanned when Add begins.
LEMMA AddRoom ==
  ASSUME ColonsApart, NEW w, SegInv(w), FindOK(pc, find), NEW r \in Routes, Add(r[1], r[2])
  PROVE  RoomOf(w)'
<1>1. Inv(w) /\ KindsOf(tree, w) /\ CountInv(w)
  BY DEF SegInv
<1>2. Inv(w)' /\ FindOK(pc, find)'
  BY <1>1, AddStep
<1>3. PICK p : p = Rooted(r[2])
  OBVIOUS
<1>4. /\ pc = "idle" /\ pc' = "scan" /\ UNCHANGED <<tree, maxParam>>
      /\ add'.path = p /\ add'.i = 1 /\ add'.pnames = <<>>
  BY <1>3 DEF Add
<1>5. Colons(p, 1)
  BY <1>3, RouteColons
<1>6. Len(p) \in Nat
  <2>1. p \in Seq(Characters)
    BY <1>2, <1>4 DEF Inv, TypeInv, Adds
  <2> QED
    BY <2>1
<1>7. Count(p, 0) = 0
  <2>1. {k \in 1 .. 0 : Special(p, k)} = {}
    OBVIOUS
  <2> QED
    BY <2>1, FS_EmptySet DEF Count
<1>8. ScannedTo(0)'
  <2>1. 0 \in 0 .. Len(p) /\ 0 < 1 /\ Len(<<>>) = 0 /\ \A k \in 0 + 1 .. Len(p) : ~(k < 1)
    BY <1>6
  <2> QED
    BY <1>4, <1>7, <2>1 DEF ScannedTo
<1>9. Marked(w, p, 0)' /\ 0 \in 0 .. Len(p)
  BY <1>6 DEF Marked
<1>10. ScanInv(w)'
  BY <1>4, <1>5, <1>8, <1>9 DEF ScanInv
<1>11. CountInv(w)'
  BY <1>1, <1>4 DEF CountInv
<1>12. KindsOf(tree, w)' /\ FindAt(w, pc, find)'
  BY <1>1, <1>4 DEF KindsOf, FindAt
<1> QED
  BY <1>2, <1>10, <1>11, <1>12 DEF RoomOf, SegInv

\* There is room for a route that is registered.
LEMMA RegisteredRoom ==
  ASSUME NEW w, SegInv(w), FindOK(pc, find), Registered
  PROVE  RoomOf(w)'
<1>1. Inv(w) /\ KindsOf(tree, w) /\ CountInv(w)
  BY DEF SegInv
<1>2. Inv(w)' /\ FindOK(pc, find)'
  BY <1>1, RegisteredStep
<1>3. pc = "register" /\ pc' = "idle" /\ UNCHANGED <<tree, maxParam>>
  BY DEF Registered
<1>4. ScanInv(w)' /\ CountInv(w)' /\ KindsOf(tree, w)' /\ FindAt(w, pc, find)'
  BY <1>1, <1>3 DEF ScanInv, CountInv, KindsOf, FindAt
<1> QED
  BY <1>2, <1>4 DEF RoomOf, SegInv

\* The router starts with an empty root, which has no parameter.
LEMMA InitRoom == Init => RoomInv
<1> SUFFICES ASSUME Init PROVE RoomInv
  OBVIOUS
<1>1. PICK w : Inv(w) /\ FindOK(pc, find)
  BY InitInv DEF RouterInv
<1>2. /\ pc = "idle" /\ Len(tree) = 1 /\ DOMAIN tree = {Root} /\ maxParam = 0
      /\ tree[Root].kind = "static" /\ tree[Root].prefix = <<>>
      /\ tree[Root].statics = {} /\ tree[Root].param = NoNode /\ tree[Root].any = NoNode
  BY DEF Init, NewNode, Root
<1>3. w[Root] \in Seq(Characters) /\ StartIn(tree, w, Root) = 0
  BY <1>1, <1>2 DEF Inv, WordInv, WordsOf
<1>4. Len(w[Root]) = 0
  BY <1>2, <1>3 DEF StartIn
<1>5. KindsOf(tree, w)
  BY <1>2, <1>3, <1>4 DEF KindsOf
<1>6. Params(w, Root) = 0
  <2>1. {k \in 1 .. 0 : Special(w[Root], k)} = {}
    OBVIOUS
  <2> QED
    BY <1>4, <2>1, FS_EmptySet DEF Count, Params
<1>7. ScanInv(w) /\ CountInv(w) /\ FindAt(w, pc, find)
  BY <1>2, <1>6 DEF ScanInv, CountInv, FindAt
<1> QED
  BY <1>1, <1>5, <1>7 DEF RoomInv, RoomOf, SegInv

-----------------------------------------------------------------------------
(* The way from the root to a node *)

\* A child has its parent's parameters, and one more if it is not static.
LEMMA KidParams ==
  ASSUME NEW w, SegInv(w), NEW i \in DOMAIN tree, NEW c \in Kids(tree[i])
  PROVE  /\ tree[c].kind = "static" => Params(w, c) = Params(w, i)
         /\ tree[c].kind # "static" => Params(w, c) = Params(w, i) + 1
         /\ Params(w, i) \in Nat /\ Params(w, c) \in Nat
         /\ (\A k \in 1 .. Len(w[c]) : w[c][k] # "*") => \A k \in 1 .. Len(w[i]) : w[i][k] # "*"
         /\ (\A k \in 1 .. Len(w[i]) : w[i][k] # "*") /\ tree[c].kind # "any" =>
              \A k \in 1 .. Len(w[c]) : w[c][k] # "*"
<1>1. TypeInv /\ LinkInv /\ WordInv(w) /\ KindsOf(tree, w)
  BY DEF SegInv, Inv
<1>2. /\ c \in DOMAIN tree /\ tree[c].prefix \in Seq(Characters)
      /\ w[c] \in Seq(Characters) /\ w[i] \in Seq(Characters)
      /\ Start(w, c) = Len(w[i]) /\ Len(w[c]) > Len(w[i]) /\ Agree(w[i], w[c], Len(w[i]))
  BY <1>1, KidFacts
<1>3. PICK l : l = Len(w[i])
  OBVIOUS
<1>4. PICK m : m = Len(w[c])
  OBVIOUS
<1>5. l \in Nat /\ m \in Nat /\ l <= m /\ m - Len(tree[c].prefix) = l /\ Len(tree[c].prefix) \in Nat
  <2>1. l \in Nat /\ m \in Nat /\ Len(tree[c].prefix) \in Nat
    BY <1>2, <1>3, <1>4
  <2>2. m > l
    BY <1>2, <1>3, <1>4
  <2>3. m - Len(tree[c].prefix) = l
    BY <1>2, <1>3, <1>4 DEF Start, StartIn
  <2> QED
    BY <2>1, <2>2, <2>3
<1>6. Count(w[i], l) = Count(w[c], l)
  BY <1>2, <1>3, <1>5, CountAgree
<1>7. /\ tree[c].kind = "static" => \A k \in l + 1 .. m : ~Special(w[c], k)
      /\ tree[c].kind # "static" =>
           /\ m = l + 1 /\ Special(w[c], m) /\ ((tree[c].kind = "any") <=> (w[c][m] = "*"))
  <2>1. StartIn(tree, w, c) = l
    BY <1>2, <1>3 DEF Start
  <2>2. tree[c].kind # "static" => Len(tree[c].prefix) = 1 /\ Special(w[c], m)
                                   /\ ((tree[c].kind = "any") <=> (w[c][m] = "*"))
    BY <1>1, <1>2, <1>4 DEF KindsOf
  <2>3. tree[c].kind = "static" => \A k \in l + 1 .. m : ~Special(w[c], k)
    BY <1>1, <1>2, <1>4, <2>1 DEF KindsOf
  <2>4. ASSUME tree[c].kind # "static" PROVE m = l + 1
    <3>1. PICK x : x = Len(tree[c].prefix)
      OBVIOUS
    <3>2. m - x = l /\ x = 1
      BY <1>5, <2>2, <2>4, <3>1
    <3> QED
      BY <1>5, <3>2
  <2> QED
    BY <2>2, <2>3, <2>4
<1>8. tree[c].kind = "static" => Count(w[c], m) = Count(w[c], l)
  BY <1>5, <1>7, CountNone
<1>9. tree[c].kind # "static" => Count(w[c], m) = Count(w[c], l) + 1
  BY <1>5, <1>7, CountOne
<1>10. Params(w, i) \in Nat /\ Params(w, c) \in Nat
  BY <1>1, <1>2, ParamsNat
<1>11. ASSUME \A k \in 1 .. m : w[c][k] # "*", NEW k \in 1 .. l PROVE w[i][k] # "*"
  <2>1. k \in 1 .. m
    BY <1>5
  <2> QED
    BY <1>2, <1>3, <1>11, <2>1 DEF Agree
<1>12. ASSUME \A k \in 1 .. l : w[i][k] # "*", tree[c].kind # "any", NEW k \in 1 .. m PROVE w[c][k] # "*"
  <2>1. CASE k \in 1 .. l
    BY <1>2, <1>3, <1>12, <2>1 DEF Agree
  <2>2. CASE k \notin 1 .. l
    <3>1. k \in l + 1 .. m
      BY <1>5, <2>2
    <3>2. CASE tree[c].kind = "static"
      BY <1>7, <3>1, <3>2 DEF Special
    <3>3. CASE tree[c].kind # "static"
      <4>1. k = m
        BY <1>5, <1>7, <3>1, <3>3
      <4> QED
        BY <1>7, <1>12, <3>3, <4>1
    <3> QED
      BY <3>2, <3>3
  <2> QED
    BY <2>1, <2>2
<1> QED
  BY <1>3, <1>4, <1>6, <1>8, <1>9, <1>10, <1>11, <1>12 DEF Params

\* The way to a child is the way to its parent and one step.
LEMMA KidWay ==
  ASSUME NEW w, SegInv(w), NEW i \in DOMAIN tree, NEW c \in Kids(tree[i]), NEW j \in DOMAIN tree
  PROVE  OnWay(w, j, c) <=> j = c \/ OnWay(w, j, i)
<1>1. TypeInv /\ LinkInv /\ WordInv(w) /\ TreeTrie(w)
  BY DEF SegInv, Inv
<1>2. /\ c \in DOMAIN tree /\ w[c] \in Seq(Characters) /\ w[i] \in Seq(Characters)
      /\ Start(w, c) = Len(w[i]) /\ Len(w[c]) > Len(w[i]) /\ Agree(w[i], w[c], Len(w[i]))
  BY <1>1, KidFacts
<1>3. w[j] \in Seq(Characters)
  BY <1>1 DEF WordInv, WordsOf
<1>4. Len(w[c]) \in Nat /\ Len(w[i]) \in Nat /\ Len(w[j]) \in Nat
  BY <1>2, <1>3
<1>5. OnWay(w, c, c)
  BY <1>4, AgreeSelf DEF OnWay
<1>6. ASSUME OnWay(w, j, i) PROVE OnWay(w, j, c)
  <2>1. Len(w[j]) <= Len(w[i]) /\ Agree(w[j], w[i], Len(w[j]))
    BY <1>6 DEF OnWay
  <2>2. Agree(w[i], w[c], Len(w[j])) /\ Len(w[j]) <= Len(w[c])
    BY <1>2, <1>4, <2>1, AgreeLess
  <2> QED
    BY <2>1, <2>2, AgreeTrans DEF OnWay
<1>7. ASSUME OnWay(w, j, c) PROVE j = c \/ OnWay(w, j, i)
  <2>1. Len(w[j]) <= Len(w[c]) /\ Agree(w[j], w[c], Len(w[j]))
    BY <1>7 DEF OnWay
  <2>2. CASE Len(w[j]) <= Len(w[i])
    <3>1. Agree(w[i], w[c], Len(w[j]))
      BY <1>2, <1>4, <2>2, AgreeLess
    <3>2. Agree(w[j], w[i], Len(w[j]))
      BY <2>1, <3>1, AgreeSym, AgreeTrans
    <3> QED
      BY <2>2, <3>2 DEF OnWay
  <2>3. CASE ~(Len(w[j]) <= Len(w[i]))
    <3>1. PICK l : l = Len(w[i])
      OBVIOUS
    <3>2. l + 1 \in Int /\ l + 1 <= Len(w[j]) /\ Len(w[j]) > l /\ Len(w[j]) \in Int
      BY <1>4, <2>3, <3>1
    <3>3. Agree(w[c], w[j], l + 1)
      BY <2>1, <3>2, AgreeLess, AgreeSym
    <3>4. Through(DOMAIN tree, w, [k \in DOMAIN tree |-> StartIn(tree, w, k)])
          /\ Distinct(DOMAIN tree, w)
      BY <1>1 DEF TreeTrie, TrieOf, Trie
    <3>5. StartIn(tree, w, c) = l
      BY <1>2, <3>1 DEF Start
    <3>6. Len(w[c]) <= Len(w[j])
      BY <1>2, <3>2, <3>3, <3>4, <3>5 DEF Through
    <3>7. Len(w[c]) = Len(w[j])
      BY <1>4, <2>1, <3>6
    <3> QED
      BY <1>2, <2>1, <3>4, <3>7 DEF Distinct
  <2> QED
    BY <2>2, <2>3
<1> QED
  BY <1>5, <1>6, <1>7

\* The way to the root is the root, a static node.
LEMMA RootWay ==
  ASSUME NEW w, SegInv(w)
  PROVE  /\ Root \in DOMAIN tree /\ tree[Root].kind = "static" /\ tree[Root].parent = NoNode
         /\ Params(w, Root) = 0 /\ \A k \in 1 .. Len(w[Root]) : w[Root][k] # "*"
         /\ \A j \in DOMAIN tree : OnWay(w, j, Root) => j = Root
<1>1. TypeInv /\ LinkInv /\ WordInv(w) /\ TreeTrie(w) /\ KindsOf(tree, w)
  BY DEF SegInv, Inv
<1>2. Root \in DOMAIN tree /\ tree[Root].parent = NoNode
  BY <1>1 DEF TypeInv, LinkInv, Root
<1>3. /\ w[Root] \in Seq(Characters) /\ tree[Root].prefix \in Seq(Characters)
      /\ StartIn(tree, w, Root) = 0 /\ (w[Root] # <<>> => w[Root][1] = "/")
  <2>1. tree[Root] \in Nodes
    BY <1>1, <1>2, LinkFacts
  <2> QED
    BY <1>1, <1>2, <2>1, NodeFacts DEF WordInv, WordsOf
<1>4. Len(w[Root]) \in Nat /\ Len(tree[Root].prefix) \in Nat /\ Len(w[Root]) = Len(tree[Root].prefix)
  <2>1. Len(w[Root]) \in Nat /\ Len(tree[Root].prefix) \in Nat
    BY <1>3
  <2> QED
    BY <1>3, <2>1 DEF StartIn
<1>5. tree[Root].kind = "static"
  <2> SUFFICES ASSUME tree[Root].kind # "static" PROVE FALSE
    OBVIOUS
  <2>1. Len(w[Root]) = 1 /\ Special(w[Root], Len(w[Root]))
    BY <1>1, <1>2, <1>4 DEF KindsOf
  <2>2. w[Root][1] = "/"
    BY <1>3, <2>1
  <2>3. Special(w[Root], 1)
    BY <2>1
  <2> QED
    BY <2>2, <2>3 DEF Special
<1>6. \A k \in 0 + 1 .. Len(w[Root]) : ~Special(w[Root], k)
  BY <1>1, <1>2, <1>3, <1>5 DEF KindsOf
<1>7. Params(w, Root) = 0
  <2>1. {k \in 1 .. 0 : Special(w[Root], k)} = {}
    OBVIOUS
  <2>2. Count(w[Root], 0) = 0
    BY <2>1, FS_EmptySet DEF Count
  <2>3. Count(w[Root], Len(w[Root])) = Count(w[Root], 0)
    BY <1>4, <1>6, CountNone
  <2> QED
    BY <2>2, <2>3 DEF Params
<1>8. ASSUME NEW j \in DOMAIN tree, OnWay(w, j, Root), j # Root PROVE FALSE
  <2>1. tree[j].parent \in DOMAIN tree /\ j \in Kids(tree[tree[j].parent])
    BY <1>1, <1>8 DEF LinkInv
  <2>2. PICK i \in DOMAIN tree : j \in Kids(tree[i])
    BY <2>1
  <2>3. Len(w[j]) > Len(w[i]) /\ w[i] \in Seq(Characters) /\ w[j] \in Seq(Characters)
    BY <1>1, <2>2, KidFacts
  <2>4. Len(w[j]) \in Nat /\ Len(w[j]) > 0
    <3>1. Len(w[j]) \in Nat /\ Len(w[i]) \in Nat
      BY <2>3
    <3> QED
      BY <2>3, <3>1
  <2>5. Len(w[j]) <= Len(w[Root]) /\ Agree(w[j], w[Root], Len(w[j]))
    BY <1>8 DEF OnWay
  <2>6. Agree(w[Root], w[j], 0 + 1)
    <3>1. 0 + 1 \in Int /\ 0 + 1 <= Len(w[j]) /\ Len(w[j]) \in Int
      BY <2>4
    <3> QED
      BY <2>5, <3>1, AgreeLess, AgreeSym
  <2>7. Through(DOMAIN tree, w, [k \in DOMAIN tree |-> StartIn(tree, w, k)])
        /\ Distinct(DOMAIN tree, w)
    BY <1>1 DEF TreeTrie, TrieOf, Trie
  <2>8. Len(w[Root]) <= Len(w[j])
    BY <1>2, <1>3, <2>4, <2>6, <2>7 DEF Through
  <2>9. Len(w[j]) = Len(w[Root])
    BY <1>4, <2>4, <2>5, <2>8
  <2> QED
    BY <1>2, <1>8, <2>5, <2>7, <2>9 DEF Distinct
<1> QED
  BY <1>2, <1>5, <1>6, <1>7, <1>8 DEF Special

\* What the nodes on the way have taken depends on the values of their
\* parameters only.
LEMMA SameTaken ==
  ASSUME NEW w, SegInv(w), NEW i \in DOMAIN tree, NEW j \in DOMAIN tree, OnWay(w, j, i),
         NEW a, NEW b, Agree(a, b, Params(w, i))
  PROVE  TakenBy(w, j, a) = TakenBy(w, j, b)
<1>1. WordInv(w) /\ KindsOf(tree, w)
  BY DEF SegInv, Inv
<1>2. /\ Params(w, i) \in Nat /\ Params(w, j) \in Nat /\ w[j] \in Seq(Characters)
      /\ Len(w[i]) \in Nat /\ Len(w[j]) \in Nat
  BY <1>1, ParamsNat
<1>3. Len(w[j]) <= Len(w[i]) /\ Agree(w[j], w[i], Len(w[j]))
  BY DEF OnWay
<1>4. Params(w, j) <= Params(w, i)
  <2>1. Count(w[j], Len(w[j])) = Count(w[i], Len(w[j]))
    BY <1>2, <1>3, CountAgree
  <2>2. Count(w[i], Len(w[j])) <= Count(w[i], Len(w[i]))
    BY <1>2, <1>3, CountMono
  <2> QED
    BY <2>1, <2>2 DEF Params
<1>5. ASSUME tree[j].kind # "static" PROVE Params(w, j) >= 1
  <2>1. Special(w[j], Len(w[j])) /\ Len(tree[j].prefix) = 1
    BY <1>1, <1>5 DEF KindsOf
  <2>2. Len(w[j]) - Len(tree[j].prefix) >= 0
    BY <1>1 DEF WordInv, WordsOf, StartIn
  <2>3. PICK m : m = Len(w[j]) - 1
    OBVIOUS
  <2>4. m \in Nat /\ m + 1 = Len(w[j])
    BY <1>2, <2>1, <2>2, <2>3
  <2>5. Count(w[j], m + 1) = Count(w[j], m) + 1 /\ Count(w[j], m) \in Nat
    BY <2>1, <2>4, CountOne, CountNat
  <2> QED
    BY <2>4, <2>5 DEF Params
<1>6. tree[j].kind # "static" => Params(w, j) \in 1 .. Params(w, i)
  BY <1>2, <1>4, <1>5
<1> QED
  BY <1>6 DEF TakenBy, Agree

\* Find goes on to a child, which takes what is there for it.
LEMMA TakeStep ==
  ASSUME NEW w, SegInv(w), NEW i \in DOMAIN tree, NEW c \in Kids(tree[i]),
         NEW a, NEW b, NEW off, Taking(w, i, a, off),
         Agree(a, b, Params(w, i)), TakenBy(w, c, b) \in Nat
  PROVE  \E new : /\ Taking(w, c, b, new) /\ Above(new, c) = off[i]
                  /\ new[c] = off[i] + TakenBy(w, c, b)
<1>1. TypeInv /\ LinkInv /\ WordInv(w)
  BY DEF SegInv, Inv
<1>2. /\ c \in DOMAIN tree /\ c # i /\ tree[c].parent = i /\ Len(w[c]) > Len(w[i])
  BY <1>1, KidFacts
<1>3. i # NoNode
  BY <1>1 DEF TypeInv, NoNode
<1>4. off \in [DOMAIN tree -> Nat]
      /\ \A j \in DOMAIN tree : OnWay(w, j, i) => off[j] = Above(off, j) + TakenBy(w, j, a)
  BY DEF Taking
<1> DEFINE new == [off EXCEPT ![c] = off[i] + TakenBy(w, c, b)]
<1>5. new \in [DOMAIN tree -> Nat] /\ new[c] = off[i] + TakenBy(w, c, b)
      /\ \A j \in DOMAIN tree : j # c => new[j] = off[j]
  BY <1>2, <1>4
<1> HIDE DEF new
<1>6. Above(new, c) = off[i]
  BY <1>2, <1>3, <1>5 DEF Above
<1>7. ASSUME NEW j \in DOMAIN tree, OnWay(w, j, i) PROVE new[j] = Above(new, j) + TakenBy(w, j, b)
  <2>1. Len(w[j]) <= Len(w[i])
    BY <1>7 DEF OnWay
  <2>2. Len(w[j]) \in Nat /\ Len(w[i]) \in Nat /\ Len(w[c]) \in Nat
    BY <1>1, <1>2, ParamsNat
  <2>3. j # c
    BY <1>2, <2>1, <2>2
  <2>4. tree[j].parent # c
    <3> SUFFICES ASSUME tree[j].parent = c PROVE FALSE
      OBVIOUS
    <3>1. c # NoNode
      BY <1>1, <1>2 DEF TypeInv, NoNode
    <3>2. j # Root
      BY <1>1, <3>1 DEF LinkInv
    <3>3. j \in Kids(tree[c])
      BY <1>1, <3>2 DEF LinkInv
    <3>4. Len(w[j]) > Len(w[c])
      BY <1>1, <1>2, <3>3, KidFacts
    <3> QED
      BY <1>2, <2>1, <2>2, <3>4
  <2>5. tree[j].parent # NoNode => tree[j].parent \in DOMAIN tree
    BY <1>1, LinkFacts
  <2>6. Above(new, j) = Above(off, j)
    BY <1>5, <2>4, <2>5 DEF Above
  <2>7. TakenBy(w, j, a) = TakenBy(w, j, b)
    BY <1>7, SameTaken
  <2> QED
    BY <1>4, <1>5, <1>7, <2>3, <2>6, <2>7
<1>8. Taking(w, c, b, new)
  <2>1. ASSUME NEW j \in DOMAIN tree, OnWay(w, j, c) PROVE new[j] = Above(new, j) + TakenBy(w, j, b)
    <3>1. j = c \/ OnWay(w, j, i)
      BY <2>1, KidWay
    <3> QED
      BY <1>5, <1>6, <1>7, <3>1
  <2> QED
    BY <1>5, <2>1 DEF Taking
<1> QED
  BY <1>5, <1>6, <1>8

\* Find goes back to the parent, and gives up what the child took.
LEMMA GiveStep ==
  ASSUME NEW w, SegInv(w), NEW i \in DOMAIN tree, NEW c \in Kids(tree[i]),
         NEW a, NEW b, NEW off, Taking(w, c, a, off), Agree(a, b, Params(w, i))
  PROVE  /\ Taking(w, i, b, off) /\ Above(off, c) = off[i] /\ off[i] \in Nat
         /\ off[c] = off[i] + TakenBy(w, c, a)
<1>1. TypeInv /\ LinkInv /\ WordInv(w)
  BY DEF SegInv, Inv
<1>2. c \in DOMAIN tree /\ tree[c].parent = i
  BY <1>1, KidFacts
<1>3. i # NoNode
  BY <1>1 DEF TypeInv, NoNode
<1>4. off \in [DOMAIN tree -> Nat]
      /\ \A j \in DOMAIN tree : OnWay(w, j, c) => off[j] = Above(off, j) + TakenBy(w, j, a)
  BY DEF Taking
<1>5. Above(off, c) = off[i]
  BY <1>2, <1>3 DEF Above
<1>6. OnWay(w, c, c)
  BY <1>2, KidWay
<1>7. ASSUME NEW j \in DOMAIN tree, OnWay(w, j, i) PROVE off[j] = Above(off, j) + TakenBy(w, j, b)
  <2>1. OnWay(w, j, c)
    BY <1>7, KidWay
  <2>2. TakenBy(w, j, a) = TakenBy(w, j, b)
    BY <1>7, SameTaken
  <2> QED
    BY <1>4, <2>1, <2>2
<1> QED
  BY <1>2, <1>4, <1>5, <1>6, <1>7 DEF Taking

-----------------------------------------------------------------------------
(* The steps of Find *)

\* A step of Find leaves the rest as it is.
LEMMA GoesRoom ==
  ASSUME NEW w, SegInv(w), pc \notin {"scan", "insert"},
         \E l \in FindLabels : \E f : FindOK(l, f) /\ Goes(l, f), FindAt(w, pc', find')
  PROVE  RoomOf(w)'
<1>1. PICK l \in FindLabels : \E f : FindOK(l, f) /\ Goes(l, f)
  OBVIOUS
<1>2. Inv(w)' /\ FindOK(pc, find)'
  BY <1>1, FindStep DEF SegInv
<1>3. UNCHANGED <<tree, maxParam>> /\ pc' \in FindLabels
  BY <1>1 DEF Goes
<1>4. KindsOf(tree, w)' /\ ScanInv(w)' /\ CountInv(w)'
  BY <1>3 DEF SegInv, KindsOf, ScanInv, CountInv, FindLabels
<1>5. FindAt(w, pc, find)'
  BY <1>3 DEF FindAt, Walking, Taking, TakenBy, Above
<1> QED
  BY <1>2, <1>4, <1>5 DEF RoomOf, SegInv

\* Find's position depends on these variables only.
LEMMA SameWalk ==
  ASSUME NEW w, NEW f, NEW l \in {"param", "any"}, Walking(w, l, f),
         NEW k \in {"param", "any"}, NEW g, g.node = f.node, g.pvalues = f.pvalues,
         g.paramIndex = f.paramIndex, g.searchIndex = f.searchIndex
  PROVE  Walking(w, k, g) /\ FindAt(w, k, g)
<1>1. Walking(w, k, g)
  BY DEF Walking
<1> QED
  BY <1>1 DEF FindAt

\* There is room for the values of a node.
LEMMA EnoughRoom ==
  ASSUME NEW w, SegInv(w), pc \notin {"scan", "insert"}, NEW i \in DOMAIN tree
  PROVE  Params(w, i) \in Nat /\ Params(w, i) <= maxParam
BY ParamsNat DEF SegInv, Inv, CountInv

\* Find begins at the root with nothing taken.
LEMMA FindRoom ==
  ASSUME NEW w, SegInv(w), pc = "idle", NEW m, NEW t, Find(m, t)
  PROVE  FindAt(w, pc', find')
<1>1. TypeInv
  BY DEF SegInv, Inv
<1>2. /\ Root \in DOMAIN tree /\ tree[Root].kind = "static" /\ tree[Root].parent = NoNode
      /\ Params(w, Root) = 0 /\ \A k \in 1 .. Len(w[Root]) : w[Root][k] # "*"
      /\ \A j \in DOMAIN tree : OnWay(w, j, Root) => j = Root
  BY RootWay
<1>3. PICK f : f = NewFind(m, t)
  OBVIOUS
<1>4. pc' = "loop" /\ find' = f
  BY <1>3 DEF Find
<1>5. f.node = Root /\ f.pvalues = [i \in 1 .. maxParam |-> <<>>] /\ f.paramIndex = 0 /\ f.searchIndex = 0
  BY <1>3 DEF NewFind
<1>6. Len(f.pvalues) = maxParam
  BY <1>1, <1>5 DEF TypeInv
<1>7. PICK x : x = Len(tree[Root].prefix)
  OBVIOUS
<1>8. x \in Nat
  <2>1. tree[Root] \in Nodes
    BY <1>1, <1>2 DEF TypeInv
  <2> QED
    BY <1>7, <2>1, NodeFacts
<1> DEFINE off == [j \in DOMAIN tree |-> x]
<1>9. off \in [DOMAIN tree -> Nat] /\ off[Root] = x
  BY <1>2, <1>8
<1> HIDE DEF off
<1>10. Above(off, Root) = 0 /\ TakenBy(w, Root, f.pvalues) = x
  BY <1>2, <1>7 DEF Above, TakenBy
<1>11. Taking(w, Root, f.pvalues, off)
  BY <1>2, <1>8, <1>9, <1>10 DEF Taking
<1>12. Walking(w, "loop", f)
  BY <1>2, <1>5, <1>6, <1>10, <1>11 DEF Walking
<1> QED
  BY <1>4, <1>12 DEF FindAt

\* After a node that matches, Find has taken what the node takes.
LEMMA AdvancedWalks ==
  ASSUME NEW w, SegInv(w), FindOK(pc, find), FindAt(w, pc, find), pc = "loop",
         IsPrefix(Matched, find.search)
  PROVE  Walking(w, "param", Advanced) /\ Advanced \in Finds /\ Advanced.node = find.node
<1>1. TypeInv /\ LinkInv /\ WordInv(w)
  BY DEF SegInv, Inv
<1>2. Walking(w, "loop", find)
  BY DEF FindAt
<1>3. PICK off : /\ Taking(w, find.node, find.pvalues, off)
                 /\ find.searchIndex = IF tree[find.node].kind = "static"
                                       THEN Above(off, find.node) ELSE off[find.node]
  BY <1>2 DEF Walking
<1>4. /\ find.node \in DOMAIN tree /\ Here = tree[find.node] /\ Advanced \in Finds
      /\ Advanced.node = find.node
  BY <1>1, MatchFacts
<1>5. /\ Advanced.pvalues = find.pvalues /\ Advanced.paramIndex = find.paramIndex
      /\ Advanced.searchIndex = find.searchIndex + Len(Matched)
  BY DEF Advanced, FindOK, Finds
<1>6. off[find.node] \in Nat
      /\ off[find.node] = Above(off, find.node) + TakenBy(w, find.node, find.pvalues)
  <2>1. Len(w[find.node]) \in Nat
    BY <1>1, <1>4, ParamsNat
  <2>2. OnWay(w, find.node, find.node)
    BY <2>1, AgreeSelf DEF OnWay
  <2> QED
    BY <1>3, <1>4, <2>2 DEF Taking
<1>7. Advanced.searchIndex = off[find.node]
  <2>1. CASE Here.kind = "static"
    <3>1. Len(Matched) = TakenBy(w, find.node, find.pvalues) /\ find.searchIndex = Above(off, find.node)
      BY <1>3, <1>4, <2>1 DEF Matched, TakenBy
    <3> QED
      BY <1>5, <1>6, <3>1
  <2>2. CASE Here.kind # "static"
    <3>1. Len(Matched) = 0 /\ find.searchIndex = off[find.node]
      BY <1>3, <1>4, <2>2 DEF Matched
    <3> QED
      BY <1>5, <1>6, <3>1
  <2> QED
    BY <2>1, <2>2
<1>8. /\ Advanced.node \in DOMAIN tree /\ Len(Advanced.pvalues) = maxParam
      /\ \A k \in 1 .. Len(w[Advanced.node]) : w[Advanced.node][k] # "*"
      /\ Advanced.paramIndex = Params(w, Advanced.node)
  BY <1>2, <1>4, <1>5 DEF Walking
<1>9. Walking(w, "param", Advanced)
  BY <1>3, <1>4, <1>5, <1>7, <1>8 DEF Walking
<1> QED
  BY <1>4, <1>9

\* Find goes on below a node, or it is somewhere else.
LEMMA LoopRoom ==
  ASSUME NEW w, SegInv(w), FindOK(pc, find), FindAt(w, pc, find),
         LoopBacktracks \/ LoopMatches \/ LoopPasses \/ LoopDescends
  PROVE  FindAt(w, pc', find')
<1>1. pc = "loop"
  BY DEF LoopBacktracks, LoopMatches, LoopPasses, LoopDescends, AtEnd
<1>2. TypeInv /\ LinkInv /\ WordInv(w) /\ KindsOf(tree, w) /\ find \in Finds
  BY DEF SegInv, Inv, TypeInv
<1>3. Walking(w, "loop", find)
  BY <1>1 DEF FindAt
<1>4. find.node \in DOMAIN tree /\ Here = tree[find.node]
  BY <1>1, <1>2, MatchFacts
<1>5. CASE LoopBacktracks
  <2>1. PICK i : i = Here.parent
    OBVIOUS
  <2>2. /\ pc' = IF i = NoNode THEN "done" ELSE "param"
        /\ find' = [find EXCEPT !.node = i]
    BY <1>5, <2>1 DEF LoopBacktracks, Goes
  <2>3. CASE i = NoNode
    BY <2>2, <2>3 DEF FindAt
  <2>4. CASE i # NoNode
    <3>1. Here.kind = "static"
      <4> SUFFICES ASSUME Here.kind # "static" PROVE IsPrefix(Matched, find.search)
        BY <1>5 DEF LoopBacktracks
      <4>1. Matched = <<>> /\ Len(find.search) \in Nat
        BY <1>2, FindFacts DEF Matched
      <4>2. PICK s \in Seq(Characters) : s = find.search
        BY <1>2, FindFacts
      <4>3. Len(<<>>) <= Len(s) /\ SubSeq(<<>>, 1, Len(<<>>)) = SubSeq(s, 1, Len(<<>>))
        OBVIOUS
      <4> QED
        BY <4>1, <4>2, <4>3 DEF IsPrefix
    <3>2. i \in DOMAIN tree /\ find.node \in Kids(tree[i])
      BY <1>2, <1>4, <2>1, <2>4 DEF LinkInv
    <3>3. PICK off : /\ Taking(w, find.node, find.pvalues, off)
                     /\ find.searchIndex = Above(off, find.node)
      BY <1>3, <1>4, <3>1 DEF Walking
    <3>4. Taking(w, i, find.pvalues, off) /\ Above(off, find.node) = off[i]
      BY <3>2, <3>3, AgreeSelf, GiveStep
    <3>5. /\ Params(w, find.node) = Params(w, i)
          /\ \A k \in 1 .. Len(w[i]) : w[i][k] # "*"
      BY <1>3, <1>4, <3>1, <3>2, KidParams DEF Walking
    <3>6. /\ find'.node = i /\ find'.pvalues = find.pvalues /\ find'.paramIndex = find.paramIndex
          /\ find'.searchIndex = find.searchIndex
      BY <1>2, <2>2 DEF Finds
    <3>7. find.paramIndex = Params(w, i) /\ Len(find.pvalues) = maxParam /\ find.searchIndex = off[i]
      BY <1>3, <3>3, <3>4, <3>5 DEF Walking
    <3>8. Walking(w, "param", find')
      BY <3>2, <3>4, <3>5, <3>6, <3>7 DEF Walking
    <3> QED
      BY <2>2, <2>4, <3>8 DEF FindAt
  <2> QED
    BY <2>3, <2>4
<1>6. CASE LoopMatches
  <2>1. PICK rm : /\ pc' = "out" /\ find'.matched = rm /\ rm # NoRoute
    <3>1. Advanced \in Finds
      BY <1>1, <1>2, <1>6, MatchFacts DEF LoopMatches, AtEnd
    <3>2. CASE /\ Here.isHandler /\ Here.methods[find.method] # NoRoute
               /\ Goes("out", [Advanced EXCEPT !.best = FirstBest(find),
                                               !.matched = Here.methods[find.method]])
      BY <3>1, <3>2 DEF Goes, Finds
    <3>3. CASE /\ ~Here.isHandler /\ Here.notFound # NoRoute
               /\ Goes("out", [Advanced EXCEPT !.matched = Here.notFound])
      BY <3>1, <3>3 DEF Goes, Finds
    <3> QED
      BY <1>6, <3>2, <3>3 DEF LoopMatches
  <2> QED
    BY <2>1 DEF FindAt
<1>7. CASE LoopPasses
  <2>1. Walking(w, "param", Advanced) /\ Advanced \in Finds
    BY <1>1, <1>7, AdvancedWalks DEF LoopPasses, AtEnd
  <2>2. PICK b : Goes("param", [Advanced EXCEPT !.best = b])
    BY <1>7 DEF LoopPasses
  <2>3. /\ find'.node = Advanced.node /\ find'.pvalues = Advanced.pvalues
        /\ find'.paramIndex = Advanced.paramIndex /\ find'.searchIndex = Advanced.searchIndex
        /\ pc' = "param"
    BY <2>1, <2>2 DEF Goes, Finds
  <2> QED
    BY <2>1, <2>3, SameWalk
<1>8. CASE LoopDescends
  <2>1. Walking(w, "param", Advanced) /\ Advanced \in Finds /\ Advanced.node = find.node
    BY <1>1, <1>8, AdvancedWalks DEF LoopDescends
  <2>2. PICK c : c = StaticChild(Here, Rest[1])
    OBVIOUS
  <2>3. CASE c = NoNode
    <3>1. pc' = "param" /\ find' = Advanced
      BY <1>8, <2>2, <2>3 DEF LoopDescends, Goes
    <3> QED
      BY <2>1, <3>1 DEF FindAt
  <2>4. CASE c # NoNode
    <3>1. pc' = "loop" /\ find' = [Advanced EXCEPT !.node = c]
      BY <1>8, <2>2, <2>4 DEF LoopDescends, Goes
    <3>2. c \in Here.statics
      BY <2>2, <2>4 DEF StaticChild
    <3>3. PICK i \in DOMAIN tree : i = find.node
      BY <1>4
    <3>4. c \in Kids(tree[i]) /\ tree[c].kind = "static"
      BY <1>2, <1>4, <3>2, <3>3 DEF Kids, KindsOf
    <3>5. /\ find'.node = c /\ find'.pvalues = Advanced.pvalues
          /\ find'.paramIndex = Advanced.paramIndex /\ find'.searchIndex = Advanced.searchIndex
      BY <2>1, <3>1 DEF Finds
    <3>6. PICK v : v = Advanced.pvalues
      OBVIOUS
    <3>7. PICK off : Taking(w, i, v, off) /\ Advanced.searchIndex = off[i]
      BY <2>1, <3>3, <3>6 DEF Walking
    <3>8. c \in DOMAIN tree /\ Params(w, c) = Params(w, i)
          /\ \A k \in 1 .. Len(w[c]) : w[c][k] # "*"
      <4>1. \A k \in 1 .. Len(w[i]) : w[i][k] # "*"
        BY <2>1, <3>3 DEF Walking
      <4> QED
        BY <1>2, <3>4, <4>1, KidFacts, KidParams
    <3>9. TakenBy(w, c, v) \in Nat
      <4>1. tree[c] \in Nodes
        BY <1>2, <3>8, LinkFacts
      <4> QED
        BY <3>4, <4>1, NodeFacts DEF TakenBy
    <3>10. PICK new : Taking(w, c, v, new) /\ Above(new, c) = off[i]
      BY <3>4, <3>7, <3>9, AgreeSelf, TakeStep
    <3>11. Len(find'.pvalues) = maxParam /\ find'.paramIndex = Params(w, c)
      BY <2>1, <3>3, <3>5, <3>8 DEF Walking
    <3>12. Walking(w, "loop", find')
      BY <3>4, <3>5, <3>6, <3>7, <3>8, <3>10, <3>11 DEF Walking
    <3> QED
      BY <3>1, <3>12 DEF FindAt
  <2> QED
    BY <2>3, <2>4
<1> QED
  BY <1>5, <1>6, <1>7, <1>8

\* A parameter takes its part, and there is room for it.
LEMMA ParamRoom ==
  ASSUME NEW w, SegInv(w), FindOK(pc, find), FindAt(w, pc, find), ParamTakes \/ ParamPasses
  PROVE  FindAt(w, pc', find')
<1>1. pc = "param"
  BY DEF ParamTakes, ParamPasses
<1>2. TypeInv /\ LinkInv /\ WordInv(w) /\ KindsOf(tree, w) /\ find \in Finds /\ maxParam \in Nat
  BY DEF SegInv, Inv, TypeInv
<1>3. Walking(w, "param", find)
  BY <1>1 DEF FindAt
<1>4. CASE ParamPasses
  <2>1. pc' = "any" /\ find' = find
    BY <1>4 DEF ParamPasses, Goes
  <2> QED
    BY <1>3, <2>1, SameWalk
<1>5. CASE ParamTakes
  <2>1. PICK i : i = find.node
    OBVIOUS
  <2>2. PICK c : c = Here.param
    OBVIOUS
  <2>3. PICK x : x = IF tree[c].isLeaf THEN Len(find.search) ELSE Next1(find.search, 1, {"/"}) - 1
    OBVIOUS
  <2>4. PICK p : p = find.paramIndex + 1
    OBVIOUS
  <2>5. i \in DOMAIN tree /\ c \in Kids(tree[i]) /\ c # NoNode /\ tree[c].kind = "param"
    BY <1>2, <1>3, <1>5, <2>1, <2>2 DEF Walking, ParamTakes, Here, Kids, KindsOf
  <2>6. /\ find.search \in Seq(Characters) /\ find.searchIndex \in Nat /\ Len(find.search) \in Nat
        /\ find.pvalues \in Seq(Seq(Characters)) /\ find.paramIndex \in Nat
    BY <1>2, FindFacts
  <2>7. x \in 0 .. Len(find.search)
    <3>1. 1 \in Nat \ {0}
      OBVIOUS
    <3>2. Next1(find.search, 1, {"/"}) \in 1 .. Len(find.search) + 1
      BY <2>6, <3>1, Next1Facts
    <3> QED
      BY <2>3, <2>6, <3>2
  <2>8. /\ c \in DOMAIN tree /\ Params(w, c) = Params(w, i) + 1 /\ Params(w, i) \in Nat
        /\ \A k \in 1 .. Len(w[c]) : w[c][k] # "*"
    <3>1. \A k \in 1 .. Len(w[i]) : w[i][k] # "*"
      BY <1>3, <2>1 DEF Walking
    <3> QED
      BY <1>2, <2>5, <3>1, KidFacts, KidParams
  <2>9. p = Params(w, c) /\ p <= maxParam /\ Len(find.pvalues) = maxParam /\ p \in Nat /\ p >= 1
        /\ find.paramIndex = Params(w, i)
    BY <1>1, <1>3, <2>1, <2>4, <2>8, EnoughRoom DEF Walking
  <2>10. ~(p > Len(find.pvalues)) /\ p \in DOMAIN find.pvalues
    BY <1>2, <2>6, <2>9
  <2> DEFINE v == [find.pvalues EXCEPT ![p] = Take(find.search, x)]
  <2>11. /\ pc' = "loop" /\ find' = [find EXCEPT !.node = c, !.pvalues[p] = Take(find.search, x),
                                 !.paramIndex = p, !.searchIndex = @ + x,
                                 !.search = Drop(find.search, x)]
    BY <1>5, <2>2, <2>3, <2>4, <2>10 DEF ParamTakes, Goes
  <2>12. /\ find'.node = c /\ find'.pvalues = v /\ find'.paramIndex = p
         /\ find'.searchIndex = find.searchIndex + x
    BY <1>2, <2>11 DEF Finds
  <2>13. Len(Take(find.search, x)) = x /\ Take(find.search, x) \in Seq(Characters)
    BY <2>6, <2>7, TakeFacts
  <2>14. /\ Len(v) = maxParam /\ v[p] = Take(find.search, x)
         /\ \A k \in DOMAIN find.pvalues : k # p => v[k] = find.pvalues[k]
    BY <2>6, <2>9, <2>10, <2>13
  <2> HIDE DEF v
  <2>15. Agree(find.pvalues, v, Params(w, i))
    <3>1. \A k \in 1 .. Params(w, i) : k \in DOMAIN find.pvalues /\ k # p
      BY <1>2, <2>6, <2>8, <2>9
    <3> QED
      BY <2>14, <3>1 DEF Agree
  <2>16. TakenBy(w, c, v) = x /\ x \in Nat
    BY <2>5, <2>7, <2>9, <2>13, <2>14 DEF TakenBy
  <2>17. PICK off : Taking(w, i, find.pvalues, off) /\ find.searchIndex = off[i]
    BY <1>3, <2>1 DEF Walking
  <2>18. PICK new : Taking(w, c, v, new) /\ new[c] = off[i] + TakenBy(w, c, v)
    BY <2>5, <2>15, <2>16, <2>17, TakeStep
  <2>19. find'.searchIndex = new[c]
    BY <2>12, <2>16, <2>17, <2>18
  <2>20. Walking(w, "loop", find')
    BY <2>5, <2>8, <2>9, <2>12, <2>14, <2>18, <2>19 DEF Walking
  <2> QED
    BY <2>11, <2>20 DEF FindAt
<1> QED
  BY <1>4, <1>5

\* Find gives up a static node or a parameter.
LEMMA BackRoom ==
  ASSUME NEW w, SegInv(w), FindOK(pc, find), FindAt(w, pc, find), AnyBacktracks
  PROVE  FindAt(w, pc', find')
<1>1. pc = "any" /\ Backtrack(find)
  BY DEF AnyBacktracks
<1>2. TypeInv /\ LinkInv /\ WordInv(w) /\ KindsOf(tree, w) /\ find \in Finds /\ maxParam \in Nat
  BY DEF SegInv, Inv, TypeInv
<1>3. Walking(w, "any", find)
  BY <1>1 DEF FindAt
<1>4. PICK c : c = find.node
  OBVIOUS
<1>5. PICK n : n = tree[c]
  OBVIOUS
<1>6. c \in DOMAIN tree /\ n \in Nodes /\ n.kind \in Kinds /\ Len(n.prefix) \in Nat
  <2>1. c \in DOMAIN tree
    BY <1>3, <1>4 DEF Walking
  <2> QED
    BY <1>2, <1>5, <2>1, LinkFacts, NodeFacts
<1>7. PICK off : Taking(w, c, find.pvalues, off) /\ find.searchIndex = off[c]
  BY <1>3, <1>4 DEF Walking
<1>8. /\ find.searchIndex \in Nat /\ find.paramIndex \in Nat /\ find.pvalues \in Seq(Seq(Characters))
  BY <1>2, FindFacts
<1>9. /\ find.paramIndex = Params(w, c) /\ Len(find.pvalues) = maxParam
      /\ \A k \in 1 .. Len(w[c]) : w[c][k] # "*"
  BY <1>3, <1>4 DEF Walking
<1>10. Params(w, c) \in Nat /\ Params(w, c) <= maxParam
  BY <1>1, <1>6, EnoughRoom
<1>11. PICK x : x = Taken(find, n)
  OBVIOUS
<1>12. x = TakenBy(w, c, find.pvalues)
  BY <1>5, <1>9, <1>11 DEF Taken, TakenBy
<1>13. CASE c = Root
  <2>1. n.kind = "static" /\ n.parent = NoNode
    BY <1>5, <1>13, RootWay
  <2>2. off[c] = Above(off, c) + TakenBy(w, c, find.pvalues) /\ Above(off, c) = 0
    <3>1. Len(w[c]) \in Nat
      BY <1>2, <1>6, ParamsNat
    <3>2. OnWay(w, c, c)
      BY <3>1, AgreeSelf DEF OnWay
    <3> QED
      BY <1>5, <1>6, <1>7, <2>1, <3>2 DEF Taking, Above
  <2>3. x = Len(n.prefix)
    BY <1>11, <2>1 DEF Taken
  <2>4. ~(find.searchIndex < x)
    BY <1>6, <1>7, <1>12, <2>2, <2>3
  <2>5. Goes("out", Restored(find, n))
    BY <1>1, <1>4, <1>5, <1>11, <2>1, <2>4 DEF Backtrack
  <2>6. Restored(find, n).node = NoNode
    BY <1>2, <2>1 DEF Restored, Finds
  <2> QED
    BY <2>5, <2>6 DEF Goes, FindAt
<1>14. CASE c # Root
  <2>1. PICK i : i = n.parent
    OBVIOUS
  <2>2. i \in DOMAIN tree /\ c \in Kids(tree[i]) /\ i # NoNode
    <3>1. i \in DOMAIN tree /\ c \in Kids(tree[i])
      BY <1>2, <1>5, <1>6, <1>14, <2>1 DEF LinkInv
    <3>2. DOMAIN tree = 1 .. Len(tree)
      BY <1>2 DEF TypeInv
    <3> QED
      BY <3>1, <3>2 DEF NoNode
  <2>3. /\ n.kind = "static" => Params(w, c) = Params(w, i)
        /\ n.kind # "static" => Params(w, c) = Params(w, i) + 1
        /\ Params(w, i) \in Nat /\ \A k \in 1 .. Len(w[i]) : w[i][k] # "*"
    BY <1>5, <1>9, <2>2, KidParams
  <2>4. n.kind \in {"static", "param"}
    <3> SUFFICES ASSUME n.kind = "any" PROVE FALSE
      BY <1>6 DEF Kinds
    <3>1. w[c][Len(w[c])] = "*"
      BY <1>2, <1>5, <1>6 DEF KindsOf
    <3>2. Len(w[c]) > Len(w[i]) /\ w[i] \in Seq(Characters) /\ w[c] \in Seq(Characters)
      BY <1>2, <2>2, KidFacts
    <3>3. Len(w[c]) \in Nat /\ Len(w[i]) \in Nat
      BY <3>2
    <3>4. Len(w[c]) \in 1 .. Len(w[c])
      BY <3>2, <3>3
    <3> QED
      BY <1>9, <3>1, <3>4
  <2>5. n.kind = "param" => find.paramIndex \in DOMAIN find.pvalues
    BY <1>2, <1>8, <1>9, <1>10, <2>3
  <2>6. x \in Nat
    <3>1. CASE n.kind = "static"
      BY <1>6, <1>11, <3>1 DEF Taken
    <3>2. CASE n.kind = "param"
      <4>1. find.pvalues[find.paramIndex] \in Seq(Characters)
        BY <1>8, <2>5, <3>2
      <4> QED
        BY <1>11, <3>2, <4>1 DEF Taken
    <3> QED
      BY <2>4, <3>1, <3>2
  <2>7. ASSUME NEW v, Agree(find.pvalues, v, Params(w, i))
        PROVE  Taking(w, i, v, off) /\ off[i] \in Nat /\ find.searchIndex = off[i] + x
    BY <1>7, <1>12, <2>2, <2>7, GiveStep
  <2>8. off[i] \in Nat /\ find.searchIndex = off[i] + x
    BY <2>7, AgreeSelf
  <2>9. ~(find.searchIndex < x) /\ find.searchIndex - x = off[i]
    BY <2>6, <2>8
  <2>10. PICK g : g = Restored(find, n)
    OBVIOUS
  <2>11. /\ n.kind = "static" => Goes("param", g)
         /\ n.kind = "param" => Goes("any", g)
    BY <1>1, <1>4, <1>5, <1>11, <2>1, <2>2, <2>5, <2>9, <2>10 DEF Backtrack, NextKind
  <2>12. g.node = i /\ g.searchIndex = off[i]
    BY <1>2, <1>11, <2>1, <2>9, <2>10 DEF Restored, Finds
  <2>13. CASE n.kind = "static"
    <3>1. g.pvalues = find.pvalues /\ g.paramIndex = find.paramIndex
      BY <1>2, <2>10, <2>13 DEF Restored, Finds
    <3>2. Taking(w, i, g.pvalues, off)
      BY <2>7, <3>1, AgreeSelf
    <3>3. Walking(w, "param", g)
      BY <1>9, <2>2, <2>3, <2>12, <2>13, <3>1, <3>2 DEF Walking
    <3> QED
      BY <2>11, <2>13, <3>3 DEF Goes, FindAt
  <2>14. CASE n.kind = "param"
    <3> DEFINE v == [find.pvalues EXCEPT ![find.paramIndex] = <<>>]
    <3>1. g.pvalues = v /\ g.paramIndex = find.paramIndex - 1
      BY <1>2, <2>10, <2>14 DEF Restored, Finds
    <3>2. Len(v) = maxParam /\ \A k \in DOMAIN find.pvalues : k # find.paramIndex => v[k] = find.pvalues[k]
      <4>1. <<>> \in Seq(Characters)
        OBVIOUS
      <4> QED
        BY <1>8, <1>9, <2>5, <2>14, <4>1
    <3> HIDE DEF v
    <3>3. Params(w, c) = Params(w, i) + 1 /\ find.paramIndex - 1 = Params(w, i)
      BY <1>9, <2>3, <2>14
    <3>4. Agree(find.pvalues, v, Params(w, i))
      <4>1. \A k \in 1 .. Params(w, i) : k \in DOMAIN find.pvalues /\ k # find.paramIndex
        BY <1>2, <1>8, <1>9, <1>10, <2>3, <3>3
      <4> QED
        BY <3>2, <4>1 DEF Agree
    <3>5. Taking(w, i, v, off)
      BY <2>7, <3>4
    <3>6. Walking(w, "any", g)
      BY <2>2, <2>3, <2>12, <3>1, <3>2, <3>3, <3>5 DEF Walking
    <3> QED
      BY <2>11, <2>14, <3>6 DEF Goes, FindAt
  <2> QED
    BY <2>4, <2>13, <2>14
<1> QED
  BY <1>13, <1>14

\* A wildcard takes the rest, and Find ends with it or with a best node.
LEMMA AnyRoom ==
  ASSUME NEW w, SegInv(w), FindOK(pc, find), FindAt(w, pc, find), AnyTakes
  PROVE  FindAt(w, pc', find')
<1>1. pc = "any"
  BY DEF AnyTakes
<1>2. TypeInv /\ LinkInv /\ WordInv(w) /\ KindsOf(tree, w) /\ find \in Finds /\ maxParam \in Nat
  BY DEF SegInv, Inv, TypeInv
<1>3. Walking(w, "any", find)
  BY <1>1 DEF FindAt
<1>4. PICK i : i = find.node
  OBVIOUS
<1>5. PICK c : c = Here.any
  OBVIOUS
<1>6. PICK n : n = tree[c]
  OBVIOUS
<1>7. i \in DOMAIN tree /\ c \in Kids(tree[i]) /\ c # NoNode /\ n.kind = "any"
  BY <1>2, <1>3, <1>4, <1>5, <1>6 DEF Walking, AnyTakes, Here, Kids, KindsOf
<1>8. c \in DOMAIN tree /\ Params(w, c) = Params(w, i) + 1 /\ Params(w, i) \in Nat
  BY <1>2, <1>6, <1>7, KidFacts, KidParams
<1>9. n.paramsCount = Params(w, c)
  BY <1>2, <1>6, <1>7, <1>8 DEF KindsOf
<1>10. Params(w, c) <= maxParam /\ Len(find.pvalues) = maxParam /\ find.paramIndex = Params(w, i)
  BY <1>1, <1>3, <1>4, <1>8, EnoughRoom DEF Walking
<1>11. /\ find.search \in Seq(Characters) /\ Len(find.search) \in Nat /\ find.searchIndex \in Nat
       /\ find.pvalues \in Seq(Seq(Characters)) /\ find.paramIndex \in Nat
  BY <1>2, FindFacts
<1>12. n.paramsCount \in DOMAIN find.pvalues /\ find.paramIndex + 1 = n.paramsCount
  BY <1>2, <1>8, <1>9, <1>10, <1>11
<1> DEFINE v == [find.pvalues EXCEPT ![n.paramsCount] = find.search]
           f == [find EXCEPT !.node = c, !.pvalues[n.paramsCount] = find.search,
                           !.paramIndex = @ + 1, !.search = <<>>,
                           !.searchIndex = @ + Len(find.search)]
           b == [f EXCEPT !.best = FirstBest(f)]
<1>13. \/ n.methods[find.method] # NoRoute /\ Goes("out", [f EXCEPT !.matched = n.methods[find.method]])
       \/ n.notFound # NoRoute /\ Goes("out", [b EXCEPT !.matched = n.notFound])
       \/ Backtrack(b)
  <2>1. n.methods[find.method] # NoRoute => Goes("out", [f EXCEPT !.matched = n.methods[find.method]])
    BY <1>5, <1>6, <1>12 DEF AnyTakes
  <2>2. n.methods[find.method] = NoRoute /\ n.notFound # NoRoute =>
          Goes("out", [b EXCEPT !.matched = n.notFound])
    BY <1>5, <1>6, <1>12 DEF AnyTakes
  <2>3. n.methods[find.method] = NoRoute /\ n.notFound = NoRoute => Backtrack(b)
    BY <1>5, <1>6, <1>12 DEF AnyTakes
  <2> QED
    BY <2>1, <2>2, <2>3
<1>14. /\ f.node = c /\ f.pvalues = v /\ f.paramIndex = n.paramsCount /\ f.matched = find.matched
       /\ f.searchIndex = find.searchIndex + Len(find.search) /\ f.best = find.best /\ f \in Finds
  <2>1. v \in Seq(Seq(Characters)) /\ <<>> \in Seq(Characters)
    BY <1>11, <1>12
  <2>2. find.searchIndex + Len(find.search) \in Nat /\ find.paramIndex + 1 \in Nat /\ c \in Nat
    <3>1. find.searchIndex + Len(find.search) \in Nat /\ find.paramIndex + 1 \in Nat
      BY <1>11
    <3>2. c \in 1 .. Len(tree)
      BY <1>2, <1>8 DEF TypeInv
    <3> QED
      BY <3>1, <3>2
  <2> QED
    BY <1>2, <1>12, <2>1, <2>2 DEF Finds
<1>15. v[n.paramsCount] = find.search /\ DOMAIN v = DOMAIN find.pvalues
  BY <1>11, <1>12
<1> HIDE DEF v, f
<1>16. /\ b.node = c /\ b.pvalues = v /\ b.paramIndex = n.paramsCount
       /\ b.searchIndex = find.searchIndex + Len(find.search) /\ b.best = FirstBest(f)
  BY <1>14 DEF Finds
<1>17. FirstBest(f) # NoNode
  BY <1>7, <1>14 DEF FirstBest
<1>18. [f EXCEPT !.matched = n.methods[find.method]].matched = n.methods[find.method]
       /\ [b EXCEPT !.matched = n.notFound].matched = n.notFound
  BY <1>14 DEF Finds
<1> HIDE DEF b
<1>19. CASE Backtrack(b)
  <2>1. Taken(b, n) = Len(find.search)
    BY <1>7, <1>15, <1>16 DEF Taken
  <2>2. ~(b.searchIndex < Taken(b, n))
    BY <1>11, <1>16, <2>1
  <2>3. b.paramIndex \in DOMAIN b.pvalues
    BY <1>12, <1>15, <1>16
  <2>4. NextKind(n) = "static"
    BY <1>7 DEF NextKind
  <2>5. Goes("out", Restored(b, n))
    BY <1>6, <1>16, <1>19, <2>2, <2>3, <2>4 DEF Backtrack
  <2>6. Restored(b, n).best = b.best
    BY <1>7, <1>14 DEF Restored, b, Finds
  <2> QED
    BY <1>16, <1>17, <2>5, <2>6 DEF Goes, FindAt
<1> QED
  BY <1>13, <1>18, <1>19 DEF Goes, FindAt

\* The end of Find has a match, a best node, or no node to look into.
LEMMA EndRoom ==
  ASSUME NEW w, FindAt(w, pc, find), Out \/ Use
  PROVE  FindAt(w, pc', find')
<1>1. CASE Use
  BY <1>1 DEF Use, Goes, FindAt
<1>2. CASE Out
  <2>1. find.best # NoNode \/ find.matched # NoRoute \/ find.node = NoNode
    BY <1>2 DEF FindAt, Out
  <2>2. CASE find.matched # NoRoute
    BY <1>2, <2>2 DEF Out, Goes, FindAt
  <2>3. CASE find.matched = NoRoute /\ find.best = NoNode
    <3>1. Goes("done", find)
      BY <1>2, <2>1, <2>3 DEF Out
    <3> QED
      BY <3>1 DEF Goes, FindAt
  <2>4. CASE find.matched = NoRoute /\ find.best # NoNode
    <3>1. pc' = "done"
      BY <1>2, <2>4 DEF Out, Goes
    <3> QED
      BY <3>1 DEF FindAt
  <2> QED
    BY <2>2, <2>3, <2>4
<1> QED
  BY <1>1, <1>2

-----------------------------------------------------------------------------
(* Find never panics *)

\* Every step keeps what Find relies on.
LEMMA NextRoom ==
  ASSUME ColonsApart, [Next]_vars, NEW w, RoomOf(w)
  PROVE  \E v : Rewords(w, v) /\ RoomOf(v)'
<1>1. FindOK(pc, find)
  BY DEF RoomOf
<1>2. SegInv(w) /\ FindAt(w, pc, find)
  BY DEF RoomOf
<1>3. TypeInv /\ LinkInv
  BY <1>2 DEF SegInv, Inv
<1>4. ASSUME NEW r \in Routes, Add(r[1], r[2]) PROVE UNCHANGED tree /\ RoomOf(w)'
  BY <1>1, <1>2, <1>4, AddRoom DEF Add
<1>5. ScanEscape \/ ScanParam \/ ScanAny \/ ScanEnd => UNCHANGED tree /\ RoomOf(w)'
  BY <1>1, <1>2, ScanRoom DEF ScanEscape, ScanParam, ScanAny, ScanEnd
<1>6. Registered => UNCHANGED tree /\ RoomOf(w)'
  BY <1>1, <1>2, RegisteredRoom DEF Registered
<1>7. CASE InsertAtRoot \/ InsertSplit \/ InsertFork \/ InsertDeeper \/ InsertChild \/ InsertExists
  BY <1>1, <1>2, <1>7, InsertRoom
<1>8. ASSUME NEW m \in Methods, NEW t \in Topics, Find(m, t) PROVE UNCHANGED tree /\ RoomOf(w)'
  <2>1. t \in Seq(Characters) /\ pc = "idle"
    BY <1>8, PathsAssumption DEF Find
  <2>2. PICK f : f = NewFind(m, t)
    OBVIOUS
  <2>3. /\ f \in Finds /\ f.node = Root /\ f.best = NoNode /\ f.method = m
        /\ f.searchIndex + Len(f.search) = Len(f.path)
    BY <1>3, <2>1, <2>2, NewFindFacts
  <2>4. Root \in DOMAIN tree /\ Root \in 0 .. Len(tree) /\ NoNode \in 0 .. Len(tree)
    BY <1>3 DEF TypeInv, Root, NoNode
  <2>5. FindOK("loop", f) /\ "loop" \in FindLabels
    BY <2>3, <2>4 DEF FindOK, FindLabels
  <2>6. Goes("loop", f)
    BY <1>8, <2>2 DEF Find, Goes
  <2>7. FindAt(w, pc', find')
    BY <1>2, <1>8, <2>1, FindRoom
  <2> QED
    BY <1>2, <2>1, <2>5, <2>6, <2>7, GoesRoom DEF Goes
<1>9. CASE LoopBacktracks \/ LoopMatches \/ LoopPasses \/ LoopDescends
  <2>1. pc \notin {"scan", "insert"}
    BY <1>9 DEF LoopBacktracks, LoopMatches, LoopPasses, LoopDescends, AtEnd
  <2>2. \E l \in FindLabels : \E f : FindOK(l, f) /\ Goes(l, f)
    BY <1>1, <1>3, <1>9, LoopStep
  <2>3. FindAt(w, pc', find')
    BY <1>1, <1>2, <1>9, LoopRoom
  <2>4. UNCHANGED tree /\ RoomOf(w)'
    BY <1>2, <2>1, <2>2, <2>3, GoesRoom DEF Goes
  <2> QED
    BY <2>4 DEF Rewords
<1>10. CASE ParamTakes \/ ParamPasses
  <2>1. pc \notin {"scan", "insert"}
    BY <1>10 DEF ParamTakes, ParamPasses
  <2>2. \E l \in FindLabels : \E f : FindOK(l, f) /\ Goes(l, f)
    BY <1>1, <1>3, <1>10, ParamStep
  <2>3. FindAt(w, pc', find')
    BY <1>1, <1>2, <1>10, ParamRoom
  <2>4. UNCHANGED tree /\ RoomOf(w)'
    BY <1>2, <2>1, <2>2, <2>3, GoesRoom DEF Goes
  <2> QED
    BY <2>4 DEF Rewords
<1>11. CASE AnyTakes \/ AnyBacktracks
  <2>1. pc \notin {"scan", "insert"}
    BY <1>11 DEF AnyTakes, AnyBacktracks
  <2>2. \E l \in FindLabels : \E f : FindOK(l, f) /\ Goes(l, f)
    BY <1>1, <1>3, <1>11, AnyStep
  <2>3. FindAt(w, pc', find')
    BY <1>1, <1>2, <1>11, AnyRoom, BackRoom
  <2>4. UNCHANGED tree /\ RoomOf(w)'
    BY <1>2, <2>1, <2>2, <2>3, GoesRoom DEF Goes
  <2> QED
    BY <2>4 DEF Rewords
<1>12. CASE Out \/ Use
  <2>1. pc \notin {"scan", "insert"}
    BY <1>12 DEF Out, Use
  <2>2. \E l \in FindLabels : \E f : FindOK(l, f) /\ Goes(l, f)
    BY <1>1, <1>3, <1>12, EndStep
  <2>3. FindAt(w, pc', find')
    BY <1>2, <1>12, EndRoom
  <2>4. UNCHANGED tree /\ RoomOf(w)'
    BY <1>2, <2>1, <2>2, <2>3, GoesRoom DEF Goes
  <2> QED
    BY <2>4 DEF Rewords
<1>13. CASE UNCHANGED vars
  <2>1. UNCHANGED <<tree, maxParam, routes, pc, add, calls, cur, find>>
    BY <1>13 DEF vars
  <2>2. TypeInv' /\ AddInv' /\ WalkInv(w)'
    BY <1>2, <2>1 DEF SegInv, Inv, TypeInv, AddInv, WalkInv, Full, Now, Node, Start, NodeAt
  <2>3. Inv(w)'
    BY <1>2, <2>1, <2>2, SameTree DEF SegInv
  <2>4. FindOK(pc, find)'
    BY <1>1, <2>1 DEF FindOK
  <2>5. KindsOf(tree, w)' /\ ScanInv(w)' /\ CountInv(w)'
    BY <1>2, <2>1 DEF SegInv, KindsOf, ScanInv, CountInv, ScannedTo, Marked, NodeAt
  <2>6. FindAt(w, pc, find)'
    BY <1>2, <2>1 DEF FindAt, Walking, Taking, TakenBy, Above
  <2> QED
    BY <2>1, <2>3, <2>4, <2>5, <2>6 DEF Rewords, RoomOf, SegInv
<1>14. UNCHANGED tree /\ RoomOf(w)' => \E v : Rewords(w, v) /\ RoomOf(v)'
  BY DEF Rewords
<1> QED
  BY <1>4, <1>5, <1>6, <1>7, <1>8, <1>9, <1>10, <1>11, <1>12, <1>13, <1>14 DEF Next

\* If no route has an escaped colon where another one has a parameter, Find
\* never indexes beyond the values that NewBrokerContext made room for, goes
\* back exactly over what a node had taken, and never looks into a nil best
\* match, whatever routes are registered and whatever topics are looked up
\* (pubsub/broker-router.go: Find).
THEOREM FindNeverPanics == ColonsApart => (Spec => []NoPanic)
<1> SUFFICES ASSUME ColonsApart PROVE Spec => []NoPanic
  OBVIOUS
<1>1. RoomInv /\ [Next]_vars => RoomInv'
  BY NextRoom DEF RoomInv
<1>2. RoomInv => NoPanic
  BY DEF RoomInv, RoomOf, FindAt, NoPanic
<1> QED
  BY InitRoom, <1>1, <1>2, PTL DEF Spec
=============================================================================
