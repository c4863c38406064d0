------------------------- MODULE RouterFoundProofs -------------------------
(***************************************************************************)
(* Proofs about what Find in Router hands out: the handlers were           *)
(* registered for what was asked, and where the colons of routes are apart *)
(* and their wildcards last, the topic is the handler's route with the     *)
(* values of its parameters.                                               *)
(***************************************************************************)
EXTENDS RouterFindProofs

-----------------------------------------------------------------------------
(* Whose handlers are in the tree *)

\* rm has no handler, or it is one of R for method m.
Owns(R, rm, m) == rm.handler \in {"nil", "none"} \/ (rm.handler = m /\ rm \in R)

OwnsAll(R, n) ==
  /\ \A m \in Methods : Owns(R, n.methods[m], m)
  /\ Owns(R, n.notFound, RouteNotFound)

\* What has been registered, and what Add is about to register
Recorded == {<<r[1], Rooted(r[2])>> : r \in routes}
Known ==
  {rm \in RouteMethods :
     \/ <<rm.handler, rm.ppath>> \in Recorded
     \/ /\ pc \in {"scan", "insert", "register"}
        /\ rm.handler = add.method /\ rm.ppath = add.ppath}

\* The match of Find, and what it hands out
FindOwn(R, l, f) ==
  /\ l \in {"loop", "param", "any", "out"} =>
       /\ f.handler = "NotFound"
       /\ Owns(R, f.matched, f.method) \/ Owns(R, f.matched, RouteNotFound)
  /\ l = "done" /\ f.handler \in AnyMethod =>
       /\ f.handler \in {f.method, RouteNotFound}
       /\ \E rm \in R : f.handler = rm.handler /\ f.rpath = rm.ppath

OwnInv == (\A i \in DOMAIN tree : OwnsAll(Known, tree[i])) /\ FindOwn(Known, pc, find)

\* A node gets a handler that is known.
LEMMA RegisterOwns ==
  ASSUME NEW R, NEW n \in Nodes, OwnsAll(R, n),
         NEW m \in AnyMethod, NEW rm \in RouteMethods, Owns(R, rm, m)
  PROVE  OwnsAll(R, Register(n, m, rm)) /\ OwnsAll(R, RegisterHandler(n, m, rm))
<1> DEFINE a == AddMethod(n, m, rm)
<1>1. OwnsAll(R, a) /\ a \in Nodes
  <2>1. CASE m = RouteNotFound
    <3>1. a = [n EXCEPT !.notFound = rm]
      BY <2>1 DEF AddMethod
    <3>2. a \in Nodes /\ a.notFound = rm /\ a.methods = n.methods
      BY <3>1 DEF Nodes
    <3> QED
      BY <2>1, <3>2 DEF OwnsAll
  <2>2. CASE m # RouteNotFound
    <3> DEFINE s == Set(n.methods, m, rm)
    <3>1. m \in Methods /\ n.methods \in [Methods -> RouteMethods]
      BY <2>2 DEF AnyMethod, Nodes
    <3>2. s[m] \in {NoRoute, rm} /\ \A k \in Methods : k # m => s[k] = n.methods[k]
      BY <3>1 DEF Set
    <3>3. s \in [Methods -> RouteMethods]
      BY <3>1 DEF Set, RouteMethods
    <3>4. \A k \in Methods : Owns(R, s[k], k)
      <4>1. Owns(R, NoRoute, m)
        BY DEF Owns, NoRoute, EmptyRoute
      <4>2. Owns(R, s[m], m)
        BY <3>2, <4>1
      <4> QED
        BY <3>2, <4>2 DEF OwnsAll
    <3> HIDE DEF s
    <3>5. a = [n EXCEPT !.methods = s, !.isHandler = rm.handler # "nil" \/ IsHandler(s)]
      BY <2>2 DEF AddMethod, s
    <3>6. (rm.handler # "nil" \/ IsHandler(s)) \in BOOLEAN
      BY DEF IsHandler
    <3>7. a \in Nodes /\ a.methods = s /\ a.notFound = n.notFound
      BY <3>3, <3>5, <3>6 DEF Nodes
    <3> QED
      BY <3>4, <3>7 DEF OwnsAll
  <2> QED
    BY <2>1, <2>2
<1> HIDE DEF a
<1>2. Register(n, m, rm) = [a EXCEPT !.paramsCount = Len(rm.pnames), !.originalPath = rm.ppath]
  BY DEF Register, a
<1>3. Register(n, m, rm).methods = a.methods /\ Register(n, m, rm).notFound = a.notFound
  BY <1>1, <1>2 DEF Nodes
<1>4. OwnsAll(R, Register(n, m, rm))
  BY <1>1, <1>3 DEF OwnsAll
<1> QED
  BY <1>4 DEF RegisterHandler

\* A new node has no handler.
LEMMA NewOwns ==
  ASSUME NEW R, NEW k, NEW s, NEW p, NEW t
  PROVE  OwnsAll(R, NewNode(k, s, p, t))
BY DEF OwnsAll, Owns, NewNode, NoRoute, EmptyRoute

\* Nodes with the same handlers.
SameHandlers(n, k) == k.methods = n.methods /\ k.notFound = n.notFound

\* A node with the handlers of another one owns them as well.
LEMMA SameOwns ==
  ASSUME NEW R, NEW n, NEW k, SameHandlers(n, k), OwnsAll(R, n)
  PROVE  OwnsAll(R, k)
BY DEF SameHandlers, OwnsAll

\* The halves of a node that is split, and the nodes below it.
LEMMA HalfOwns ==
  ASSUME tree \in Seq(Nodes), cur.node \in DOMAIN tree, Node \in Nodes, NEW c \in Nat,
         NEW X, \A i \in DOMAIN tree : OwnsAll(X[i], tree[i])
  PROVE  /\ OwnsAll(X[cur.node], Lower) /\ \A R : OwnsAll(R, Upper(c))
         /\ \A i \in DOMAIN tree : OwnsAll(X[i], Moved(c)[i])
<1>1. SameHandlers(Node, Lower)
  BY DEF Lower, SameHandlers, Nodes
<1>2. OwnsAll(X[cur.node], Node)
  BY DEF Node
<1>3. ASSUME NEW R PROVE OwnsAll(R, Upper(c))
  <2> DEFINE k == NewNode("static", Take(Node.prefix, Common), Node.parent, <<>>)
  <2>1. OwnsAll(R, k)
    BY NewOwns
  <2>2. SameHandlers(k, Upper(c))
    BY DEF Upper, SameHandlers, NewNode
  <2> QED
    BY <2>1, <2>2, SameOwns
<1>4. ASSUME NEW i \in DOMAIN tree PROVE OwnsAll(X[i], Moved(c)[i])
  <2>1. tree[i] \in Nodes
    OBVIOUS
  <2>2. Moved(c)[i] \in {tree[i], [tree[i] EXCEPT !.parent = c]}
    BY DEF Moved
  <2>3. SameHandlers(tree[i], Moved(c)[i])
    BY <2>1, <2>2 DEF Nodes, SameHandlers
  <2> QED
    BY <2>3, SameOwns
<1> QED
  BY <1>1, <1>2, <1>3, <1>4, SameOwns

\* The route that insert registers is the one of Add.
LEMMA NowOwns ==
  ASSUME NEW w, Inv(w), pc = "insert"
  PROVE  /\ Now \in Caller /\ Now.rm \in RouteMethods /\ Now.method \in AnyMethod
         /\ Owns(Known, Now.rm, Now.method) /\ cur.node \in DOMAIN tree /\ Node \in Nodes
         /\ tree \in Seq(Nodes) /\ Len(tree) \in Nat /\ DOMAIN tree = 1 .. Len(tree)
<1>1. /\ cur.node \in DOMAIN tree /\ Node \in Nodes /\ Now \in Caller
  BY InsertFacts DEF Inv
<1>2. Now.rm \in RouteMethods /\ Now.method \in AnyMethod
  BY <1>1, CallFacts
<1>3. 1 \in DOMAIN calls
  BY DEF Inv, TypeInv, AddInv
<1>4. Now.method = add.method /\ Now.rm \in {EmptyRoute} \cup {Full(add.pnames)}
  BY <1>3 DEF Inv, AddInv, Now
<1>5. Owns(Known, Now.rm, Now.method)
  <2>1. Owns(Known, EmptyRoute, Now.method)
    BY DEF Owns, EmptyRoute
  <2>2. Full(add.pnames).handler = add.method /\ Full(add.pnames).ppath = add.ppath
    BY DEF Full
  <2> QED
    BY <1>2, <1>4, <2>1, <2>2 DEF Owns, Known
<1> QED
  BY <1>1, <1>2, <1>5 DEF Inv, TypeInv

\* The node that insert finds for the whole path has it for its word.
LEMMA ExistsWord ==
  ASSUME NEW w, Inv(w), InsertExists
  PROVE  w[cur.node] = Now.path
<1>1. pc = "insert" /\ Common = Len(Node.prefix) /\ Common = Len(cur.search)
  BY DEF InsertExists, Inserting
<1>2. PICK x : x = w[cur.node]
  OBVIOUS
<1>3. PICK P : P = Now.path
  OBVIOUS
<1>4. /\ x \in Seq(Characters) /\ P \in Seq(Characters) /\ Len(x) = Len(P) /\ Agree(x, P, Len(P))
  BY <1>1, <1>2, <1>3, InsertFacts DEF Inv, Reached
<1> QED
  BY <1>2, <1>3, <1>4 DEF Agree

\* insert leaves nodes that own their handlers, where the handlers that a node
\* may own depend on its word.
LEMMA InsertOwns ==
  ASSUME NEW w, Inv(w), NEW v, Inserts(w, v),
         NEW S, \A i \in DOMAIN tree : OwnsAll(S[w[i]], tree[i]),
         Owns(S[Now.path], Now.rm, Now.method), S[<<>>] \subseteq S[Now.path]
  PROVE  /\ Returns(tree') /\ tree' \in Seq(Nodes) /\ tree' # <<>>
         /\ WordsOf(tree', v) /\ \A i \in DOMAIN tree' : OwnsAll(S[v[i]], tree'[i])
<1>1. pc = "insert"
  BY DEF Inserts, InsertAtRoot, InsertSplit, InsertFork, InsertChild, InsertExists, Below, Inserting
<1> DEFINE R == S[Now.path]
<1>2. /\ Now \in Caller /\ Now.rm \in RouteMethods /\ Now.method \in AnyMethod
      /\ Owns(R, Now.rm, Now.method) /\ cur.node \in DOMAIN tree /\ Node \in Nodes
      /\ tree \in Seq(Nodes) /\ Len(tree) \in Nat /\ DOMAIN tree = 1 .. Len(tree)
      /\ Now.kind \in Kinds /\ cur.search \in Seq(Characters)
  BY <1>1, NowOwns, CallFacts, InsertFacts DEF Inv
<1> HIDE DEF R
<1> DEFINE X == [i \in DOMAIN tree |-> S[w[i]]]
<1>3. \A i \in DOMAIN tree : X[i] = S[w[i]] /\ OwnsAll(X[i], tree[i])
  OBVIOUS
<1> HIDE DEF X
<1>4. OwnsAll(X[cur.node], Node) /\ tree \in [1 .. Len(tree) -> Nodes] /\ Len(tree) >= 1
  BY <1>2, <1>3 DEF Node, Inv, TypeInv
<1>5. CASE InsertAtRoot /\ v = RootWords
  <2>1. WordsOf(tree', v) /\ w[cur.node] = <<>> /\ \A i \in DOMAIN tree' : S[v[i]] = R
    <3>1. Node.prefix = <<>>
      BY <1>5, RootShape DEF Inv
    <3>2. Len(tree) = 1 /\ DOMAIN tree = {Root} /\ cur.node = Root /\ Len(tree') = 1
      <4>1. Len(tree) = 1 /\ Len(tree') = Len(tree)
        BY <1>2, <1>5, <3>1, RootShape DEF Inv, WordInv, WordsOf, Node
      <4> QED
        BY <1>2, <4>1 DEF Root
    <3>3. w[Root] \in Seq(Characters) /\ Len(w[Root]) = 0
      BY <1>2, <3>1, <3>2 DEF Inv, WordInv, WordsOf, StartIn, Node
    <3>4. WordsOf(tree', v)
      BY <1>5, RootStep
    <3>5. \A i \in DOMAIN tree' : i = Root
      <4>1. tree' \in Seq(Nodes)
        BY <1>5, RootShape DEF Inv
      <4> QED
        BY <3>2, <4>1 DEF Root
    <3> QED
      BY <1>5, <3>2, <3>3, <3>4, <3>5 DEF RootWords, R
  <2> DEFINE n == [Node EXCEPT !.prefix = cur.search]
             k == IF Now.rm.handler # "nil" THEN [n EXCEPT !.kind = Now.kind] ELSE n
             y == RegisterHandler(k, Now.method, Now.rm)
             x == SetLeaf(y)
             g == [tree EXCEPT ![cur.node] = x]
  <2>2. Returns(g) /\ tree' = g
    BY <1>5 DEF InsertAtRoot, Returns
  <2>3. /\ Returns(tree') /\ tree' \in Seq(Nodes) /\ Len(tree') = Len(tree)
    BY <1>5, RootShape DEF Inv
  <2>4. n \in Nodes /\ SameHandlers(Node, n)
    <3>1. Node \in Nodes /\ cur.search \in Seq(Characters)
      BY <1>2
    <3> QED
      BY <3>1 DEF Nodes, SameHandlers
  <2> HIDE DEF n
  <2>5. k \in Nodes /\ SameHandlers(n, k)
    BY <1>2, <2>4 DEF Nodes, SameHandlers
  <2> HIDE DEF k
  <2>6. X[cur.node] \subseteq R
    BY <1>2, <1>3, <2>1 DEF R
  <2>7. OwnsAll(R, Node)
    BY <1>4, <2>6 DEF OwnsAll, Owns
  <2>8. OwnsAll(R, k)
    BY <2>4, <2>5, <2>7 DEF SameHandlers, OwnsAll
  <2>9. OwnsAll(R, y) /\ y \in Nodes
    BY <1>2, <2>5, <2>8, RegisterOwns, RegisterHandlerFacts
  <2> HIDE DEF y
  <2>10. SameHandlers(y, x)
    BY <2>9 DEF SetLeaf, Nodes, SameHandlers
  <2>11. OwnsAll(R, x)
    BY <2>9, <2>10, SameOwns
  <2> HIDE DEF x
  <2>12. \A i \in DOMAIN tree' : tree'[i] = x
    <3>1. w \in [DOMAIN tree -> Seq(Characters)] /\ Len(tree) = 1
      BY <1>2, <1>5, RootShape DEF Inv, WordInv, WordsOf, Node
    <3>2. \A i \in DOMAIN tree : i = cur.node
      BY <1>2, <3>1
    <3> QED
      BY <1>2, <2>2, <3>2
  <2> QED
    BY <1>4, <2>3, <2>11, <2>12, <2>1
<1>6. CASE InsertExists /\ v = w
  <2>1. WordsOf(tree', v) /\ X[cur.node] = R
    <3>1. WordsOf(tree', v)
      BY <1>6, ExistsStep
    <3>2. w[cur.node] = Now.path
      BY <1>6, ExistsWord
    <3> QED
      BY <1>2, <1>3, <3>1, <3>2 DEF R
  <2> DEFINE x == RegisterHandler(Node, Now.method, Now.rm)
             g == [tree EXCEPT ![cur.node] = x]
  <2>2. tree' = g
    BY <1>2, <1>6 DEF InsertExists, Returns, Node
  <2>3. /\ Returns(tree') /\ tree' \in Seq(Nodes) /\ Len(tree') = Len(tree)
    BY <1>6, ExistsShape DEF Inv
  <2>4. OwnsAll(R, x)
    BY <1>2, <1>4, <2>1, RegisterOwns
  <2> HIDE DEF x
  <2>5. \A i \in DOMAIN tree' : OwnsAll(X[i], tree'[i]) /\ i \in DOMAIN tree
    BY <1>2, <1>3, <2>2, <2>4, <2>1
  <2> QED
    BY <1>4, <1>6, <1>3, <2>3, <2>5, <2>1
<1>7. CASE InsertChild /\ v = ChildWords(w)
  <2>1. WordsOf(tree', v)
    BY <1>7, ChildStep
  <2>2. S[v[Len(tree) + 1]] = R /\ \A i \in DOMAIN tree : S[v[i]] = X[i]
    BY <1>2, <1>7, <1>3 DEF ChildWords, R
  <2> DEFINE c == Len(tree) + 1
             new == NewNode(Now.kind, Drop(cur.search, Common), cur.node, Now.rm.ppath)
             y == RegisterHandler(new, Now.method, Now.rm)
             k == CASE Now.kind = "static" -> [Node EXCEPT !.statics = @ \cup {c}]
                    [] Now.kind = "param" -> [Node EXCEPT !.param = c]
                    [] Now.kind = "any" -> [Node EXCEPT !.any = c]
             x == SetLeaf(k)
             g == [tree EXCEPT ![cur.node] = x]
  <2>3. tree' = Append(g, y)
    BY <1>7 DEF InsertChild, Returns
  <2>4. /\ Returns(tree') /\ tree' \in Seq(Nodes) /\ Len(tree') = Len(tree) + 1
        /\ \A i \in DOMAIN tree \ {cur.node} : tree'[i] = tree[i]
    BY <1>7, ChildShape DEF Inv
  <2>5. new \in Nodes
    <3>1. Drop(cur.search, Common) \in Seq(Characters)
      BY <1>1, <1>2, InsertFacts, DropFacts DEF Inv
    <3>2. Now.rm.ppath \in Seq(Characters) /\ cur.node \in Nat
      BY <1>2, CallFacts
    <3> QED
      BY <1>2, <3>1, <3>2, NewNodeFacts
  <2>6. OwnsAll(R, new)
    BY NewOwns
  <2> HIDE DEF new
  <2>7. OwnsAll(R, y)
    BY <1>2, <2>5, <2>6, RegisterOwns
  <2> HIDE DEF y
  <2>8. SameHandlers(Node, k)
    BY <1>2 DEF Nodes, SameHandlers, Kinds
  <2> HIDE DEF k
  <2>9. SameHandlers(k, x)
    BY DEF SetLeaf, SameHandlers
  <2>10. OwnsAll(X[cur.node], x)
    BY <1>4, <2>8, <2>9 DEF SameHandlers, OwnsAll
  <2> HIDE DEF x
  <2>11. g \in [1 .. Len(tree) -> {g[i] : i \in 1 .. Len(tree)}] /\ g[cur.node] = x
    BY <1>2
  <2>12. Len(g) = Len(tree) /\ tree'[cur.node] = x /\ tree'[c] = y
    BY <1>2, <2>3, <2>11
  <2>13. DOMAIN tree' = DOMAIN tree \cup {c}
    BY <1>2, <2>4
  <2>14. \A i \in DOMAIN tree' : OwnsAll(S[v[i]], tree'[i])
    BY <1>2, <1>3, <2>4, <2>7, <2>10, <2>12, <2>13, <2>2
  <2> QED
    BY <1>2, <2>4, <2>14, <2>1
<1>8. CASE InsertSplit /\ v = SplitWords(w)
  <2>1. WordsOf(tree', v)
    BY <1>8, SplitStep
  <2>2. /\ S[v[Len(tree) + 1]] = X[cur.node] /\ S[v[cur.node]] = R
        /\ \A i \in DOMAIN tree : i # cur.node => S[v[i]] = X[i]
    BY <1>2, <1>8, <1>3 DEF SplitWords, R
  <2> DEFINE c == Len(tree) + 1
             k == [Upper(c) EXCEPT !.kind = Now.kind]
             r == Register(k, Now.method, Now.rm)
             x == SetLeaf(r)
             f == Moved(c)
             g == [f EXCEPT ![cur.node] = x]
  <2>3. tree' = Append(g, Lower)
    BY <1>8 DEF InsertSplit, Returns
  <2>4. /\ Returns(tree') /\ tree' \in Seq(Nodes) /\ Len(tree') = Len(tree) + 1
    BY <1>8, SplitShape DEF Inv
  <2>5. /\ OwnsAll(X[cur.node], Lower) /\ \A Q : OwnsAll(Q, Upper(c))
        /\ \A i \in DOMAIN tree : OwnsAll(X[i], f[i])
    BY <1>2, <1>3, HalfOwns
  <2>6. Upper(c) \in Nodes /\ DOMAIN f = DOMAIN tree
    BY <1>1, <1>2, InsertFacts, HalfFacts DEF Inv
  <2>7. k \in Nodes /\ SameHandlers(Upper(c), k)
    BY <1>2, <2>6 DEF Nodes, SameHandlers
  <2> HIDE DEF k
  <2>8. OwnsAll(R, k)
    BY <2>5, <2>7 DEF SameHandlers, OwnsAll
  <2>9. OwnsAll(R, r) /\ r \in Nodes
    BY <1>2, <2>7, <2>8, RegisterOwns, RegisterFacts
  <2> HIDE DEF r
  <2>10. SameHandlers(r, x)
    BY <2>9 DEF SetLeaf, Nodes, SameHandlers
  <2>11. OwnsAll(R, x)
    BY <2>9, <2>10, SameOwns
  <2> HIDE DEF x, f
  <2>12. /\ g \in [1 .. Len(tree) -> {g[i] : i \in 1 .. Len(tree)}] /\ g[cur.node] = x
         /\ \A i \in 1 .. Len(tree) : i # cur.node => g[i] = f[i]
    BY <1>2, <2>6
  <2>13. /\ tree'[c] = Lower /\ \A i \in 1 .. Len(tree) : tree'[i] = g[i]
    BY <1>2, <2>3, <2>12
  <2>14. DOMAIN tree' = DOMAIN tree \cup {c}
    BY <1>2, <2>4
  <2>15. \A i \in DOMAIN tree' : OwnsAll(S[v[i]], tree'[i])
    BY <1>2, <2>5, <2>11, <2>12, <2>13, <2>14, <2>2
  <2> QED
    BY <1>2, <2>4, <2>15, <2>1
<1>9. CASE InsertFork /\ v = ForkWords(w)
  <2>1. WordsOf(tree', v)
    BY <1>9, ForkStep
  <2>2. /\ S[v[Len(tree) + 2]] = R /\ S[v[Len(tree) + 1]] = X[cur.node]
        /\ \A i \in DOMAIN tree : i # cur.node => S[v[i]] = X[i]
    BY <1>2, <1>9, <1>3 DEF ForkWords, R
  <2> DEFINE c == Len(tree) + 1
             k == [Upper(c) EXCEPT !.statics = {c, c + 1}]
             x == SetLeaf(k)
             o == <<>>
             new == NewNode(Now.kind, Drop(cur.search, Common), cur.node, o)
             y == RegisterHandler(new, Now.method, Now.rm)
             f == Moved(c)
             g == [f EXCEPT ![cur.node] = x]
  <2>3. tree' = g \o <<Lower, y>>
    BY <1>9 DEF InsertFork, Returns
  <2>4. /\ Returns(tree') /\ tree' \in Seq(Nodes) /\ Len(tree') = Len(tree) + 2
    BY <1>9, ForkShape DEF Inv
  <2>5. /\ OwnsAll(X[cur.node], Lower) /\ \A Q : OwnsAll(Q, Upper(c))
        /\ \A i \in DOMAIN tree : OwnsAll(X[i], f[i])
    BY <1>2, <1>3, HalfOwns
  <2>6. Upper(c) \in Nodes /\ DOMAIN f = DOMAIN tree
    BY <1>1, <1>2, InsertFacts, HalfFacts DEF Inv
  <2>7. SameHandlers(Upper(c), k)
    BY <2>6 DEF Nodes, SameHandlers
  <2> HIDE DEF k
  <2>8. SameHandlers(k, x)
    BY DEF SetLeaf, SameHandlers
  <2>9. OwnsAll(S[v[cur.node]], x)
    BY <2>5, <2>7, <2>8 DEF SameHandlers, OwnsAll
  <2>10. new \in Nodes
    <3>1. Drop(cur.search, Common) \in Seq(Characters)
      BY <1>1, <1>2, InsertFacts, DropFacts DEF Inv
    <3>2. o \in Seq(Characters) /\ cur.node \in Nat
      BY <1>2
    <3> HIDE DEF o
    <3> QED
      BY <1>2, <3>1, <3>2, NewNodeFacts
  <2>11. OwnsAll(R, new)
    BY NewOwns
  <2> HIDE DEF new
  <2>12. OwnsAll(R, y)
    BY <1>2, <2>10, <2>11, RegisterOwns
  <2> HIDE DEF x, f, y
  <2>13. /\ DOMAIN g = 1 .. Len(tree) /\ g[cur.node] = x
         /\ \A i \in 1 .. Len(tree) : i # cur.node => g[i] = f[i]
    BY <1>2, <2>6
  <2>14. Len(g) = Len(tree) /\ \A i \in 1 .. Len(tree) : OwnsAll(S[v[i]], g[i])
    BY <1>2, <2>5, <2>9, <2>13, <2>2
  <2> DEFINE T == {g[i] : i \in 1 .. Len(tree)} \cup {Lower, y}
  <2>15. g \in Seq(T) /\ Lower \in T /\ y \in T
    <3>1. g \in [1 .. Len(tree) -> T]
      BY <1>2, <2>6
    <3> HIDE DEF g
    <3> QED
      BY <1>2, <3>1
  <2> HIDE DEF g, T
  <2>16. /\ tree'[Len(tree) + 1] = Lower /\ tree'[Len(tree) + 2] = y
         /\ \A i \in 1 .. Len(tree) : tree'[i] = g[i]
    BY <2>3, <2>14, <2>15, LongerFacts
  <2>17. DOMAIN tree' = DOMAIN tree \cup {Len(tree) + 1, Len(tree) + 2}
    BY <1>2, <2>4
  <2>18. \A i \in DOMAIN tree' : OwnsAll(S[v[i]], tree'[i])
    BY <1>2, <2>5, <2>12, <2>14, <2>16, <2>17, <2>2
  <2> QED
    BY <1>2, <2>4, <2>18, <2>1
<1> QED
  BY <1>5, <1>6, <1>7, <1>8, <1>9 DEF Inserts

\* What is known stays so while insert runs and while Find runs.
LEMMA SameKnown ==
  ASSUME UNCHANGED <<routes, add>>,
         pc' \in {"scan", "insert", "register"} <=> pc \in {"scan", "insert", "register"}
  PROVE  Known' = Known
BY DEF Known, Recorded

\* A step of Find that keeps the match, the method and the default answer.
KeepsMatch(f) == f.handler = find.handler /\ f.matched = find.matched /\ f.method = find.method

\* A handler is neither of the two answers that Find has of its own.
LEMMA OwnAnswers == AnyMethod \cap {"NotFound", "MethodNotAllowed", "nil", "none"} = {}
BY MethodsAssumption DEF AnyMethod, RouteNotFound

\* A step of Find leaves the handlers alone.
LEMMA GoesOwns ==
  ASSUME OwnInv, pc \in FindLabels, NEW l \in FindLabels, NEW f, Goes(l, f), FindOwn(Known, l, f)
  PROVE  OwnInv'
<1>1. pc' = l /\ find' = f /\ UNCHANGED <<tree, routes, add>>
  BY DEF Goes
<1>2. Known' = Known
  BY <1>1, SameKnown DEF FindLabels
<1> QED
  BY <1>1, <1>2 DEF OwnInv, FindOwn

\* A step of Find that keeps what was matched.
LEMMA KeepOwns ==
  ASSUME OwnInv, pc \in {"loop", "param", "any"}, NEW l \in FindLabels, NEW f, Goes(l, f),
         KeepsMatch(f)
  PROVE  OwnInv'
<1>1. find.handler \notin AnyMethod
  BY OwnAnswers DEF OwnInv, FindOwn
<1>2. FindOwn(Known, l, f)
  BY <1>1 DEF OwnInv, FindOwn, KeepsMatch
<1> QED
  BY <1>2, GoesOwns DEF FindLabels

\* Find gives up a node.
LEMMA BackOwns ==
  ASSUME OwnInv, pc \in {"loop", "param", "any"}, NEW f \in Finds, KeepsMatch(f), Backtrack(f),
         tree[f.node].kind \in Kinds
  PROVE  OwnInv'
<1> DEFINE n == tree[f.node]
           l == IF n.parent = NoNode \/ NextKind(n) = "static" THEN "out" ELSE NextKind(n)
<1>1. l \in FindLabels
  BY DEF Kinds, NextKind, FindLabels
<1>2. KeepsMatch(Restored(f, n))
  BY DEF Restored, KeepsMatch, Finds
<1>3. Goes("panic", f) \/ Goes(l, Restored(f, n))
  BY DEF Backtrack
<1>4. CASE Goes("panic", f)
  BY <1>4, KeepOwns DEF FindLabels
<1>5. CASE Goes(l, Restored(f, n))
  BY <1>1, <1>2, <1>5, KeepOwns
<1> QED
  BY <1>3, <1>4, <1>5

\* What the loop of Find matches is a handler of the method or one for what is
\* not found.
LEMMA LoopOwns ==
  ASSUME TypeInv, LinkInv, FindOK(pc, find), OwnInv,
         LoopBacktracks \/ LoopMatches \/ LoopPasses \/ LoopDescends
  PROVE  OwnInv'
<1>1. pc = "loop"
  BY DEF LoopBacktracks, LoopMatches, LoopPasses, LoopDescends, AtEnd
<1>2. find \in Finds /\ find.method \in Methods /\ find.node \in DOMAIN tree
  BY <1>1 DEF FindOK
<1>3. /\ Owns(Known, Here.methods[find.method], find.method)
      /\ Owns(Known, Here.notFound, RouteNotFound) /\ find.handler = "NotFound"
  BY <1>1, <1>2 DEF OwnInv, OwnsAll, Here, FindOwn
<1>4. /\ \A x : KeepsMatch([find EXCEPT !.node = x])
      /\ KeepsMatch(Advanced) /\ Advanced.method = find.method
      /\ \A x : KeepsMatch([Advanced EXCEPT !.node = x]) /\ KeepsMatch([Advanced EXCEPT !.best = x])
  BY <1>2 DEF KeepsMatch, Finds, Advanced
<1>5. {"loop", "param", "done", "out"} \subseteq FindLabels
  BY DEF FindLabels
<1>6. CASE LoopBacktracks
  <2>1. PICK l \in {"done", "param"} : Goes(l, [find EXCEPT !.node = Here.parent])
    BY <1>6 DEF LoopBacktracks
  <2> QED
    BY <1>1, <1>4, <1>5, <2>1, KeepOwns
<1>7. CASE LoopDescends
  <2>1. \/ Goes("loop", [Advanced EXCEPT !.node = StaticChild(Here, Rest[1])])
        \/ Goes("param", Advanced)
    BY <1>7 DEF LoopDescends
  <2> QED
    BY <1>1, <1>4, <1>5, <2>1, KeepOwns
<1>8. CASE LoopPasses
  <2>1. PICK x : Goes("param", [Advanced EXCEPT !.best = x])
    BY <1>8 DEF LoopPasses
  <2> QED
    BY <1>1, <1>4, <1>5, <2>1, KeepOwns
<1>9. CASE LoopMatches
  <2>1. CASE Goes("out", [Advanced EXCEPT !.best = FirstBest(find),
                                          !.matched = Here.methods[find.method]])
    <3> DEFINE f == [Advanced EXCEPT !.best = FirstBest(find), !.matched = Here.methods[find.method]]
    <3>1. /\ f.handler = "NotFound" /\ f.method = find.method
          /\ f.matched = Here.methods[find.method]
      BY <1>2, <1>3 DEF Advanced, Finds
    <3> HIDE DEF f
    <3>2. FindOwn(Known, "out", f)
      BY <1>3, <3>1 DEF FindOwn
    <3>3. Goes("out", f)
      BY <2>1 DEF f
    <3> QED
      BY <1>1, <1>5, <3>2, <3>3, GoesOwns
  <2>2. CASE Goes("out", [Advanced EXCEPT !.matched = Here.notFound])
    <3> DEFINE f == [Advanced EXCEPT !.matched = Here.notFound]
    <3>1. f.handler = "NotFound" /\ f.method = find.method /\ f.matched = Here.notFound
      BY <1>2, <1>3 DEF Advanced, Finds
    <3> HIDE DEF f
    <3>2. FindOwn(Known, "out", f)
      BY <1>3, <3>1 DEF FindOwn
    <3>3. Goes("out", f)
      BY <2>2 DEF f
    <3> QED
      BY <1>1, <1>5, <3>2, <3>3, GoesOwns
  <2> QED
    BY <1>9, <2>1, <2>2 DEF LoopMatches
<1> QED
  BY <1>6, <1>7, <1>8, <1>9

\* A parameter takes a value, or there is none.
LEMMA ParamOwns ==
  ASSUME TypeInv, LinkInv, FindOK(pc, find), OwnInv, ParamTakes \/ ParamPasses
  PROVE  OwnInv'
<1>1. pc = "param" /\ find \in Finds
  BY DEF ParamTakes, ParamPasses, FindOK
<1>2. {"loop", "any", "panic"} \subseteq FindLabels /\ KeepsMatch(find)
  BY DEF FindLabels, KeepsMatch
<1>3. CASE ParamPasses
  BY <1>1, <1>2, <1>3, KeepOwns DEF ParamPasses
<1>4. CASE ParamTakes
  <2>1. \/ Goes("panic", find)
        \/ \E c, p, v, x, s :
             Goes("loop", [find EXCEPT !.node = c, !.pvalues[p] = v, !.paramIndex = p,
                                       !.searchIndex = x, !.search = s])
    BY <1>4 DEF ParamTakes
  <2>2. \A c, p, v, x, s :
          KeepsMatch([find EXCEPT !.node = c, !.pvalues[p] = v, !.paramIndex = p,
                                  !.searchIndex = x, !.search = s])
    BY <1>1 DEF KeepsMatch, Finds
  <2> QED
    BY <1>1, <1>2, <2>1, <2>2, KeepOwns
<1> QED
  BY <1>3, <1>4

\* A wildcard takes the rest, or the search goes back.
LEMMA AnyOwns ==
  ASSUME TypeInv, LinkInv, FindOK(pc, find), OwnInv, AnyTakes \/ AnyBacktracks
  PROVE  OwnInv'
<1>1. pc = "any" /\ find \in Finds /\ find.method \in Methods /\ find.node \in DOMAIN tree
  BY DEF AnyTakes, AnyBacktracks, FindOK
<1>2. {"out", "panic"} \subseteq FindLabels /\ KeepsMatch(find) /\ find.handler = "NotFound"
  BY <1>1 DEF FindLabels, KeepsMatch, OwnInv, FindOwn
<1>3. CASE AnyBacktracks
  <2>1. tree[find.node].kind \in Kinds
    <3>1. tree[find.node] \in Nodes
      BY <1>1 DEF TypeInv
    <3> QED
      BY <3>1 DEF Nodes
  <2> QED
    BY <1>1, <1>2, <1>3, <2>1, BackOwns DEF AnyBacktracks
<1>4. CASE AnyTakes
  <2> DEFINE c == Here.any
             n == tree[c]
             f == [find EXCEPT !.node = c, !.pvalues[n.paramsCount] = find.search,
                               !.paramIndex = @ + 1, !.search = <<>>,
                               !.searchIndex = @ + Len(find.search)]
             b == [f EXCEPT !.best = FirstBest(f)]
  <2>1. Here.any # NoNode /\ Here = tree[find.node]
    BY <1>4 DEF AnyTakes, Here
  <2>2. c \in DOMAIN tree /\ n \in Nodes
    <3>1. c \in Kids(tree[find.node])
      BY <2>1 DEF Kids
    <3>2. c \in DOMAIN tree
      BY <1>1, <3>1 DEF LinkInv
    <3> QED
      BY <3>2 DEF TypeInv
  <2>3. /\ Owns(Known, n.methods[find.method], find.method) /\ Owns(Known, n.notFound, RouteNotFound)
    BY <1>1, <2>2 DEF OwnInv, OwnsAll
  <2>4. \/ Goes("panic", find)
        \/ n.paramsCount \in DOMAIN find.pvalues /\ Goes("out", [f EXCEPT !.matched = n.methods[find.method]])
        \/ n.paramsCount \in DOMAIN find.pvalues /\ Goes("out", [b EXCEPT !.matched = n.notFound])
        \/ n.paramsCount \in DOMAIN find.pvalues /\ Backtrack(b)
    BY <1>4 DEF AnyTakes
  <2>5. KeepsMatch(f) /\ f.node = c /\ (n.paramsCount \in DOMAIN find.pvalues => f \in Finds)
    <3>1. /\ find.pvalues \in Seq(Seq(Characters)) /\ find.search \in Seq(Characters)
          /\ find.searchIndex + Len(find.search) \in Nat /\ find.paramIndex + 1 \in Nat
          /\ <<>> \in Seq(Characters) /\ c \in Nat
      <4>1. /\ find.pvalues \in Seq(Seq(Characters)) /\ find.search \in Seq(Characters)
            /\ find.searchIndex \in Nat /\ Len(find.search) \in Nat /\ find.paramIndex \in Nat
        BY FindFacts
      <4>2. c \in Nat
        BY <2>2 DEF TypeInv
      <4> QED
        BY <4>1, <4>2
    <3>2. n.paramsCount \in DOMAIN find.pvalues =>
            [find.pvalues EXCEPT ![n.paramsCount] = find.search] \in Seq(Seq(Characters))
      BY <3>1
    <3> HIDE DEF c, n
    <3>3. KeepsMatch(f) /\ f.node = c
      BY <1>1 DEF KeepsMatch, Finds
    <3>4. n.paramsCount \in DOMAIN find.pvalues => f \in Finds
      BY <1>1, <3>1, <3>2 DEF Finds
    <3> QED
      BY <3>3, <3>4
  <2> HIDE DEF f
  <2>6. CASE Goes("panic", find)
    BY <1>1, <1>2, <2>6, KeepOwns
  <2>7. CASE /\ n.paramsCount \in DOMAIN find.pvalues
             /\ Goes("out", [f EXCEPT !.matched = n.methods[find.method]])
    <3> DEFINE g == [f EXCEPT !.matched = n.methods[find.method]]
    <3>1. g.handler = "NotFound" /\ g.method = find.method /\ g.matched = n.methods[find.method]
      BY <1>2, <2>5, <2>7 DEF KeepsMatch, Finds
    <3> HIDE DEF g
    <3>2. FindOwn(Known, "out", g)
      BY <2>3, <3>1 DEF FindOwn
    <3>3. Goes("out", g)
      BY <2>7 DEF g
    <3>4. pc \in FindLabels
      BY <1>1 DEF FindLabels
    <3> QED
      BY <1>2, <3>2, <3>3, <3>4, GoesOwns
  <2>8. n.paramsCount \in DOMAIN find.pvalues => b \in Finds /\ KeepsMatch(b) /\ b.node = c
    <3>1. n.paramsCount \in DOMAIN find.pvalues => FirstBest(f) \in Nat
      BY <2>5 DEF FirstBest, Finds
    <3> QED
      BY <2>5, <3>1 DEF Finds, KeepsMatch
  <2> HIDE DEF b
  <2>9. CASE /\ n.paramsCount \in DOMAIN find.pvalues
             /\ Goes("out", [b EXCEPT !.matched = n.notFound])
    <3> DEFINE g == [b EXCEPT !.matched = n.notFound]
    <3>1. g.handler = "NotFound" /\ g.method = find.method /\ g.matched = n.notFound
      BY <1>2, <2>8, <2>9 DEF KeepsMatch, Finds
    <3> HIDE DEF g
    <3>2. FindOwn(Known, "out", g)
      BY <2>3, <3>1 DEF FindOwn
    <3>3. Goes("out", g)
      BY <2>9 DEF g
    <3>4. pc \in FindLabels
      BY <1>1 DEF FindLabels
    <3> QED
      BY <1>2, <3>2, <3>3, <3>4, GoesOwns
  <2>10. CASE n.paramsCount \in DOMAIN find.pvalues /\ Backtrack(b)
    <3>1. tree[b.node].kind \in Kinds
      BY <2>2, <2>8, <2>10 DEF Nodes
    <3> QED
      BY <1>1, <2>8, <2>10, <3>1, BackOwns
  <2> QED
    BY <2>4, <2>6, <2>7, <2>9, <2>10
<1> QED
  BY <1>3, <1>4

\* Find hands out the handler of the match, or that of the best node for what
\* is not found, or an answer of its own.
LEMMA EndOwns ==
  ASSUME TypeInv, LinkInv, FindOK(pc, find), OwnInv, Out \/ Use
  PROVE  OwnInv'
<1>1. find \in Finds /\ pc \in FindLabels /\ {"done", "panic", "idle"} \subseteq FindLabels
  BY DEF FindOK, Out, Use, FindLabels
<1>2. CASE Use
  <2>1. FindOwn(Known, "idle", NoFind)
    BY DEF FindOwn
  <2> QED
    BY <1>1, <1>2, <2>1, GoesOwns DEF Use
<1>3. CASE Out
  <2>1. /\ pc = "out" /\ find.handler = "NotFound" /\ find.handler \notin AnyMethod
        /\ Owns(Known, find.matched, find.method) \/ Owns(Known, find.matched, RouteNotFound)
    BY <1>3, OwnAnswers DEF Out, OwnInv, FindOwn
  <2>2. ASSUME NEW rm, Owns(Known, rm, find.method) \/ Owns(Known, rm, RouteNotFound),
               Goes("done", Found(rm))
        PROVE  OwnInv'
    <3>1. Found(rm).handler = rm.handler /\ Found(rm).rpath = rm.ppath /\ Found(rm).method = find.method
      BY <1>1 DEF Found, Finds
    <3>2. FindOwn(Known, "done", Found(rm))
      BY <2>2, <3>1, OwnAnswers DEF FindOwn, Owns
    <3> QED
      BY <1>1, <2>2, <3>2, GoesOwns
  <2>3. CASE find.matched # NoRoute
    <3>1. Goes("done", Found(find.matched))
      BY <1>3, <2>3 DEF Out
    <3> QED
      BY <2>1, <2>2, <3>1
  <2>4. CASE find.matched = NoRoute /\ find.best = NoNode
    <3>1. PICK l \in {"done", "panic"} : Goes(l, find)
      BY <1>3, <2>4 DEF Out
    <3>2. FindOwn(Known, l, find)
      BY <2>1, <3>1 DEF FindOwn
    <3> QED
      BY <1>1, <3>1, <3>2, GoesOwns
  <2>5. CASE find.matched = NoRoute /\ find.best # NoNode
    <3> DEFINE b == tree[find.best]
               f == [find EXCEPT !.handler = IF b.isHandler THEN "MethodNotAllowed" ELSE "NotFound",
                                 !.rpath = b.originalPath, !.pnames = <<>>]
    <3>1. find.best \in DOMAIN tree
      BY <2>5 DEF FindOK, TypeInv, NoNode
    <3>2. Owns(Known, b.notFound, RouteNotFound)
      BY <3>1 DEF OwnInv, OwnsAll
    <3>3. Goes("done", Found(b.notFound)) \/ Goes("done", f)
      BY <1>3, <2>5 DEF Out
    <3>4. f.handler \notin AnyMethod
      <4>1. f.handler \in {"MethodNotAllowed", "NotFound"}
        BY <1>1 DEF Finds
      <4> QED
        BY <4>1, OwnAnswers
    <3> HIDE DEF f
    <3>5. FindOwn(Known, "done", f)
      BY <3>4 DEF FindOwn
    <3> QED
      BY <1>1, <2>2, <3>2, <3>3, <3>5, GoesOwns
  <2> QED
    BY <2>3, <2>4, <2>5
<1> QED
  BY <1>2, <1>3

\* Every step keeps the handlers of the tree and of Find among those that were
\* registered.
LEMMA NextOwns == RouterInv /\ OwnInv /\ [Next]_vars => OwnInv'
<1> SUFFICES ASSUME RouterInv, OwnInv, [Next]_vars PROVE OwnInv'
  OBVIOUS
<1>1. PICK w : Inv(w)
  BY DEF RouterInv
<1>2. FindOK(pc, find) /\ TypeInv /\ LinkInv /\ AddInv
  BY <1>1 DEF RouterInv, Inv
<1>3. ASSUME Known \subseteq Known', UNCHANGED tree, pc' \notin {"loop", "param", "any", "out", "done"}
      PROVE  OwnInv'
  BY <1>3 DEF OwnInv, FindOwn, OwnsAll, Owns
<1>4. ASSUME NEW r \in Routes, Add(r[1], r[2]) PROVE OwnInv'
  <2>1. UNCHANGED <<tree, routes>> /\ pc = "idle" /\ pc' = "scan"
    BY <1>4 DEF Add
  <2>2. Known \subseteq Known'
    BY <2>1 DEF Known, Recorded
  <2> QED
    BY <1>3, <2>1, <2>2
<1>5. CASE ScanEscape \/ ScanParam \/ ScanAny \/ ScanEnd
  <2>1. /\ UNCHANGED <<tree, routes>> /\ pc = "scan" /\ pc' \in {"scan", "insert"}
        /\ add'.method = add.method /\ add'.ppath = add.ppath
    <3>1. add \in Adds
      BY <1>2 DEF TypeInv
    <3> QED
      BY <1>5, <3>1 DEF ScanEscape, ScanParam, ScanAny, ScanEnd, Scanning, Calls, Adds
  <2>2. Known \subseteq Known'
    BY <2>1 DEF Known, Recorded
  <2> QED
    BY <1>3, <2>1, <2>2
<1>6. CASE Registered
  <2>1. /\ UNCHANGED tree /\ pc = "register" /\ pc' = "idle"
        /\ routes' = routes \cup {<<add.method, add.topic>>}
    BY <1>6 DEF Registered
  <2>2. add.ppath = Rooted(add.topic)
    BY <1>2, <2>1 DEF AddInv
  <2>3. Recorded \subseteq Recorded' /\ <<add.method, add.ppath>> \in Recorded'
    <3>1. PICK a : a = <<add.method, add.topic>>
      OBVIOUS
    <3>2. a \in routes' /\ a[1] = add.method /\ a[2] = add.topic /\ routes \subseteq routes'
      BY <2>1, <3>1
    <3>3. Recorded' = {<<r[1], Rooted(r[2])>> : r \in routes'}
      BY DEF Recorded
    <3>4. <<a[1], Rooted(a[2])>> \in Recorded'
      BY <3>2, <3>3
    <3> QED
      BY <2>2, <3>2, <3>3, <3>4 DEF Recorded
  <2>4. Known \subseteq Known'
    BY <2>1, <2>3 DEF Known
  <2> QED
    BY <1>3, <2>1, <2>4
<1>7. CASE InsertDeeper
  <2>1. UNCHANGED <<tree, routes, add, pc>> /\ pc = "insert"
    BY <1>7 DEF InsertDeeper, Below, Inserting
  <2>2. Known' = Known
    BY <2>1, SameKnown
  <2> QED
    BY <1>3, <2>1, <2>2
<1>8. CASE InsertAtRoot \/ InsertSplit \/ InsertFork \/ InsertChild \/ InsertExists
  <2>1. pc = "insert"
    BY <1>8 DEF InsertAtRoot, InsertSplit, InsertFork, InsertChild, InsertExists, Below, Inserting
  <2>2. PICK R : R = Known
    OBVIOUS
  <2> DEFINE S == [s \in Seq(Characters) |-> R]
  <2>3. \A i \in DOMAIN tree : OwnsAll(S[w[i]], tree[i])
    BY <1>1, <2>2 DEF OwnInv, Inv, WordInv, WordsOf
  <2>4. Owns(S[Now.path], Now.rm, Now.method) /\ S[<<>>] \subseteq S[Now.path]
    <3>1. Now.path \in Seq(Characters) /\ <<>> \in Seq(Characters) /\ Owns(R, Now.rm, Now.method)
      BY <1>1, <2>1, <2>2, NowOwns, CallFacts
    <3> QED
      BY <3>1
  <2>5. PICK v : Inserts(w, v)
    BY <1>8 DEF Inserts
  <2>6. /\ Returns(tree') /\ tree' \in Seq(Nodes) /\ tree' # <<>>
        /\ WordsOf(tree', v) /\ \A i \in DOMAIN tree' : OwnsAll(S[v[i]], tree'[i])
    <3> HIDE DEF S
    <3> QED
      BY <1>1, <2>3, <2>4, <2>5, InsertOwns
  <2>7. \A i \in DOMAIN tree' : OwnsAll(R, tree'[i])
    BY <2>6 DEF WordsOf
  <2>8. UNCHANGED <<routes, add>> /\ pc' \in {"insert", "scan", "register"}
    BY <1>2, <2>1, <2>6, ReturnsStep
  <2>9. Known' = R
    BY <2>1, <2>2, <2>8, SameKnown
  <2> QED
    BY <2>7, <2>8, <2>9 DEF OwnInv, FindOwn
<1>9. ASSUME NEW m \in Methods, NEW t \in Topics, Find(m, t) PROVE OwnInv'
  <2>1. pc = "idle" /\ Goes("loop", NewFind(m, t))
    BY <1>9 DEF Find, Goes
  <2>2. NewFind(m, t).handler = "NotFound" /\ NewFind(m, t).matched = NoRoute
    BY DEF NewFind
  <2>3. Owns(Known, NoRoute, NewFind(m, t).method)
    BY DEF Owns, NoRoute, EmptyRoute
  <2>4. FindOwn(Known, "loop", NewFind(m, t))
    BY <2>2, <2>3 DEF FindOwn
  <2> QED
    BY <2>1, <2>4, GoesOwns DEF FindLabels
<1>10. CASE LoopBacktracks \/ LoopMatches \/ LoopPasses \/ LoopDescends
  BY <1>2, <1>10, LoopOwns
<1>11. CASE ParamTakes \/ ParamPasses
  BY <1>2, <1>11, ParamOwns
<1>12. CASE AnyTakes \/ AnyBacktracks
  BY <1>2, <1>12, AnyOwns
<1>13. CASE Out \/ Use
  BY <1>2, <1>13, EndOwns
<1>14. CASE UNCHANGED vars
  <2>1. UNCHANGED <<tree, routes, pc, add, find>>
    BY <1>14 DEF vars
  <2>2. Known' = Known
    BY <2>1, SameKnown
  <2> QED
    BY <2>1, <2>2 DEF OwnInv, FindOwn
<1> QED
  BY <1>4, <1>5, <1>6, <1>7, <1>8, <1>9, <1>10, <1>11, <1>12, <1>13, <1>14 DEF Next

\* A handler that Find hands out was registered by Add for the method that was
\* asked for, or for what is not found, with the path that the context gets,
\* however insert moved it from node to node, for any routes in any order and
\* any topics (pubsub/broker-router.go: Add, insert, Find).
THEOREM FoundHandlersAreRegistered == Spec => []FoundIsRegistered
<1>1. Init => OwnInv
  <2> SUFFICES ASSUME Init PROVE OwnInv
    OBVIOUS
  <2> DEFINE n == NewNode("static", <<>>, NoNode, <<>>)
  <2>1. tree = <<[n EXCEPT !.isLeaf = FALSE]>> /\ pc = "idle"
    BY DEF Init
  <2>2. OwnsAll(Known, n)
    BY NewOwns
  <2>3. SameHandlers(n, [n EXCEPT !.isLeaf = FALSE])
    BY DEF SameHandlers, NewNode
  <2>4. OwnsAll(Known, [n EXCEPT !.isLeaf = FALSE])
    BY <2>2, <2>3, SameOwns
  <2> HIDE DEF n
  <2>5. PICK x : x = [n EXCEPT !.isLeaf = FALSE]
    OBVIOUS
  <2>6. \A i \in DOMAIN tree : tree[i] = x
    <3>1. tree = <<x>>
      BY <2>1, <2>5
    <3> QED
      BY <3>1
  <2> QED
    BY <2>1, <2>4, <2>5, <2>6 DEF OwnInv, FindOwn
<1>2. OwnInv => FoundIsRegistered
  <2> SUFFICES ASSUME OwnInv, pc = "done", find.handler \in AnyMethod
               PROVE  /\ find.handler \in {find.method, RouteNotFound}
                      /\ \E r \in routes : r[1] = find.handler /\ Rooted(r[2]) = find.rpath
    BY DEF FoundIsRegistered, AnyMethod
  <2>1. /\ find.handler \in {find.method, RouteNotFound}
        /\ \E rm \in Known : find.handler = rm.handler /\ find.rpath = rm.ppath
    BY DEF OwnInv, FindOwn
  <2>2. <<find.handler, find.rpath>> \in Recorded
    BY <2>1 DEF Known
  <2> QED
    BY <2>1, <2>2 DEF Recorded
<1> QED
  BY <1>1, <1>2, NextOwns, RouterInvariant, PTL DEF Spec

-----------------------------------------------------------------------------
(* Recursive definitions *)

\* Induction, for a set of numbers.
LEMMA Induct ==
  ASSUME NEW S, 0 \in S, \A n \in Nat : n \in S => n + 1 \in S
  PROVE  \A n \in Nat : n \in S
<1> DEFINE T == {n \in Nat : n \notin S}
<1>1. CASE T = {}
  BY <1>1
<1>2. CASE T # {}
  <2>1. PICK x \in T : \A y \in T : x <= y
    BY <1>2, LeastNat
  <2>2. x \in Nat /\ x # 0 /\ x - 1 \in Nat /\ (x - 1) + 1 = x /\ ~(x <= x - 1)
    BY <2>1
  <2>3. x - 1 \in S
    BY <2>1, <2>2
  <2> QED
    BY <2>1, <2>2, <2>3
<1> QED
  BY <1>1, <1>2

\* What WordTo is defined by, up to n
Spells(r, n, f) ==
  f = [k \in 0 .. n |-> IF k = 0 THEN <<>>
                        ELSE IF InWord(r, k) THEN Append(f[k - 1], Symbol(r, k)) ELSE f[k - 1]]

\* WordTo is the function that its definition describes.
LEMMA WordToSteps ==
  ASSUME NEW r \in Seq(Characters)
  PROVE  /\ WordTo(r)[0] = <<>>
         /\ \A k \in 1 .. Len(r) :
              WordTo(r)[k] = IF InWord(r, k) THEN Append(WordTo(r)[k - 1], Symbol(r, k))
                                             ELSE WordTo(r)[k - 1]
<1> DEFINE S == {n \in Nat : \E f : Spells(r, n, f)}
<1>1. 0 \in S
  <2> DEFINE f == [k \in 0 .. 0 |-> <<>>]
  <2>1. \A k \in 0 .. 0 : k = 0
    OBVIOUS
  <2>2. Spells(r, 0, f)
    BY <2>1 DEF Spells
  <2> QED
    BY <2>2
<1>2. ASSUME NEW n \in Nat, n \in S PROVE n + 1 \in S
  <2>1. PICK f : Spells(r, n, f)
    BY <1>2
  <2> DEFINE x == IF InWord(r, n + 1) THEN Append(f[n], Symbol(r, n + 1)) ELSE f[n]
             g == [k \in 0 .. n + 1 |-> IF k = n + 1 THEN x ELSE f[k]]
  <2>2. \A k \in 0 .. n : g[k] = f[k]
    OBVIOUS
  <2>3. \A k \in 0 .. n : f[k] = IF k = 0 THEN <<>>
                                 ELSE IF InWord(r, k) THEN Append(f[k - 1], Symbol(r, k)) ELSE f[k - 1]
    BY <2>1 DEF Spells
  <2>4. ASSUME NEW k \in 0 .. n + 1
        PROVE  g[k] = IF k = 0 THEN <<>>
                      ELSE IF InWord(r, k) THEN Append(g[k - 1], Symbol(r, k)) ELSE g[k - 1]
    <3>1. CASE k = n + 1
      <4>1. k - 1 = n /\ k # 0 /\ n \in 0 .. n /\ g[n + 1] = x
        BY <3>1
      <4> QED
        BY <2>2, <3>1, <4>1
    <3>2. CASE k # n + 1
      <4>1. k \in 0 .. n /\ (k # 0 => k - 1 \in 0 .. n)
        BY <3>2
      <4> HIDE DEF g
      <4> QED
        BY <2>2, <2>3, <4>1
    <3> QED
      BY <3>1, <3>2
  <2>5. g = [k \in 0 .. n + 1 |-> g[k]]
    OBVIOUS
  <2> HIDE DEF g
  <2>6. Spells(r, n + 1, g)
    BY <2>4, <2>5 DEF Spells
  <2> QED
    BY <2>6
<1> HIDE DEF S
<1>3. Len(r) \in S
  <2>1. \A n \in Nat : n \in S
    BY <1>1, <1>2, Induct
  <2> QED
    BY <2>1
<1>4. PICK f : Spells(r, Len(r), f)
  BY <1>3 DEF S
<1>5. Spells(r, Len(r), WordTo(r))
  BY <1>4 DEF Spells, WordTo
<1>6. \A k \in 0 .. Len(r) : WordTo(r)[k] = IF k = 0 THEN <<>>
        ELSE IF InWord(r, k) THEN Append(WordTo(r)[k - 1], Symbol(r, k)) ELSE WordTo(r)[k - 1]
  <2> DEFINE W == WordTo(r)
  <2> HIDE DEF W
  <2>1. Spells(r, Len(r), W)
    BY <1>5 DEF W
  <2>2. \A k \in 0 .. Len(r) : W[k] = IF k = 0 THEN <<>>
           ELSE IF InWord(r, k) THEN Append(W[k - 1], Symbol(r, k)) ELSE W[k - 1]
    BY <2>1 DEF Spells
  <2> QED
    BY <2>2 DEF W
<1>7. 0 \in 0 .. Len(r) /\ \A k \in 1 .. Len(r) : k \in 0 .. Len(r) /\ k # 0
  OBVIOUS
<1> QED
  BY <1>6, <1>7

\* What FlattenSeq is defined by, up to n
Joins(ss, n, f) == f = [k \in 1 .. n |-> IF k = 1 THEN ss[k] ELSE f[k - 1] \o ss[k]]

\* FlattenSeq is the last of the sequences that its definition describes.
LEMMA FlattenSteps ==
  ASSUME NEW ss, Len(ss) \in Nat \ {0}
  PROVE  \E g : /\ g[1] = ss[1] /\ FlattenSeq(ss) = g[Len(ss)]
                /\ \A k \in 1 .. Len(ss) - 1 : g[k + 1] = g[k] \o ss[k + 1]
<1> DEFINE S == {n \in Nat : \E f : Joins(ss, n, f)}
<1>1. 0 \in S
  <2> DEFINE f == [k \in 1 .. 0 |-> <<>>]
  <2>1. Joins(ss, 0, f)
    BY DEF Joins
  <2> QED
    BY <2>1
<1>2. ASSUME NEW n \in Nat, n \in S PROVE n + 1 \in S
  <2>1. PICK f : Joins(ss, n, f)
    BY <1>2
  <2> DEFINE x == IF n + 1 = 1 THEN ss[n + 1] ELSE f[n] \o ss[n + 1]
             g == [k \in 1 .. n + 1 |-> IF k = n + 1 THEN x ELSE f[k]]
  <2>2. \A k \in 1 .. n : g[k] = f[k]
    OBVIOUS
  <2>3. \A k \in 1 .. n : f[k] = IF k = 1 THEN ss[k] ELSE f[k - 1] \o ss[k]
    BY <2>1 DEF Joins
  <2>4. ASSUME NEW k \in 1 .. n + 1
        PROVE  g[k] = IF k = 1 THEN ss[k] ELSE g[k - 1] \o ss[k]
    <3>1. CASE k = n + 1
      <4>1. k - 1 = n /\ (k # 1 => n \in 1 .. n) /\ g[k] = x
        BY <3>1
      <4> QED
        BY <2>2, <3>1, <4>1
    <3>2. CASE k # n + 1
      <4>1. k \in 1 .. n /\ (k # 1 => k - 1 \in 1 .. n)
        BY <3>2
      <4> HIDE DEF g
      <4> QED
        BY <2>2, <2>3, <4>1
    <3> QED
      BY <3>1, <3>2
  <2>5. g = [k \in 1 .. n + 1 |-> g[k]]
    OBVIOUS
  <2> HIDE DEF g
  <2>6. Joins(ss, n + 1, g)
    BY <2>4, <2>5 DEF Joins
  <2> QED
    BY <2>6
<1> HIDE DEF S
<1>3. Len(ss) \in S
  BY <1>1, <1>2, Induct
<1>4. PICK f : Joins(ss, Len(ss), f)
  BY <1>3 DEF S
<1>5. \E g : Joins(ss, Len(ss), g) /\ FlattenSeq(ss) = g[Len(ss)]
  BY <1>4 DEF Joins, FlattenSeq
<1>6. PICK g : Joins(ss, Len(ss), g) /\ FlattenSeq(ss) = g[Len(ss)]
  BY <1>5
<1>7. \A k \in 1 .. Len(ss) : g[k] = IF k = 1 THEN ss[k] ELSE g[k - 1] \o ss[k]
  BY <1>6 DEF Joins
<1>8. PICK n : n = Len(ss)
  OBVIOUS
<1>9. 1 \in 1 .. n /\ \A k \in 1 .. n - 1 : k + 1 \in 1 .. n /\ k + 1 # 1 /\ (k + 1) - 1 = k
  BY <1>8
<1>10. g[1] = ss[1] /\ \A k \in 1 .. n - 1 : g[k + 1] = g[k] \o ss[k + 1]
  BY <1>7, <1>8, <1>9
<1> QED
  BY <1>6, <1>8, <1>10

\* Pieces of a path that follow one another make the path.
LEMMA FlattenPath ==
  ASSUME NEW p \in Seq(Characters), NEW ss, NEW n \in Nat \ {0}, Len(ss) = n, NEW pos,
         pos[0] = 0, pos[n] = Len(p), \A k \in 0 .. n : pos[k] \in 0 .. Len(p),
         \A k \in 1 .. n : /\ ss[k] \in Seq(Characters) /\ pos[k] = pos[k - 1] + Len(ss[k])
                           /\ \A x \in 1 .. Len(ss[k]) : ss[k][x] = p[pos[k - 1] + x]
  PROVE  FlattenSeq(ss) = p
<1>1. Len(ss) \in Nat \ {0}
  OBVIOUS
<1>2. PICK g : /\ g[1] = ss[1] /\ FlattenSeq(ss) = g[n]
               /\ \A k \in 1 .. n - 1 : g[k + 1] = g[k] \o ss[k + 1]
  <2>1. \E g : /\ g[1] = ss[1] /\ FlattenSeq(ss) = g[Len(ss)]
                /\ \A k \in 1 .. Len(ss) - 1 : g[k + 1] = g[k] \o ss[k + 1]
    BY <1>1, FlattenSteps, Zenon
  <2> QED
    BY <2>1
<1> DEFINE S == {k \in Nat : 1 <= k /\ k <= n =>
                   g[k] \in Seq(Characters) /\ Len(g[k]) = pos[k] /\ Agree(g[k], p, pos[k])}
<1>3. 0 \in S
  OBVIOUS
<1>4. ASSUME NEW k \in Nat, k \in S PROVE k + 1 \in S
  <2> SUFFICES ASSUME k + 1 <= n
               PROVE  /\ g[k + 1] \in Seq(Characters) /\ Len(g[k + 1]) = pos[k + 1]
                      /\ Agree(g[k + 1], p, pos[k + 1])
    OBVIOUS
  <2>1. k + 1 \in 1 .. n /\ (k + 1) - 1 = k /\ k \in 0 .. n /\ k + 1 \in 0 .. n
    OBVIOUS
  <2>2. PICK y : y = ss[k + 1]
    OBVIOUS
  <2>3. /\ y \in Seq(Characters) /\ pos[k + 1] = pos[k] + Len(y)
        /\ \A x \in 1 .. Len(y) : y[x] = p[pos[k] + x]
    <3>1. /\ ss[k + 1] \in Seq(Characters) /\ pos[k + 1] = pos[(k + 1) - 1] + Len(ss[k + 1])
          /\ \A x \in 1 .. Len(ss[k + 1]) : ss[k + 1][x] = p[pos[(k + 1) - 1] + x]
      BY <2>1
    <3> QED
      BY <2>1, <2>2, <3>1
  <2>4. CASE k = 0
    BY <1>2, <2>2, <2>3, <2>4 DEF Agree
  <2>5. CASE k # 0
    <3>1. g[k] \in Seq(Characters) /\ Len(g[k]) = pos[k] /\ Agree(g[k], p, pos[k])
      BY <1>4, <2>1, <2>5
    <3>2. PICK h : h = g[k]
      OBVIOUS
    <3>3. g[k + 1] = h \o y
      <4>1. k \in 1 .. n - 1
        BY <2>1, <2>5
      <4> QED
        BY <1>2, <2>2, <3>2, <4>1
    <3>4. PICK a : a = pos[k]
      OBVIOUS
    <3>5. /\ h \in Seq(Characters) /\ Len(h) = a /\ a \in Nat /\ Len(y) \in Nat
          /\ \A x \in 1 .. a : h[x] = p[x]
          /\ \A x \in 1 .. Len(y) : y[x] = p[a + x]
      <4>1. pos[k] \in 0 .. Len(p) /\ Len(p) \in Nat /\ Len(y) \in Nat
        BY <2>1, <2>3
      <4> QED
        BY <2>3, <3>1, <3>2, <3>4, <4>1 DEF Agree
    <3>6. /\ h \o y \in Seq(Characters) /\ Len(h \o y) = a + Len(y)
          /\ \A x \in 1 .. a + Len(y) : (h \o y)[x] = p[x]
      <4>1. /\ h \o y \in Seq(Characters) /\ Len(h \o y) = Len(h) + Len(y)
            /\ \A x \in 1 .. Len(h) + Len(y) : (h \o y)[x] = IF x <= Len(h) THEN h[x] ELSE y[x - Len(h)]
        <5>1. h \in Seq(Characters) /\ y \in Seq(Characters)
          BY <2>3, <3>5
        <5> QED
          BY ONLY <5>1, ConcatProperties, Zenon
      <4>2. h \o y \in Seq(Characters) /\ Len(h \o y) = a + Len(y)
        BY <3>5, <4>1
      <4>3. ASSUME NEW x \in 1 .. a + Len(y) PROVE (h \o y)[x] = p[x]
        <5>1. CASE x <= a
          BY <3>5, <4>1, <5>1
        <5>2. CASE ~(x <= a)
          <6>1. x - a \in 1 .. Len(y) /\ a + (x - a) = x
            BY <3>5, <5>2
          <6>2. (h \o y)[x] = y[x - a]
            BY <3>5, <4>1, <5>2
          <6> QED
            BY <3>5, <6>1, <6>2
        <5> QED
          BY <5>1, <5>2
      <4> QED
        BY <4>2, <4>3
    <3> QED
      BY <2>3, <3>3, <3>4, <3>6 DEF Agree
  <2> QED
    BY <2>4, <2>5
<1>5. n \in S
  <2> HIDE DEF S
  <2> QED
    BY <1>3, <1>4, Induct
<1>6. g[n] \in Seq(Characters) /\ Len(g[n]) = Len(p) /\ Agree(g[n], p, Len(p))
  BY <1>5
<1>7. PICK h : h = g[n]
  OBVIOUS
<1>8. h \in Seq(Characters) /\ Len(h) = Len(p) /\ \A x \in 1 .. Len(p) : h[x] = p[x]
  BY <1>6, <1>7 DEF Agree
<1>9. h = p
  <2>1. p \in Seq(Characters) /\ \A x \in 1 .. Len(h) : h[x] = p[x]
    BY <1>8
  <2> QED
    BY ONLY <1>8, <2>1, SeqEqual, Zenon
<1> QED
  BY <1>2, <1>7, <1>9

-----------------------------------------------------------------------------
(* Reading a topic along the word of a node *)

\* What character k of word s stands for in a topic, and where each of its first
\* n characters ends there
Piece(s, values, k) == IF Special(s, k) THEN values[Count(s, k)] ELSE <<s[k]>>

\* Characters m + 1 .. n of s are ordinary, and are in the path after the first a
Literal(s, m, n, path, a) ==
  /\ \A k \in m + 1 .. n : ~Special(s, k)
  /\ a + (n - m) <= Len(path)
  /\ \A x \in 1 .. n - m : s[m + x] = path[a + x]

\* y is the part of the path after the first a characters
Within(y, path, a) ==
  a + Len(y) <= Len(path) /\ \A x \in 1 .. Len(y) : y[x] = path[a + x]

Reading(s, n, values, path, pos) ==
  /\ pos[0] = 0 /\ \A k \in 0 .. n : pos[k] \in 0 .. Len(path)
  /\ Count(s, n) <= Len(values)
  /\ \A k \in 1 .. n :
       /\ pos[k] = pos[k - 1] + Len(Piece(s, values, k))
       /\ \A x \in 1 .. Len(Piece(s, values, k)) : Piece(s, values, k)[x] = path[pos[k - 1] + x]

\* It depends on these characters only.
LEMMA ReadingAgree ==
  ASSUME NEW s, NEW t, NEW n \in Nat, Agree(s, t, n),
         NEW values, NEW path, NEW pos, Reading(s, n, values, path, pos)
  PROVE  Reading(t, n, values, path, pos)
<1>1. Count(t, n) = Count(s, n) /\ \A k \in 1 .. n : Special(s, k) <=> Special(t, k)
  BY CountAgree
<1>2. ASSUME NEW k \in 1 .. n PROVE Piece(s, values, k) = Piece(t, values, k)
  <2>1. k \in Nat /\ k <= n /\ Agree(s, t, k) /\ s[k] = t[k]
    BY AgreeLess, AgreeAt
  <2>2. Count(s, k) = Count(t, k)
    BY <2>1, CountAgree
  <2> QED
    BY <1>1, <2>1, <2>2 DEF Piece
<1> QED
  BY <1>1, <1>2 DEF Reading

\* Fewer characters are read as well.
LEMMA ReadingLess ==
  ASSUME NEW s, NEW n \in Nat, NEW m \in Nat, m <= n, NEW values \in Seq(Seq(Characters)), NEW path, NEW pos,
         Reading(s, n, values, path, pos)
  PROVE  Reading(s, m, values, path, pos)
<1>1. Count(s, m) \in Nat /\ Count(s, n) \in Nat /\ Count(s, m) <= Count(s, n) /\ Len(values) \in Nat
  <2>1. Count(s, m) \in Nat /\ Count(s, n) \in Nat /\ Count(s, m) <= Count(s, n)
    BY CountNat, CountMono
  <2> QED
    BY <2>1
<1>2. Count(s, n) <= Len(values)
  BY DEF Reading
<1>3. Count(s, m) <= Len(values)
  BY ONLY <1>1, <1>2
<1>4. (\A k \in 0 .. m : k \in 0 .. n) /\ (\A k \in 1 .. m : k \in 1 .. n)
  OBVIOUS
<1> QED
  BY <1>3, <1>4 DEF Reading

\* Values of later characters do not matter.
LEMMA ReadingValues ==
  ASSUME NEW s, NEW n \in Nat, NEW values \in Seq(Seq(Characters)), NEW path, NEW pos,
         Reading(s, n, values, path, pos),
         NEW c \in DOMAIN values, c > Count(s, n), NEW v
  PROVE  Reading(s, n, [values EXCEPT ![c] = v], path, pos)
<1> DEFINE u == [values EXCEPT ![c] = v]
<1>1. Len(u) = Len(values) /\ \A d \in DOMAIN values : d # c => u[d] = values[d]
  OBVIOUS
<1> HIDE DEF u
<1>2. ASSUME NEW k \in 1 .. n PROVE Piece(s, u, k) = Piece(s, values, k)
  <2>1. CASE ~Special(s, k)
    BY <2>1 DEF Piece
  <2>2. CASE Special(s, k)
    <3>1. k - 1 \in Nat /\ (k - 1) + 1 = k /\ k \in Nat /\ k <= n
      OBVIOUS
    <3>2. Count(s, k) = Count(s, k - 1) + 1
      BY <2>2, <3>1, CountOne
    <3>3. PICK a, b, d : a = Count(s, k) /\ b = Count(s, n) /\ d = Count(s, k - 1)
      OBVIOUS
    <3>4. a \in Nat /\ b \in Nat /\ d \in Nat /\ a <= b /\ a = d + 1 /\ b <= Len(values) /\ b < c
      BY <3>1, <3>2, <3>3, CountNat, CountMono DEF Reading
    <3>5. a \in 1 .. Len(values) /\ a # c
      BY ONLY <3>4, c \in DOMAIN values, values \in Seq(Seq(Characters))
    <3>6. a \in DOMAIN values
      BY <3>5
    <3>7. u[a] = values[a]
      BY ONLY <1>1, <3>5, <3>6
    <3> QED
      BY <2>2, <3>3, <3>7 DEF Piece
  <2> QED
    BY <2>1, <2>2
<1>3. ASSUME NEW k \in 1 .. n
      PROVE  /\ pos[k] = pos[k - 1] + Len(Piece(s, u, k))
             /\ \A x \in 1 .. Len(Piece(s, u, k)) : Piece(s, u, k)[x] = path[pos[k - 1] + x]
  <2>1. /\ pos[k] = pos[k - 1] + Len(Piece(s, values, k))
        /\ \A x \in 1 .. Len(Piece(s, values, k)) : Piece(s, values, k)[x] = path[pos[k - 1] + x]
    BY DEF Reading
  <2>2. Piece(s, u, k) = Piece(s, values, k)
    BY <1>2
  <2> QED
    BY ONLY <2>1, <2>2
<1>4. pos[0] = 0 /\ (\A k \in 0 .. n : pos[k] \in 0 .. Len(path)) /\ Count(s, n) <= Len(u)
  BY <1>1 DEF Reading
<1>5. Reading(s, n, u, path, pos)
  BY ONLY <1>3, <1>4 DEF Reading
<1> QED
  BY <1>5 DEF u

\* One more character is read.
LEMMA ReadingOne ==
  ASSUME NEW s, NEW n \in Nat, NEW values, NEW path \in Seq(Characters), NEW pos,
         Reading(s, n, values, path, pos), Count(s, n + 1) <= Len(values),
         NEW y \in Seq(Characters), Piece(s, values, n + 1) = y, Within(y, path, pos[n])
  PROVE  \E q : Reading(s, n + 1, values, path, q) /\ q[n + 1] = pos[n] + Len(y)
<1> DEFINE e == pos[n] + Len(y)
           q == [k \in 0 .. n + 1 |-> IF k = n + 1 THEN e ELSE pos[k]]
<1>1. pos[n] \in 0 .. Len(path) /\ Len(y) \in Nat /\ Len(path) \in Nat
  BY DEF Reading
<1>2. e \in 0 .. Len(path) /\ \A x \in 1 .. Len(y) : y[x] = path[pos[n] + x]
  BY <1>1 DEF Within
<1>3. (\A k \in 0 .. n : q[k] = pos[k]) /\ q[n + 1] = e
  OBVIOUS
<1> HIDE DEF q, e
<1>4. q[0] = 0 /\ \A k \in 0 .. n + 1 : q[k] \in 0 .. Len(path)
  <2>1. 0 \in 0 .. n /\ \A k \in 0 .. n + 1 : k = n + 1 \/ k \in 0 .. n
    OBVIOUS
  <2> QED
    BY <1>2, <1>3, <2>1 DEF Reading
<1>5. ASSUME NEW k \in 1 .. n + 1
      PROVE  /\ q[k] = q[k - 1] + Len(Piece(s, values, k))
             /\ \A x \in 1 .. Len(Piece(s, values, k)) : Piece(s, values, k)[x] = path[q[k - 1] + x]
  <2>1. CASE k = n + 1
    <3>1. k - 1 = n /\ n \in 0 .. n
      BY <2>1
    <3>2. q[k - 1] = pos[n] /\ q[k] = pos[n] + Len(y) /\ Piece(s, values, k) = y
      BY <1>3, <2>1, <3>1 DEF e
    <3> QED
      BY <1>2, <3>2
  <2>2. CASE k # n + 1
    <3>1. k \in 1 .. n /\ k \in 0 .. n /\ k - 1 \in 0 .. n
      BY <2>2
    <3>2. q[k] = pos[k] /\ q[k - 1] = pos[k - 1]
      BY <1>3, <3>1
    <3> QED
      BY <3>1, <3>2 DEF Reading
  <2> QED
    BY <2>1, <2>2
<1>6. Reading(s, n + 1, values, path, q)
  BY <1>4, <1>5 DEF Reading
<1> QED
  BY <1>3, <1>6 DEF e

\* Ordinary characters are read as they are.
LEMMA ReadingStatic ==
  ASSUME NEW s \in Seq(Characters), NEW m \in Nat, NEW n \in Nat, m <= n, n <= Len(s),
         NEW values, NEW path \in Seq(Characters), NEW pos,
         Reading(s, m, values, path, pos), Literal(s, m, n, path, pos[m])
  PROVE  \E q : Reading(s, n, values, path, q) /\ q[n] = pos[m] + (n - m)
<1>1. /\ \A k \in m + 1 .. n : ~Special(s, k)
      /\ pos[m] + (n - m) <= Len(path)
      /\ \A x \in 1 .. n - m : s[m + x] = path[pos[m] + x]
  BY DEF Literal
<1> DEFINE S == {d \in Nat : m + d <= n =>
                   \E q : Reading(s, m + d, values, path, q) /\ q[m + d] = pos[m] + d}
<1>2. pos[m] \in 0 .. Len(path) /\ Len(path) \in Nat /\ Len(s) \in Nat
  BY DEF Reading
<1>3. 0 \in S
  <2>1. m + 0 = m /\ pos[m] + 0 = pos[m]
    BY <1>2
  <2> QED
    BY <2>1
<1>4. ASSUME NEW d \in Nat, d \in S PROVE d + 1 \in S
  <2> SUFFICES ASSUME m + (d + 1) <= n
               PROVE  \E q : /\ Reading(s, m + (d + 1), values, path, q)
                             /\ q[m + (d + 1)] = pos[m] + (d + 1)
    OBVIOUS
  <2>1. PICK q : Reading(s, m + d, values, path, q) /\ q[m + d] = pos[m] + d
    BY <1>4
  <2>2. PICK k : k = m + d
    OBVIOUS
  <2>3. /\ k \in Nat /\ m + (d + 1) = k + 1 /\ k + 1 \in m + 1 .. n /\ d + 1 \in 1 .. n - m
        /\ k + 1 \in 1 .. Len(s) /\ pos[m] + (d + 1) <= Len(path) /\ m <= k + 1 /\ m <= k
    BY <1>2, <1>1, <2>2
  <2>4. ~Special(s, k + 1) /\ s[k + 1] \in Characters /\ s[k + 1] = path[pos[m] + (d + 1)]
    BY <1>1, <2>3
  <2>5. PICK y : y = <<s[k + 1]>>
    OBVIOUS
  <2>6. y \in Seq(Characters) /\ Len(y) = 1 /\ y[1] = s[k + 1] /\ Piece(s, values, k + 1) = y
    BY <2>4, <2>5 DEF Piece
  <2>7. Count(s, k + 1) = Count(s, m)
    <3>1. k + 1 \in Nat /\ \A j \in m + 1 .. k + 1 : j \in m + 1 .. n
      BY <2>3
    <3> QED
      BY <1>1, <2>3, <3>1, CountNone
  <2>8. Count(s, k + 1) <= Len(values)
    BY <2>7 DEF Reading
  <2>9. Within(y, path, q[k]) /\ q[k] + Len(y) = pos[m] + (d + 1)
    <3>1. q[k] = pos[m] + d
      BY <2>1, <2>2
    <3>2. q[k] + 1 = pos[m] + (d + 1)
      <4>1. PICK a : a = pos[m]
        OBVIOUS
      <4>2. a \in Nat /\ q[k] = a + d
        BY <1>2, <3>1, <4>1
      <4>3. q[k] + 1 = a + (d + 1)
        BY ONLY <4>2, d \in Nat
      <4> QED
        BY <4>1, <4>3
    <3>3. \A x \in 1 .. Len(y) : x = 1
      BY <2>6
    <3> QED
      BY <2>3, <2>4, <2>6, <3>2, <3>3 DEF Within
  <2>10. \E z : Reading(s, k + 1, values, path, z) /\ z[k + 1] = q[k] + Len(y)
    <3>1. /\ Reading(s, k, values, path, q) /\ path \in Seq(Characters) /\ k \in Nat
          /\ Count(s, k + 1) <= Len(values) /\ y \in Seq(Characters)
          /\ Piece(s, values, k + 1) = y /\ Within(y, path, q[k])
      BY <2>1, <2>2, <2>3, <2>6, <2>8, <2>9
    <3> QED
      BY ONLY <3>1, ReadingOne
  <2> QED
    BY <2>3, <2>9, <2>10
<1> HIDE DEF S
<1>5. n - m \in S
  <2>1. n - m \in Nat
    OBVIOUS
  <2>2. \A d \in Nat : d \in S
    BY <1>3, <1>4, Induct
  <2> QED
    BY <2>1, <2>2
<1>6. m + (n - m) = n /\ n <= n
  OBVIOUS
<1> QED
  BY <1>5, <1>6 DEF S

\* They take one character each.
LEMMA ReadingStretch ==
  ASSUME NEW s, NEW m \in Nat, NEW n \in Nat, m <= n, \A k \in m + 1 .. n : ~Special(s, k),
         NEW values, NEW path \in Seq(Characters), NEW pos, Reading(s, n, values, path, pos)
  PROVE  pos[n] = pos[m] + (n - m)
<1> DEFINE S == {d \in Nat : m + d <= n => pos[m + d] = pos[m] + d}
<1>1. pos[m] \in 0 .. Len(path) /\ Len(path) \in Nat
  BY DEF Reading
<1>2. 0 \in S
  <2>1. m + 0 = m /\ pos[m] + 0 = pos[m]
    BY <1>1
  <2> QED
    BY <2>1
<1>3. ASSUME NEW d \in Nat, d \in S PROVE d + 1 \in S
  <2> SUFFICES ASSUME m + (d + 1) <= n PROVE pos[m + (d + 1)] = pos[m] + (d + 1)
    OBVIOUS
  <2>1. PICK k : k = m + d
    OBVIOUS
  <2>2. /\ k \in Nat /\ m + (d + 1) = k + 1 /\ k + 1 \in m + 1 .. n /\ k + 1 \in 1 .. n /\ (k + 1) - 1 = k
    BY <2>1
  <2>3. pos[k] = pos[m] + d
    BY <1>3, <2>1
  <2>4. Piece(s, values, k + 1) = <<s[k + 1]>>
    BY <2>2 DEF Piece
  <2>5. pos[k + 1] = pos[(k + 1) - 1] + Len(Piece(s, values, k + 1))
    BY <2>2 DEF Reading
  <2>6. pos[k + 1] = pos[k] + 1
    BY <2>2, <2>4, <2>5
  <2> QED
    BY <1>1, <2>2, <2>3, <2>6
<1> HIDE DEF S
<1>4. n - m \in S
  <2>1. n - m \in Nat
    OBVIOUS
  <2>2. \A d \in Nat : d \in S
    BY <1>2, <1>3, Induct
  <2> QED
    BY <2>1, <2>2
<1>5. m + (n - m) = n /\ n <= n
  OBVIOUS
<1> QED
  BY <1>4, <1>5 DEF S

-----------------------------------------------------------------------------
(* Routes and the words of nodes *)

\* The word of a node as the word of a route, and the routes with it
Sym(s, k) == IF s[k] = "*" THEN "ANY" ELSE IF Special(s, k) THEN "PARAM" ELSE s[k]
Says(s, m) == [k \in 1 .. m |-> Sym(s, k)]
Reads(rm, s) == Word(rm.ppath) = Says(s, Len(s)) /\ Len(rm.pnames) = Count(s, Len(s))
Fitting == [s \in Seq(Characters) |-> {rm \in RouteMethods : s # <<>> /\ Reads(rm, s)}]

\* How much of its node's word Find has read
Reach(w, l, f) ==
  IF l = "loop" /\ tree[f.node].kind = "static" THEN Start(w, f.node) ELSE Len(w[f.node])

\* The topic is what Find has read up to where it is, and all of the route that
\* it has matched
FindFits(w, l, f) ==
  /\ l \in {"loop", "param", "any"} =>
       /\ f.matched = NoRoute
       /\ Within(f.search, f.path, f.searchIndex)
       /\ \E pos : /\ Reading(w[f.node], Reach(w, l, f), f.pvalues, f.path, pos)
                   /\ f.searchIndex = pos[Reach(w, l, f)]
  /\ l \in {"out", "done"} /\ f.matched.handler \in AnyMethod =>
       \E s \in Seq(Characters) : \E pos :
         Reads(f.matched, s) /\ Reading(s, Len(s), f.pvalues, f.path, pos) /\ pos[Len(s)] = Len(f.path)
  /\ l = "done" /\ f.matched # NoRoute =>
       f.handler = f.matched.handler /\ f.rpath = f.matched.ppath /\ f.pnames = f.matched.pnames

\* A character of a word counts up to its end.
LEMMA CountAt ==
  ASSUME NEW s, NEW n \in Nat, NEW k \in 1 .. n, Special(s, k)
  PROVE  Count(s, k) \in 1 .. Count(s, n) /\ Count(s, n) \in Nat
<1>1. k - 1 \in Nat /\ (k - 1) + 1 = k /\ k \in Nat /\ k <= n
  OBVIOUS
<1>2. PICK a, b, d : a = Count(s, k) /\ b = Count(s, n) /\ d = Count(s, k - 1)
  OBVIOUS
<1>3. a = d + 1
  BY <1>1, <1>2, CountOne
<1>4. a \in Nat /\ b \in Nat /\ d \in Nat /\ a <= b
  BY <1>1, <1>2, CountNat, CountMono
<1>5. a \in 1 .. b
  BY ONLY <1>3, <1>4
<1> QED
  BY <1>2, <1>4, <1>5

\* A handler gets the value of a parameter by its name, if the names differ.
LEMMA ParamValue ==
  ASSUME NEW n \in Nat, DOMAIN find.pnames = 1 .. n, IsInjective(find.pnames), NEW c \in 1 .. n,
         c <= Len(find.pvalues)
  PROVE  Param(find.pnames[c]) = find.pvalues[c]
<1> DEFINE is == {i \in DOMAIN find.pnames : i <= Len(find.pvalues) /\ find.pnames[i] = find.pnames[c]}
<1>1. is = {c}
  BY DEF IsInjective
<1>2. Min({c}) = c
  <2>1. {c} \in SUBSET Nat /\ {c} # {}
    OBVIOUS
  <2> QED
    BY <2>1, MinOf
<1>3. Param(find.pnames[c]) = IF is = {} THEN <<>> ELSE find.pvalues[Min(is)]
  BY DEF Param
<1> HIDE DEF is
<1> QED
  BY <1>1, <1>2, <1>3

\* What Find has read is the route with the values of its parameters.
LEMMA FoundFits ==
  ASSUME NEW w, find \in Finds, FindFits(w, "done", find), find.handler \in AnyMethod,
         find.matched # NoRoute, IsInjective(find.pnames)
  PROVE  Filled(Word(find.rpath)) = find.path
<1>1. /\ find.path \in Seq(Characters) /\ find.pvalues \in Seq(Seq(Characters))
      /\ find.pnames \in Seq(Seq(Characters))
  BY DEF Finds
<1>2. /\ find.handler = find.matched.handler /\ find.rpath = find.matched.ppath
      /\ find.pnames = find.matched.pnames
  BY DEF FindFits
<1>3. PICK s \in Seq(Characters) : \E pos :
         /\ Reads(find.matched, s) /\ Reading(s, Len(s), find.pvalues, find.path, pos)
         /\ pos[Len(s)] = Len(find.path)
  BY <1>2 DEF FindFits
<1>4. PICK pos : /\ Reads(find.matched, s) /\ Reading(s, Len(s), find.pvalues, find.path, pos)
                 /\ pos[Len(s)] = Len(find.path)
  BY <1>3
<1>5. PICK n : n = Len(s)
  OBVIOUS
<1>6. n \in Nat
  BY <1>5
<1>7. PICK W : W = Word(find.rpath)
  OBVIOUS
<1>8. W = Says(s, n) /\ Len(find.pnames) = Count(s, n)
  BY <1>2, <1>4, <1>5, <1>7 DEF Reads
<1>9. /\ DOMAIN W = 1 .. n
      /\ \A k \in 1 .. n : W[k] \in {"PARAM", "ANY"} <=> Special(s, k)
      /\ \A k \in 1 .. n : ~Special(s, k) => W[k] = s[k]
  <2>1. ASSUME NEW k \in 1 .. n
        PROVE  (W[k] \in {"PARAM", "ANY"} <=> Special(s, k)) /\ (~Special(s, k) => W[k] = s[k])
    <3>1. s[k] \in Characters /\ s[k] \notin {"PARAM", "ANY"}
      BY <1>5, PathsAssumption
    <3>2. W[k] = IF s[k] = "*" THEN "ANY" ELSE IF Special(s, k) THEN "PARAM" ELSE s[k]
      BY <1>5, <1>8 DEF Says, Sym
    <3>3. s[k] = "*" => Special(s, k)
      BY DEF Special
    <3> QED
      BY <3>1, <3>2, <3>3
  <2> QED
    BY <1>5, <1>8, <2>1 DEF Says, Sym
<1> DEFINE C(i) == Cardinality({j \in 1 .. i : W[j] \in {"PARAM", "ANY"}})
           ss == [i \in DOMAIN W |-> IF W[i] \in {"PARAM", "ANY"} THEN Param(find.pnames[C(i)]) ELSE <<W[i]>>]
<1>10. Filled(W) = FlattenSeq(ss)
  BY DEF Filled
<1>11. ASSUME NEW k \in 1 .. n
       PROVE  /\ ss[k] = Piece(s, find.pvalues, k) /\ ss[k] \in Seq(Characters)
  <2>1. C(k) = Count(s, k)
    <3>1. \A j \in 1 .. k : j \in 1 .. n
      BY <1>6
    <3>2. {j \in 1 .. k : W[j] \in {"PARAM", "ANY"}} = {j \in 1 .. k : Special(s, j)}
      BY <1>9, <3>1
    <3> QED
      BY <3>2 DEF Count
  <2> HIDE DEF C
  <2>2. ss[k] = IF W[k] \in {"PARAM", "ANY"} THEN Param(find.pnames[C(k)]) ELSE <<W[k]>>
    BY <1>9
  <2> HIDE DEF ss
  <2>3. CASE Special(s, k)
    <3>1. PICK c : c = Count(s, k)
      OBVIOUS
    <3>2. c \in 1 .. Count(s, n) /\ Count(s, n) \in Nat
      BY <1>6, <2>3, <3>1, CountAt
    <3>3. Count(s, n) <= Len(find.pvalues)
      BY <1>4, <1>5 DEF Reading
    <3>4. c \in 1 .. Len(find.pvalues) /\ c <= Len(find.pvalues)
      BY <1>1, <3>2, <3>3
    <3>5. DOMAIN find.pnames = 1 .. Count(s, n)
      BY <1>1, <1>8
    <3>6. Param(find.pnames[c]) = find.pvalues[c]
      BY <3>2, <3>4, <3>5, ParamValue
    <3>7. find.pvalues[c] \in Seq(Characters)
      BY <1>1, <3>4
    <3> QED
      BY <1>9, <2>1, <2>2, <2>3, <3>1, <3>6, <3>7 DEF Piece
  <2>4. CASE ~Special(s, k)
    <3>1. s[k] \in Characters /\ ss[k] = <<s[k]>> /\ Piece(s, find.pvalues, k) = <<s[k]>>
      BY <1>5, <1>9, <2>2, <2>4 DEF Piece
    <3> QED
      BY <3>1
  <2> QED
    BY <2>3, <2>4
<1>12. DOMAIN ss = 1 .. n
  BY <1>9
<1> HIDE DEF ss
<1>13. ss \in Seq(Seq(Characters)) /\ Len(ss) = n
  <2>1. ss = [k \in 1 .. n |-> ss[k]]
    BY <1>12 DEF ss
  <2>2. ss \in [1 .. n -> Seq(Characters)]
    BY <1>11, <2>1
  <2> QED
    BY <1>6, <2>2
<1>14. /\ pos[0] = 0 /\ pos[n] = Len(find.path) /\ \A k \in 0 .. n : pos[k] \in 0 .. Len(find.path)
       /\ \A k \in 1 .. n : /\ ss[k] \in Seq(Characters) /\ pos[k] = pos[k - 1] + Len(ss[k])
                            /\ \A x \in 1 .. Len(ss[k]) : ss[k][x] = find.path[pos[k - 1] + x]
  BY <1>4, <1>5, <1>11 DEF Reading
<1>15. CASE n = 0
  <2>1. ss = <<>> /\ find.path = <<>>
    BY <1>1, <1>13, <1>14, <1>15
  <2>2. FlattenSeq(ss) = ss
    BY <1>13, <1>15 DEF FlattenSeq
  <2> QED
    BY <1>7, <1>10, <2>1, <2>2
<1>16. CASE n # 0
  <2>1. FlattenSeq(ss) = find.path
    BY <1>1, <1>6, <1>13, <1>14, <1>16, FlattenPath
  <2> QED
    BY <1>7, <1>10, <2>1
<1> QED
  BY <1>15, <1>16

-----------------------------------------------------------------------------
(* The steps of Find *)

\* Parts of what is left.
LEMMA WithinParts ==
  ASSUME NEW y \in Seq(Characters), NEW p \in Seq(Characters), NEW a \in Nat, Within(y, p, a),
         NEW n \in 0 .. Len(y)
  PROVE  Within(Take(y, n), p, a) /\ Within(Drop(y, n), p, a + n)
<1>1. /\ a + Len(y) <= Len(p) /\ \A x \in 1 .. Len(y) : y[x] = p[a + x]
      /\ Len(y) \in Nat /\ Len(p) \in Nat
  BY DEF Within
<1>2. Within(Take(y, n), p, a)
  <2>1. Len(Take(y, n)) = n /\ \A k \in 1 .. n : Take(y, n)[k] = y[k]
    BY TakeFacts
  <2>2. a + n <= Len(p) /\ \A k \in 1 .. n : k \in 1 .. Len(y)
    BY <1>1
  <2> QED
    BY <1>1, <2>1, <2>2 DEF Within
<1>3. Within(Drop(y, n), p, a + n)
  <2>1. Len(Drop(y, n)) = Len(y) - n /\ \A k \in 1 .. Len(y) - n : Drop(y, n)[k] = y[n + k]
    BY DropFacts
  <2>2. (a + n) + (Len(y) - n) <= Len(p)
    BY <1>1
  <2>3. \A k \in 1 .. Len(y) - n : n + k \in 1 .. Len(y) /\ a + (n + k) = (a + n) + k
    BY <1>1
  <2>4. \A k \in 1 .. Len(y) - n : Drop(y, n)[k] = p[(a + n) + k]
    BY <1>1, <2>1, <2>3
  <2> QED
    BY <2>1, <2>2, <2>4 DEF Within
<1> QED
  BY <1>2, <1>3

\* A prefix has the first characters.
LEMMA PrefixAgrees ==
  ASSUME NEW s \in Seq(Characters), NEW t \in Seq(Characters), IsPrefix(s, t)
  PROVE  Len(s) <= Len(t) /\ Agree(s, t, Len(s))
<1>1. Len(s) <= Len(t) /\ SubSeq(s, 1, Len(s)) = SubSeq(t, 1, Len(s))
  BY DEF IsPrefix
<1>2. Len(s) \in 0 .. Len(s) /\ Len(s) \in 0 .. Len(t)
  BY <1>1
<1>3. \A k \in 1 .. Len(s) : Take(s, Len(s))[k] = s[k] /\ Take(t, Len(s))[k] = t[k]
  BY <1>2, TakeFacts
<1> QED
  BY <1>1, <1>3 DEF Agree, Take

\* What Find relies on, and where it goes.
Searching(w) == SegInv(w) /\ FindOK(pc, find) /\ FindAt(w, pc, find) /\ FindFits(w, pc, find)
Arriving(w) == FindOK(pc', find') /\ FindAt(w, pc', find')

\* After a node that matches, Find has read all of its word.
LEMMA AdvancedFits ==
  ASSUME NEW w, Searching(w), pc = "loop", IsPrefix(Matched, find.search)
  PROVE  /\ Advanced \in Finds /\ Advanced.node = find.node /\ find.node \in DOMAIN tree
         /\ Advanced.pvalues = find.pvalues /\ Advanced.path = find.path
         /\ Advanced.search = Rest /\ Advanced.matched = NoRoute
         /\ Advanced.handler = find.handler /\ Advanced.method = find.method
         /\ Advanced.searchIndex + Len(Rest) = Len(find.path)
         /\ Within(Rest, find.path, Advanced.searchIndex)
         /\ \E pos : /\ Reading(w[find.node], Len(w[find.node]), find.pvalues, find.path, pos)
                     /\ Advanced.searchIndex = pos[Len(w[find.node])]
<1>1. /\ TypeInv /\ LinkInv /\ WordInv(w) /\ KindsOf(tree, w) /\ find \in Finds
      /\ FindOK(pc, find) /\ FindFits(w, "loop", find)
  BY DEF Searching, SegInv, Inv, TypeInv
<1>2. PICK i : i = find.node
  OBVIOUS
<1>3. /\ i \in DOMAIN tree /\ Here = tree[i] /\ Here \in Nodes /\ Matched \in Seq(Characters)
      /\ Len(Matched) <= Len(find.search) /\ Advanced \in Finds /\ Advanced.node = find.node
      /\ Advanced.path = find.path /\ Advanced.method = find.method
      /\ Advanced.searchIndex + Len(Advanced.search) = Len(Advanced.path)
  BY <1>1, <1>2, MatchFacts
<1>4. /\ Advanced.pvalues = find.pvalues /\ Advanced.search = Rest /\ Advanced.matched = NoRoute
      /\ Advanced.searchIndex = find.searchIndex + Len(Matched) /\ Advanced.handler = find.handler
  BY <1>1 DEF Advanced, Finds, FindFits
<1>5. /\ find.search \in Seq(Characters) /\ find.path \in Seq(Characters) /\ find.searchIndex \in Nat
      /\ find.pvalues \in Seq(Seq(Characters)) /\ Len(find.search) \in Nat /\ Len(find.path) \in Nat
  BY <1>1, FindFacts
<1>6. Within(find.search, find.path, find.searchIndex)
  BY <1>1 DEF FindFits
<1>7. Len(Matched) \in 0 .. Len(find.search)
  BY <1>3, <1>5
<1>8. Within(Rest, find.path, Advanced.searchIndex)
  BY <1>4, <1>5, <1>6, <1>7, WithinParts DEF Rest
<1>9. PICK pos : /\ Reading(w[i], Reach(w, "loop", find), find.pvalues, find.path, pos)
                 /\ find.searchIndex = pos[Reach(w, "loop", find)]
  BY <1>1, <1>2 DEF FindFits
<1>10. CASE Here.kind # "static"
  <2>1. Reach(w, "loop", find) = Len(w[i])
    BY <1>2, <1>3, <1>10 DEF Reach
  <2>2. Len(Matched) = 0
    BY <1>10 DEF Matched
  <2>3. Advanced.searchIndex = find.searchIndex
    BY <1>4, <1>5, <2>2
  <2> QED
    BY <1>2, <1>3, <1>4, <1>8, <1>9, <2>1, <2>3
<1>11. CASE Here.kind = "static"
  <2>1. Reach(w, "loop", find) = Start(w, i)
    BY <1>2, <1>3, <1>11 DEF Reach
  <2>2. PICK m, n : m = Start(w, i) /\ n = Len(w[i])
    OBVIOUS
  <2>3. /\ m \in Nat /\ n \in Nat /\ m <= n /\ w[i] \in Seq(Characters)
    BY <1>1, <1>3, <2>2, StartFacts
  <2>4. Matched = tree[i].prefix
    BY <1>3, <1>11 DEF Matched
  <2>5. n - m = Len(Matched) /\ Len(Matched) \in Nat
    BY <1>3, <2>2, <2>3, <2>4 DEF Start, StartIn
  <2>6. \A k \in m + 1 .. n : ~Special(w[i], k)
    BY <1>1, <1>3, <1>11, <2>2 DEF KindsOf, Start
  <2>7. \A x \in 1 .. Len(Matched) : Matched[x] = w[i][m + x]
    BY <1>1, <1>3, <2>2, <2>4 DEF WordInv, WordsOf, Start
  <2>8. \A x \in 1 .. Len(Matched) : Matched[x] = find.search[x]
    BY <1>3, <1>5, PrefixAgrees DEF Agree
  <2>9. \A x \in 1 .. n - m : w[i][m + x] = find.path[pos[m] + x]
    <3>1. \A x \in 1 .. n - m : x \in 1 .. Len(Matched) /\ x \in 1 .. Len(find.search)
      BY <1>3, <1>5, <2>5
    <3>2. find.searchIndex = pos[m]
      BY <1>9, <2>1, <2>2
    <3> QED
      BY <1>6, <2>7, <2>8, <3>1, <3>2 DEF Within
  <2>10. pos[m] + (n - m) <= Len(find.path) /\ pos[m] + (n - m) = Advanced.searchIndex
    <3>1. find.searchIndex = pos[m] /\ find.searchIndex + Len(find.search) <= Len(find.path)
      BY <1>6, <1>9, <2>1, <2>2 DEF Within
    <3> QED
      BY <1>3, <1>4, <1>5, <2>5, <3>1
  <2>11. Reading(w[i], m, find.pvalues, find.path, pos) /\ n <= Len(w[i])
    BY <1>9, <2>1, <2>2, <2>3
  <2>12. \E q : Reading(w[i], n, find.pvalues, find.path, q) /\ q[n] = pos[m] + (n - m)
    <3>1. PICK s, p, vs : s = w[i] /\ p = find.path /\ vs = find.pvalues
      OBVIOUS
    <3>2. Literal(s, m, n, p, pos[m])
      BY <2>6, <2>9, <2>10, <3>1 DEF Literal
    <3>3. /\ s \in Seq(Characters) /\ m \in Nat /\ n \in Nat /\ m <= n /\ n <= Len(s)
          /\ p \in Seq(Characters) /\ Reading(s, m, vs, p, pos)
      BY <1>5, <2>3, <2>11, <3>1
    <3>4. \E q : Reading(s, n, vs, p, q) /\ q[n] = pos[m] + (n - m)
      BY ONLY <3>2, <3>3, ReadingStatic
    <3> QED
      BY <3>1, <3>4
  <2> QED
    BY <1>2, <1>3, <1>4, <1>8, <2>2, <2>10, <2>12
<1> QED
  BY <1>10, <1>11

\* The parent's word is read if the node's is read up to where its part starts.
LEMMA ReadingKid ==
  ASSUME NEW w, SegInv(w), NEW i \in DOMAIN tree, NEW c \in Kids(tree[i]),
         NEW values, NEW path, NEW pos
  PROVE  /\ Start(w, c) = Len(w[i])
         /\ Reading(w[c], Start(w, c), values, path, pos) <=> Reading(w[i], Len(w[i]), values, path, pos)
<1>1. /\ w[i] \in Seq(Characters) /\ Start(w, c) = Len(w[i]) /\ Agree(w[i], w[c], Len(w[i]))
  BY KidFacts DEF SegInv, Inv
<1>2. Agree(w[c], w[i], Len(w[i])) /\ Len(w[i]) \in Nat
  BY <1>1, AgreeSym
<1> QED
  BY <1>1, <1>2, ReadingAgree

\* Find goes on with what is read, or has matched a node's route.
LEMMA LoopFits ==
  ASSUME NEW w, Searching(w), Arriving(w), \A i \in DOMAIN tree : OwnsAll(Fitting[w[i]], tree[i]),
         LoopBacktracks \/ LoopMatches \/ LoopPasses \/ LoopDescends
  PROVE  FindFits(w, pc', find')
<1>1. pc = "loop"
  BY DEF LoopBacktracks, LoopMatches, LoopPasses, LoopDescends, AtEnd
<1>2. /\ TypeInv /\ LinkInv /\ WordInv(w) /\ KindsOf(tree, w) /\ find \in Finds /\ SegInv(w)
      /\ FindOK(pc, find) /\ FindFits(w, "loop", find)
  BY <1>1 DEF Searching, SegInv, Inv, TypeInv
<1>3. /\ find.node \in DOMAIN tree /\ Here = tree[find.node] /\ Here \in Nodes
      /\ find.method \in Methods /\ w[find.node] \in Seq(Characters)
  BY <1>1, <1>2, MatchFacts, ParamsNat DEF FindOK
<1>4. find.matched = NoRoute /\ Within(find.search, find.path, find.searchIndex)
  BY <1>2 DEF FindFits
<1>5. NoRoute.handler \notin AnyMethod
  BY OwnAnswers DEF NoRoute, EmptyRoute
<1>6. CASE LoopBacktracks
  <2>1. PICK i : i = Here.parent
    OBVIOUS
  <2>2. pc' = (IF i = NoNode THEN "done" ELSE "param") /\ find' = [find EXCEPT !.node = i]
    BY <1>6, <2>1 DEF LoopBacktracks, Goes
  <2>3. /\ find'.node = i /\ find'.pvalues = find.pvalues /\ find'.search = find.search
        /\ find'.searchIndex = find.searchIndex /\ find'.path = find.path /\ find'.matched = find.matched
    BY <1>2, <2>2 DEF Finds
  <2>4. CASE i = NoNode
    BY <1>4, <1>5, <2>2, <2>3, <2>4 DEF FindFits
  <2>5. CASE i # NoNode
    <3>1. Here.kind = "static"
      <4> SUFFICES ASSUME Here.kind # "static" PROVE IsPrefix(Matched, find.search)
        BY <1>6 DEF LoopBacktracks
      <4>1. Matched = <<>> /\ Len(find.search) \in Nat
        BY <1>2, FindFacts DEF Matched
      <4>2. PICK s \in Seq(Characters) : s = find.search
        BY <1>2, FindFacts
      <4>3. Len(<<>>) <= Len(s) /\ SubSeq(<<>>, 1, Len(<<>>)) = SubSeq(s, 1, Len(<<>>))
        OBVIOUS
      <4> QED
        BY <4>1, <4>2, <4>3 DEF IsPrefix
    <3>2. i \in DOMAIN tree /\ find.node \in Kids(tree[i])
      BY <1>2, <1>3, <2>1, <2>5 DEF LinkInv
    <3>3. Reach(w, "loop", find) = Start(w, find.node) /\ Reach(w, "param", find') = Len(w[i])
      BY <1>3, <2>3, <3>1 DEF Reach
    <3>4. PICK pos : /\ Reading(w[find.node], Start(w, find.node), find.pvalues, find.path, pos)
                     /\ find.searchIndex = pos[Start(w, find.node)]
      BY <1>2, <3>3 DEF FindFits
    <3>5. Reading(w[i], Len(w[i]), find.pvalues, find.path, pos) /\ find.searchIndex = pos[Len(w[i])]
      BY <1>2, <3>2, <3>4, ReadingKid
    <3> QED
      BY <1>4, <2>2, <2>3, <2>5, <3>3, <3>5 DEF FindFits
  <2> QED
    BY <2>4, <2>5
<1>7. CASE LoopMatches
  <2>1. IsPrefix(Matched, find.search) /\ Rest = <<>>
    BY <1>7 DEF LoopMatches, AtEnd
  <2>2. PICK pos : /\ Reading(w[find.node], Len(w[find.node]), find.pvalues, find.path, pos)
                   /\ Advanced.searchIndex = pos[Len(w[find.node])]
    BY <1>1, <2>1, AdvancedFits
  <2>3. /\ Advanced \in Finds /\ Advanced.pvalues = find.pvalues /\ Advanced.path = find.path
        /\ Advanced.searchIndex + Len(Rest) = Len(find.path)
    BY <1>1, <2>1, AdvancedFits
  <2>4. pos[Len(w[find.node])] = Len(find.path)
    <3>1. Advanced.searchIndex \in Nat
      BY <2>3 DEF Finds
    <3> QED
      BY <2>1, <2>2, <2>3, <3>1
  <2>5. PICK rm, m : /\ pc' = "out" /\ find'.matched = rm /\ find'.pvalues = find.pvalues
                     /\ find'.path = find.path /\ Owns(Fitting[w[find.node]], rm, m)
    <3>1. CASE Goes("out", [Advanced EXCEPT !.best = FirstBest(find),
                                           !.matched = Here.methods[find.method]])
      BY <1>3, <2>3, <3>1 DEF Goes, Finds, OwnsAll
    <3>2. CASE Goes("out", [Advanced EXCEPT !.matched = Here.notFound])
      BY <1>3, <2>3, <3>2 DEF Goes, Finds, OwnsAll
    <3> QED
      BY <1>7, <3>1, <3>2 DEF LoopMatches
  <2>6. rm.handler \in AnyMethod => Reads(rm, w[find.node])
    BY <1>3, <2>5, OwnAnswers DEF Owns, Fitting
  <2> QED
    BY <1>3, <2>2, <2>4, <2>5, <2>6 DEF FindFits
<1>8. CASE LoopPasses \/ LoopDescends
  <2>1. IsPrefix(Matched, find.search)
    BY <1>8 DEF LoopPasses, LoopDescends, AtEnd
  <2>2. PICK pos : /\ Reading(w[find.node], Len(w[find.node]), find.pvalues, find.path, pos)
                   /\ Advanced.searchIndex = pos[Len(w[find.node])]
    BY <1>1, <2>1, AdvancedFits
  <2>3. /\ Advanced \in Finds /\ Advanced.pvalues = find.pvalues /\ Advanced.path = find.path
        /\ Advanced.search = Rest /\ Advanced.matched = NoRoute /\ Advanced.node = find.node
        /\ Within(Rest, find.path, Advanced.searchIndex)
    BY <1>1, <2>1, AdvancedFits
  <2>4. ASSUME NEW f, f.node = find.node, f.pvalues = find.pvalues, f.path = find.path, f.search = Rest,
               f.searchIndex = Advanced.searchIndex, f.matched = NoRoute
        PROVE  FindFits(w, "param", f)
    <3>1. Reach(w, "param", f) = Len(w[find.node])
      BY <2>4 DEF Reach
    <3> QED
      BY <2>2, <2>3, <2>4, <3>1 DEF FindFits
  <2>5. CASE LoopPasses
    <3>1. PICK b : Goes("param", [Advanced EXCEPT !.best = b])
      BY <2>5 DEF LoopPasses
    <3>2. /\ find'.node = find.node /\ find'.pvalues = find.pvalues /\ find'.path = find.path
          /\ find'.search = Rest /\ find'.searchIndex = Advanced.searchIndex /\ find'.matched = NoRoute
          /\ pc' = "param"
      BY <2>3, <3>1 DEF Goes, Finds
    <3> QED
      BY <2>4, <3>2
  <2>6. CASE LoopDescends
    <3>1. PICK c : c = StaticChild(Here, Rest[1])
      OBVIOUS
    <3>2. CASE c = NoNode
      <4>1. pc' = "param" /\ find' = Advanced
        BY <2>6, <3>1, <3>2 DEF LoopDescends, Goes
      <4> QED
        BY <2>3, <2>4, <4>1
    <3>3. CASE c # NoNode
      <4>1. pc' = "loop" /\ find' = [Advanced EXCEPT !.node = c]
        BY <2>6, <3>1, <3>3 DEF LoopDescends, Goes
      <4>2. c \in Here.statics
        BY <3>1, <3>3 DEF StaticChild
      <4>3. c \in Kids(tree[find.node]) /\ tree[c].kind = "static"
        BY <1>2, <1>3, <4>2 DEF Kids, KindsOf
      <4>4. /\ find'.node = c /\ find'.pvalues = find.pvalues /\ find'.path = find.path
            /\ find'.search = Rest /\ find'.searchIndex = Advanced.searchIndex /\ find'.matched = NoRoute
        BY <2>3, <4>1 DEF Finds
      <4>5. Reach(w, "loop", find') = Start(w, c)
        BY <4>3, <4>4 DEF Reach
      <4>6. /\ Reading(w[c], Start(w, c), find.pvalues, find.path, pos)
            /\ Advanced.searchIndex = pos[Start(w, c)]
        BY <1>2, <1>3, <2>2, <4>3, ReadingKid
      <4> QED
        BY <2>3, <4>1, <4>4, <4>5, <4>6 DEF FindFits
    <3> QED
      BY <3>2, <3>3
  <2> QED
    BY <1>8, <2>5, <2>6
<1> QED
  BY <1>6, <1>7, <1>8

\* A parameter or a wildcard below a node takes a value.
LEMMA KidTakes ==
  ASSUME NEW w, SegInv(w), NEW i \in DOMAIN tree, NEW c \in Kids(tree[i]), tree[c].kind # "static",
         NEW values, NEW path \in Seq(Characters), NEW pos,
         Reading(w[i], Len(w[i]), values, path, pos), Params(w, c) <= Len(values),
         NEW y \in Seq(Characters), values[Params(w, c)] = y, Within(y, path, pos[Len(w[i])])
  PROVE  \E q : /\ Reading(w[c], Len(w[c]), values, path, q)
                /\ q[Len(w[c])] = pos[Len(w[i])] + Len(y)
<1>1. /\ c \in DOMAIN tree /\ w[c] \in Seq(Characters) /\ w[i] \in Seq(Characters)
      /\ Start(w, c) = Len(w[i])
  BY KidFacts DEF SegInv, Inv
<1>2. PICK s, n : s = w[c] /\ n = Len(w[i])
  OBVIOUS
<1>3. n \in Nat /\ Len(s) = n + 1 /\ Special(s, n + 1)
  <2>1. Len(tree[c].prefix) = 1 /\ Special(w[c], Len(w[c]))
    BY <1>1 DEF SegInv, KindsOf
  <2>2. Len(w[c]) - 1 = Len(w[i]) /\ Len(w[c]) \in Nat /\ Len(w[i]) \in Nat
    BY <1>1, <2>1 DEF Start, StartIn
  <2> QED
    BY <1>2, <2>1, <2>2
<1>4. Reading(s, n, values, path, pos)
  <2>1. Reading(w[c], Start(w, c), values, path, pos)
    BY ReadingKid
  <2> QED
    BY <1>1, <1>2, <2>1
<1>5. /\ n \in Nat /\ path \in Seq(Characters) /\ Reading(s, n, values, path, pos)
      /\ Count(s, n + 1) <= Len(values) /\ y \in Seq(Characters)
      /\ Piece(s, values, n + 1) = y /\ Within(y, path, pos[n])
  BY <1>2, <1>3, <1>4 DEF Params, Piece
<1>6. \E q : Reading(s, n + 1, values, path, q) /\ q[n + 1] = pos[n] + Len(y)
  BY ONLY <1>5, ReadingOne
<1> QED
  BY <1>2, <1>3, <1>6

\* What is read up to the node above.
LEMMA KidGives ==
  ASSUME NEW w, SegInv(w), NEW i \in DOMAIN tree, NEW c \in Kids(tree[i]),
         NEW values \in Seq(Seq(Characters)), NEW path \in Seq(Characters), NEW pos,
         Reading(w[c], Len(w[c]), values, path, pos)
  PROVE  /\ Reading(w[i], Len(w[i]), values, path, pos)
         /\ pos[Len(w[i])] \in 0 .. Len(path)
         /\ tree[c].kind = "static" => pos[Len(w[c])] = pos[Len(w[i])] + Len(tree[c].prefix)
         /\ tree[c].kind # "static" =>
              /\ pos[Len(w[c])] = pos[Len(w[i])] + Len(values[Params(w, c)])
              /\ Params(w, c) \in DOMAIN values
              /\ Reading(w[i], Len(w[i]), [values EXCEPT ![Params(w, c)] = <<>>], path, pos)
<1>1. /\ c \in DOMAIN tree /\ w[c] \in Seq(Characters) /\ w[i] \in Seq(Characters)
      /\ Start(w, c) = Len(w[i]) /\ Len(w[c]) > Len(w[i])
  BY KidFacts DEF SegInv, Inv
<1>2. PICK s, m, n : s = w[c] /\ n = Len(w[c]) /\ m = Len(w[i])
  OBVIOUS
<1>3. n \in Nat /\ m \in Nat /\ m < n /\ n - m = Len(tree[c].prefix)
  <2>1. Len(w[c]) \in Nat /\ Len(w[i]) \in Nat
    BY <1>1
  <2>2. tree[c].prefix \in Seq(Characters)
    BY KidFacts DEF SegInv, Inv
  <2>3. PICK l : l = Len(tree[c].prefix)
    OBVIOUS
  <2>4. l \in Nat
    BY <2>2, <2>3
  <2>5. Len(w[c]) - l = Len(w[i])
    BY <1>1, <2>3 DEF Start, StartIn
  <2>6. n \in Nat /\ m \in Nat /\ n - l = m /\ m < n
    BY <1>1, <1>2, <2>1, <2>5
  <2>7. n - m = l
    BY ONLY <2>4, <2>6
  <2> QED
    BY <2>3, <2>6, <2>7
<1>4. Reading(s, n, values, path, pos) /\ m <= n
  BY <1>2, <1>3
<1>5. Reading(s, m, values, path, pos)
  BY <1>3, <1>4, ReadingLess
<1>6. Reading(w[i], m, values, path, pos)
  BY <1>1, <1>2, <1>5, ReadingKid
<1>7. pos[m] \in 0 .. Len(path)
  BY <1>3, <1>5 DEF Reading
<1>8. CASE tree[c].kind = "static"
  <2>1. \A k \in m + 1 .. n : ~Special(s, k)
    BY <1>1, <1>2, <1>8 DEF SegInv, KindsOf, Start
  <2>2. pos[n] = pos[m] + (n - m)
    BY <1>3, <1>4, <2>1, ReadingStretch
  <2> QED
    BY <1>2, <1>3, <1>6, <1>7, <1>8, <2>2
<1>9. CASE tree[c].kind # "static"
  <2>1. Len(tree[c].prefix) = 1 /\ Special(s, n)
    BY <1>1, <1>2, <1>9 DEF SegInv, KindsOf
  <2>2. n = m + 1 /\ n \in 1 .. n /\ n - 1 = m
    BY <1>3, <2>1
  <2>3. PICK d : d = Count(s, n)
    OBVIOUS
  <2>4. d = Params(w, c)
    BY <1>2, <2>3 DEF Params
  <2>5. pos[n] = pos[m] + Len(values[d])
    <3>1. pos[n] = pos[n - 1] + Len(Piece(s, values, n))
      BY <1>4, <2>2 DEF Reading
    <3> QED
      BY <2>1, <2>2, <2>3, <3>1 DEF Piece
  <2>6. d \in 1 .. Len(values) /\ d > Count(w[i], m)
    <3>1. Count(s, m) \in Nat /\ Count(s, n) = Count(s, m) + 1
      BY <1>3, <2>1, <2>2, CountOne, CountNat
    <3>2. Count(w[i], m) = Count(s, m)
      <4>1. Agree(w[i], s, m)
        BY <1>2, KidFacts DEF SegInv, Inv
      <4> QED
        BY <1>3, <4>1, CountAgree
    <3>3. Count(s, n) <= Len(values) /\ Len(values) \in Nat
      BY <1>4 DEF Reading
    <3> QED
      BY <2>3, <3>1, <3>2, <3>3
  <2>7. d \in DOMAIN values
    BY <2>6
  <2>8. Reading(w[i], m, [values EXCEPT ![d] = <<>>], path, pos)
    BY <1>3, <1>6, <2>6, <2>7, ReadingValues
  <2> QED
    BY <1>2, <1>6, <1>7, <1>9, <2>4, <2>5, <2>7, <2>8
<1> QED
  BY <1>8, <1>9

\* A parameter takes its value.
LEMMA ParamFits ==
  ASSUME NEW w, Searching(w), Arriving(w), ParamTakes \/ ParamPasses
  PROVE  FindFits(w, pc', find')
<1>1. pc = "param"
  BY DEF ParamTakes, ParamPasses
<1>2. /\ TypeInv /\ LinkInv /\ WordInv(w) /\ KindsOf(tree, w) /\ find \in Finds /\ SegInv(w)
      /\ Walking(w, "param", find) /\ FindFits(w, "param", find) /\ maxParam \in Nat
  BY <1>1 DEF Searching, SegInv, Inv, TypeInv, FindAt
<1>3. PICK i : i = find.node
  OBVIOUS
<1>4. find.matched = NoRoute /\ Within(find.search, find.path, find.searchIndex)
  BY <1>2 DEF FindFits
<1>5. Reach(w, "param", find) = Len(w[i]) /\ Reach(w, "any", find) = Len(w[i])
  BY <1>3 DEF Reach
<1>6. PICK pos : /\ Reading(w[i], Len(w[i]), find.pvalues, find.path, pos)
                 /\ find.searchIndex = pos[Len(w[i])]
  BY <1>2, <1>3, <1>5 DEF FindFits
<1>7. CASE ParamPasses
  <2>1. pc' = "any" /\ find' = find
    BY <1>7 DEF ParamPasses, Goes
  <2> QED
    BY <1>3, <1>4, <1>5, <1>6, <2>1 DEF FindFits
<1>8. CASE ParamTakes
  <2>1. PICK c : c = Here.param
    OBVIOUS
  <2>2. PICK x : x = IF tree[c].isLeaf THEN Len(find.search) ELSE Next1(find.search, 1, {"/"}) - 1
    OBVIOUS
  <2>3. PICK p : p = find.paramIndex + 1
    OBVIOUS
  <2>4. i \in DOMAIN tree /\ c \in Kids(tree[i]) /\ c # NoNode /\ tree[c].kind = "param"
    BY <1>2, <1>3, <1>8, <2>1 DEF Walking, ParamTakes, Here, Kids, KindsOf
  <2>5. /\ find.search \in Seq(Characters) /\ find.searchIndex \in Nat /\ Len(find.search) \in Nat
        /\ find.pvalues \in Seq(Seq(Characters)) /\ find.paramIndex \in Nat /\ find.path \in Seq(Characters)
    BY <1>2, FindFacts
  <2>6. x \in 0 .. Len(find.search)
    <3>1. 1 \in Nat \ {0}
      OBVIOUS
    <3>2. Next1(find.search, 1, {"/"}) \in 1 .. Len(find.search) + 1
      BY <2>5, <3>1, Next1Facts
    <3> QED
      BY <2>2, <2>5, <3>2
  <2>7. c \in DOMAIN tree /\ Params(w, c) = Params(w, i) + 1 /\ Params(w, i) \in Nat
    BY <1>2, <2>4, KidFacts, KidParams
  <2>8. p = Params(w, c) /\ p \in DOMAIN find.pvalues /\ ~(p > Len(find.pvalues))
    <3>1. p = Params(w, c) /\ p <= maxParam /\ Len(find.pvalues) = maxParam /\ p \in Nat /\ p >= 1
      BY <1>1, <1>2, <1>3, <2>3, <2>7, EnoughRoom DEF Walking
    <3> QED
      BY <1>2, <2>5, <3>1
  <2>9. PICK y : y = Take(find.search, x)
    OBVIOUS
  <2>10. y \in Seq(Characters) /\ Len(y) = x /\ Within(y, find.path, find.searchIndex)
         /\ Within(Drop(find.search, x), find.path, find.searchIndex + x)
    BY <1>4, <2>5, <2>6, <2>9, TakeFacts, WithinParts
  <2>11. PICK v : v = [find.pvalues EXCEPT ![p] = y]
    OBVIOUS
  <2>12. /\ pc' = "loop" /\ find' = [find EXCEPT !.node = c, !.pvalues[p] = Take(find.search, x),
                                 !.paramIndex = p, !.searchIndex = @ + x,
                                 !.search = Drop(find.search, x)]
    BY <1>8, <2>1, <2>2, <2>3, <2>8 DEF ParamTakes, Goes
  <2>13. /\ find'.node = c /\ find'.pvalues = v /\ find'.path = find.path
         /\ find'.searchIndex = find.searchIndex + x /\ find'.search = Drop(find.search, x)
         /\ find'.matched = find.matched
    BY <1>2, <2>9, <2>12, <2>11 DEF Finds
  <2>14. PICK q : /\ Reading(w[c], Len(w[c]), v, find.path, q)
                  /\ q[Len(w[c])] = pos[Len(w[i])] + Len(y)
    <3>1. v[p] = y /\ Len(v) = Len(find.pvalues)
      BY <2>5, <2>8, <2>10, <2>11
    <3>2. Reading(w[i], Len(w[i]), v, find.path, pos)
      <4>1. Len(w[i]) \in Nat /\ p > Count(w[i], Len(w[i]))
        BY <1>2, <2>4, <2>7, <2>8, ParamsNat DEF Params
      <4>2. Reading(w[i], Len(w[i]), [find.pvalues EXCEPT ![p] = y], find.path, pos)
        BY <1>6, <2>5, <2>8, <4>1, ReadingValues
      <4> QED
        BY <2>11, <4>2
    <3>3. Params(w, c) <= Len(v)
      <4>1. Len(find.pvalues) \in Nat
        BY <2>5
      <4> QED
        BY <2>5, <2>8, <3>1, <4>1
    <3>4. /\ SegInv(w) /\ i \in DOMAIN tree /\ c \in Kids(tree[i]) /\ tree[c].kind # "static"
          /\ find.path \in Seq(Characters) /\ y \in Seq(Characters) /\ v[Params(w, c)] = y
          /\ Within(y, find.path, pos[Len(w[i])])
      BY <1>2, <1>6, <2>4, <2>5, <2>8, <2>10, <3>1
    <3> QED
      BY ONLY <3>2, <3>3, <3>4, KidTakes
  <2>15. Reach(w, "loop", find') = Len(w[c])
    BY <2>4, <2>13 DEF Reach
  <2> QED
    BY <1>4, <1>6, <2>10, <2>12, <2>13, <2>14, <2>15 DEF FindFits
<1> QED
  BY <1>7, <1>8

\* Nothing matched is nothing to fit.
LEMMA OutFits ==
  ASSUME NEW w, NEW l, NEW f, l \notin {"loop", "param", "any"}, f.matched = NoRoute
  PROVE  FindFits(w, l, f)
<1>1. NoRoute.handler \notin AnyMethod
  BY OwnAnswers DEF NoRoute, EmptyRoute
<1> QED
  BY <1>1 DEF FindFits

\* A node is given up with what it has taken.
LEMMA BackFits ==
  ASSUME NEW w, Searching(w), Arriving(w), AnyBacktracks
  PROVE  FindFits(w, pc', find')
<1>1. pc = "any" /\ Backtrack(find)
  BY DEF AnyBacktracks
<1>2. /\ TypeInv /\ LinkInv /\ WordInv(w) /\ KindsOf(tree, w) /\ find \in Finds /\ SegInv(w)
      /\ Walking(w, "any", find) /\ FindFits(w, "any", find) /\ maxParam \in Nat /\ pc' # "panic"
  BY <1>1 DEF Searching, Arriving, SegInv, Inv, TypeInv, FindAt
<1>3. PICK c, n : c = find.node /\ n = tree[c]
  OBVIOUS
<1>4. c \in DOMAIN tree /\ find.paramIndex = Params(w, c) /\ n \in Nodes /\ n.kind \in Kinds
  BY <1>2, <1>3, LinkFacts, NodeFacts DEF Walking
<1>5. /\ find.pvalues \in Seq(Seq(Characters)) /\ find.path \in Seq(Characters)
      /\ find.searchIndex \in Nat /\ Len(find.path) \in Nat
  BY <1>2, FindFacts
<1>6. find.matched = NoRoute
  BY <1>2 DEF FindFits
<1>7. PICK pos : /\ Reading(w[c], Len(w[c]), find.pvalues, find.path, pos)
                 /\ find.searchIndex = pos[Len(w[c])]
  BY <1>2, <1>3 DEF FindFits, Reach
<1>8. PICK g, l : /\ g = Restored(find, n) /\ pc' = l /\ find' = g
                  /\ l = IF n.parent = NoNode \/ NextKind(n) = "static" THEN "out" ELSE NextKind(n)
  BY <1>1, <1>2, <1>3 DEF Backtrack, Goes
<1>9. /\ g.node = n.parent /\ g.path = find.path /\ g.matched = find.matched
      /\ g.searchIndex = find.searchIndex - Taken(find, n)
      /\ g.search = Drop(find.path, find.searchIndex - Taken(find, n))
      /\ n.kind = "static" => g.pvalues = find.pvalues
      /\ n.kind # "static" => g.pvalues = [find.pvalues EXCEPT ![find.paramIndex] = <<>>]
  BY <1>2, <1>8 DEF Restored, Finds
<1>10. CASE l = "out"
  BY <1>6, <1>8, <1>9, <1>10, OutFits
<1>11. CASE l # "out"
  <2>1. l \in {"param", "any"} /\ n.parent # NoNode
    BY <1>4, <1>8, <1>11 DEF NextKind, Kinds
  <2>2. PICK i : i = n.parent
    OBVIOUS
  <2>3. i \in DOMAIN tree /\ c \in Kids(tree[i])
    BY <1>2, <1>3, <1>4, <2>1, <2>2 DEF LinkInv
  <2>4. PICK a, b : a = pos[Len(w[i])] /\ b = Taken(find, n)
    OBVIOUS
  <2>5. /\ a \in 0 .. Len(find.path) /\ find.searchIndex = a + b /\ b \in Nat
        /\ Reading(w[i], Len(w[i]), g.pvalues, find.path, pos)
    <3>1. Len(n.prefix) \in Nat
      BY <1>4, NodeFacts
    <3>2. PICK vs, p : vs = find.pvalues /\ p = find.path
      OBVIOUS
    <3>3. /\ SegInv(w) /\ i \in DOMAIN tree /\ c \in Kids(tree[i]) /\ vs \in Seq(Seq(Characters))
          /\ p \in Seq(Characters) /\ Reading(w[c], Len(w[c]), vs, p, pos)
      BY <1>2, <1>5, <1>7, <2>3, <3>2
    <3>4. /\ Reading(w[i], Len(w[i]), vs, p, pos)
          /\ pos[Len(w[i])] \in 0 .. Len(p)
          /\ tree[c].kind = "static" => pos[Len(w[c])] = pos[Len(w[i])] + Len(tree[c].prefix)
          /\ tree[c].kind # "static" =>
               /\ pos[Len(w[c])] = pos[Len(w[i])] + Len(vs[Params(w, c)])
               /\ Params(w, c) \in DOMAIN vs
               /\ Reading(w[i], Len(w[i]), [vs EXCEPT ![Params(w, c)] = <<>>], p, pos)
      BY ONLY <3>3, KidGives
    <3>5. CASE n.kind = "static"
      <4>1. b = Len(tree[c].prefix)
        BY <1>3, <2>4, <3>5 DEF Taken
      <4> QED
        BY <1>3, <1>7, <1>9, <2>4, <3>1, <3>5, <3>2, <3>4, <4>1
    <3>6. CASE n.kind # "static"
      <4>1. b = Len(find.pvalues[Params(w, c)])
        BY <1>4, <2>4, <3>6 DEF Taken
      <4>2. /\ pos[Len(w[i])] \in 0 .. Len(find.path)
            /\ pos[Len(w[c])] = pos[Len(w[i])] + Len(find.pvalues[Params(w, c)])
            /\ Params(w, c) \in DOMAIN find.pvalues
            /\ Reading(w[i], Len(w[i]), [find.pvalues EXCEPT ![Params(w, c)] = <<>>], find.path, pos)
        BY <1>3, <3>6, <3>2, <3>4
      <4>3. Len(find.pvalues[Params(w, c)]) \in Nat
        BY <1>5, <4>2
      <4> QED
        BY <1>4, <1>7, <1>9, <2>4, <3>6, <4>1, <4>2, <4>3
    <3> QED
      BY <3>5, <3>6
  <2>6. a \in Nat /\ find.searchIndex - b = a /\ g.searchIndex = a /\ g.search = Drop(find.path, a)
    <3>1. a \in Nat /\ find.searchIndex - b = a
      BY <1>5, <2>5
    <3> QED
      BY <1>9, <2>4, <3>1
  <2>7. Within(g.search, find.path, a)
    <3>1. Within(find.path, find.path, 0)
      BY <1>5 DEF Within
    <3>2. 0 \in Nat /\ 0 + a = a
      BY <2>6
    <3>3. Within(Drop(find.path, a), find.path, 0 + a)
      BY <1>5, <2>5, <3>1, <3>2, WithinParts
    <3> QED
      BY <2>6, <3>2, <3>3
  <2>8. Reach(w, l, g) = Len(w[i]) /\ l # "out" /\ l # "done"
    BY <1>9, <2>1, <2>2 DEF Reach
  <2>9. /\ g.node = i /\ g.path = find.path /\ g.matched = NoRoute
    BY <1>6, <1>9, <2>2
  <2>10. FindFits(w, l, g)
    BY <2>1, <2>4, <2>5, <2>6, <2>7, <2>8, <2>9 DEF FindFits
  <2> QED
    BY <1>8, <2>10
<1> QED
  BY <1>10, <1>11

\* A wildcard takes all that is left.
LEMMA AnyFits ==
  ASSUME NEW w, Searching(w), Arriving(w), \A i \in DOMAIN tree : OwnsAll(Fitting[w[i]], tree[i]),
         AnyTakes
  PROVE  FindFits(w, pc', find')
<1>1. pc = "any"
  BY DEF AnyTakes
<1>2. /\ TypeInv /\ LinkInv /\ WordInv(w) /\ KindsOf(tree, w) /\ find \in Finds /\ SegInv(w)
      /\ Walking(w, "any", find) /\ FindFits(w, "any", find) /\ maxParam \in Nat /\ pc' # "panic"
      /\ FindOK(pc, find)
  BY <1>1 DEF Searching, Arriving, SegInv, Inv, TypeInv, FindAt
<1>3. PICK i, c, n : i = find.node /\ c = Here.any /\ n = tree[c]
  OBVIOUS
<1>4. i \in DOMAIN tree /\ c \in Kids(tree[i]) /\ c # NoNode /\ n.kind = "any"
  BY <1>2, <1>3 DEF Walking, AnyTakes, Here, Kids, KindsOf
<1>5. c \in DOMAIN tree /\ Params(w, c) = Params(w, i) + 1 /\ Params(w, i) \in Nat
      /\ w[c] \in Seq(Characters)
  BY <1>2, <1>3, <1>4, KidFacts, KidParams
<1>6. PICK d : d = n.paramsCount
  OBVIOUS
<1>7. d = Params(w, c) /\ d <= maxParam /\ Len(find.pvalues) = maxParam
  BY <1>1, <1>2, <1>3, <1>4, <1>5, <1>6, EnoughRoom DEF Walking, KindsOf
<1>8. /\ find.search \in Seq(Characters) /\ Len(find.search) \in Nat /\ find.searchIndex \in Nat
      /\ find.pvalues \in Seq(Seq(Characters)) /\ find.paramIndex \in Nat /\ find.path \in Seq(Characters)
      /\ find.method \in Methods /\ find.searchIndex + Len(find.search) = Len(find.path)
  BY <1>1, <1>2, FindFacts DEF FindOK
<1>9. d \in DOMAIN find.pvalues /\ d <= Len(find.pvalues)
  BY <1>2, <1>5, <1>7, <1>8
<1>10. find.matched = NoRoute /\ Within(find.search, find.path, find.searchIndex)
  BY <1>2 DEF FindFits
<1>11. PICK pos : /\ Reading(w[i], Len(w[i]), find.pvalues, find.path, pos)
                  /\ find.searchIndex = pos[Len(w[i])]
  BY <1>2, <1>3 DEF FindFits, Reach
<1>12. PICK v : v = [find.pvalues EXCEPT ![d] = find.search]
  OBVIOUS
<1>13. v[d] = find.search /\ Len(v) = Len(find.pvalues)
  BY <1>8, <1>9, <1>12
<1>14. PICK q : Reading(w[c], Len(w[c]), v, find.path, q) /\ q[Len(w[c])] = Len(find.path)
  <2>1. Reading(w[i], Len(w[i]), v, find.path, pos)
    <3>1. Len(w[i]) \in Nat /\ d > Count(w[i], Len(w[i]))
      BY <1>2, <1>4, <1>5, <1>7, ParamsNat DEF Params
    <3>2. Reading(w[i], Len(w[i]), [find.pvalues EXCEPT ![d] = find.search], find.path, pos)
      BY <1>8, <1>9, <1>11, <3>1, ReadingValues
    <3> QED
      BY <1>12, <3>2
  <2>2. /\ SegInv(w) /\ i \in DOMAIN tree /\ c \in Kids(tree[i]) /\ tree[c].kind # "static"
        /\ find.path \in Seq(Characters) /\ find.search \in Seq(Characters)
        /\ v[Params(w, c)] = find.search /\ Params(w, c) <= Len(v)
        /\ Within(find.search, find.path, pos[Len(w[i])])
    BY <1>2, <1>3, <1>4, <1>7, <1>8, <1>9, <1>10, <1>11, <1>13
  <2>3. \E q : /\ Reading(w[c], Len(w[c]), v, find.path, q)
               /\ q[Len(w[c])] = pos[Len(w[i])] + Len(find.search)
    BY ONLY <2>1, <2>2, KidTakes
  <2> QED
    BY <1>8, <1>11, <2>3
<1> DEFINE f == [find EXCEPT !.node = c, !.pvalues[n.paramsCount] = find.search,
                           !.paramIndex = @ + 1, !.search = <<>>,
                           !.searchIndex = @ + Len(find.search)]
           b == [f EXCEPT !.best = FirstBest(f)]
<1>15. /\ f.node = c /\ f.pvalues = v /\ f.path = find.path /\ f.matched = NoRoute
  BY <1>2, <1>6, <1>10, <1>12 DEF Finds
<1>16. /\ b.node = c /\ b.pvalues = v /\ b.path = find.path /\ b.matched = NoRoute
  BY <1>2, <1>6, <1>10, <1>12 DEF Finds
<1>17. ASSUME NEW h, NEW rm, NEW m, pc' = "out", find' = h, h.matched = rm, h.pvalues = v, h.path = find.path,
              Owns(Fitting[w[c]], rm, m)
       PROVE  FindFits(w, pc', find')
  <2>1. rm.handler \in AnyMethod => Reads(rm, w[c])
    BY <1>5, <1>17, OwnAnswers DEF Owns, Fitting
  <2> QED
    BY <1>5, <1>14, <1>17, <2>1 DEF FindFits
<1>18. OwnsAll(Fitting[w[c]], n)
  BY <1>3, <1>5
<1>19. CASE n.methods[find.method] # NoRoute
  <2>1. Goes("out", [f EXCEPT !.matched = n.methods[find.method]])
    BY <1>3, <1>6, <1>9, <1>19 DEF AnyTakes
  <2>2. PICK h : h = [f EXCEPT !.matched = n.methods[find.method]]
    OBVIOUS
  <2>3. h.matched = n.methods[find.method] /\ h.pvalues = v /\ h.path = find.path
    BY <1>2, <1>6, <1>12, <2>2 DEF Finds
  <2>4. pc' = "out" /\ find' = h
    BY <2>1, <2>2 DEF Goes
  <2> QED
    BY <1>8, <1>17, <1>18, <2>3, <2>4 DEF OwnsAll
<1>20. CASE n.methods[find.method] = NoRoute /\ n.notFound # NoRoute
  <2>1. Goes("out", [b EXCEPT !.matched = n.notFound])
    BY <1>3, <1>6, <1>9, <1>20 DEF AnyTakes
  <2>2. PICK h : h = [b EXCEPT !.matched = n.notFound]
    OBVIOUS
  <2>3. h.matched = n.notFound /\ h.pvalues = v /\ h.path = find.path
    BY <1>2, <1>6, <1>12, <2>2 DEF Finds
  <2>4. pc' = "out" /\ find' = h
    BY <2>1, <2>2 DEF Goes
  <2> QED
    BY <1>17, <1>18, <2>3, <2>4 DEF OwnsAll
<1>21. CASE n.methods[find.method] = NoRoute /\ n.notFound = NoRoute
  <2>1. Backtrack(b)
    BY <1>3, <1>6, <1>9, <1>21 DEF AnyTakes
  <2>2. Restored(b, n).matched = NoRoute
    BY <1>2, <1>4, <1>6, <1>10, <1>12 DEF Restored, Finds
  <2> HIDE DEF f, b
  <2>3. NextKind(n) = "static"
    BY <1>4 DEF NextKind
  <2>4. Goes("out", Restored(b, n))
    BY <1>2, <1>3, <1>16, <2>1, <2>3 DEF Backtrack, Goes
  <2> QED
    BY <2>2, <2>4, OutFits DEF Goes
<1> QED
  BY <1>19, <1>20, <1>21

\* What is handed out is what was matched.
LEMMA EndFits ==
  ASSUME NEW w, Searching(w), Arriving(w), Out \/ Use
  PROVE  FindFits(w, pc', find')
<1>1. find \in Finds /\ FindFits(w, pc, find) /\ pc' # "panic"
  BY DEF Searching, Arriving, SegInv, Inv, TypeInv, FindAt
<1>2. CASE Use
  BY <1>2 DEF Use, Goes, FindFits
<1>3. CASE Out
  <2>1. pc = "out"
    BY <1>3 DEF Out
  <2>2. CASE find.matched # NoRoute
    <3>1. pc' = "done" /\ find' = Found(find.matched)
      BY <1>3, <2>2 DEF Out, Goes
    <3>2. /\ find'.matched = find.matched /\ find'.pvalues = find.pvalues /\ find'.path = find.path
          /\ find'.handler = find.matched.handler /\ find'.rpath = find.matched.ppath
          /\ find'.pnames = find.matched.pnames
      BY <1>1, <3>1 DEF Found, Finds
    <3> QED
      BY <1>1, <2>1, <3>1, <3>2 DEF FindFits
  <2>3. CASE find.matched = NoRoute
    <3>1. pc' = "done"
      BY <1>1, <1>3, <2>3 DEF Out, Goes
    <3>2. find'.matched = NoRoute
      <4>1. CASE find.best = NoNode
        BY <1>3, <2>3, <4>1 DEF Out, Goes
      <4>2. CASE find.best # NoNode
        <5>1. PICK b : find' = IF b.notFound # NoRoute THEN Found(b.notFound)
                     ELSE [find EXCEPT !.handler = IF b.isHandler THEN "MethodNotAllowed"
                                                                 ELSE "NotFound",
                                       !.rpath = b.originalPath, !.pnames = <<>>]
          BY <1>3, <2>3, <4>2 DEF Out, Goes
        <5> QED
          BY <1>1, <2>3, <5>1 DEF Found, Finds
      <4> QED
        BY <4>1, <4>2
    <3> QED
      BY <3>1, <3>2, OutFits
  <2> QED
    BY <2>2, <2>3
<1> QED
  BY <1>2, <1>3

\* A search begins with nothing read.
LEMMA StartFits ==
  ASSUME NEW w, SegInv(w), NEW m \in Methods, NEW t \in Topics, Find(m, t)
  PROVE  FindFits(w, pc', find')
<1>1. t \in Seq(Characters) /\ Len(t) \in Nat
  BY PathsAssumption
<1>2. /\ pc' = "loop" /\ find'.node = Root /\ find'.search = t /\ find'.path = t
      /\ find'.searchIndex = 0 /\ find'.matched = NoRoute
      /\ find'.pvalues = [i \in 1 .. maxParam |-> <<>>]
  BY DEF Find, NewFind
<1>3. maxParam \in Nat /\ TypeInv /\ WordInv(w)
  BY DEF SegInv, Inv, TypeInv
<1>4. Len(find'.pvalues) \in Nat
  BY <1>2, <1>3
<1>5. tree[Root].kind = "static" /\ Start(w, Root) = 0
  BY <1>3, RootWay DEF WordInv, WordsOf, Start
<1>6. Reach(w, "loop", find') = 0
  BY <1>2, <1>5 DEF Reach
<1>7. PICK pos : pos = [k \in {0} |-> 0]
  OBVIOUS
<1>8. Count(w[Root], 0) = 0
  <2>1. {k \in 1 .. 0 : Special(w[Root], k)} = {}
    OBVIOUS
  <2> QED
    BY <2>1, FS_EmptySet DEF Count
<1>9. Reading(w[Root], 0, find'.pvalues, t, pos) /\ pos[0] = 0
  BY <1>1, <1>4, <1>7, <1>8 DEF Reading
<1>10. Within(t, t, 0)
  BY <1>1 DEF Within
<1> QED
  BY <1>2, <1>6, <1>9, <1>10 DEF FindFits

-----------------------------------------------------------------------------
(* What Add makes of a route is its word *)

\* The parameters among the first d characters of r end there
Closed(r, d) ==
  \A j \in 1 .. d, k \in d + 1 .. Len(r) : IsParam(r, j) => \E l \in j + 1 .. k : r[l] = "/"

\* The first m characters of p are what the first d of r say, and the others are
\* the same
Aligned(p, m, r, d) ==
  /\ m \in 0 .. Len(p) /\ d \in 0 .. Len(r) /\ Len(p) - m = Len(r) - d
  /\ \A k \in 1 .. Len(p) - m : p[m + k] = r[d + k]
  /\ WordTo(r)[d] = Says(p, m) /\ Closed(r, d)

\* One character more.
LEMMA SaysOne ==
  ASSUME NEW p, NEW m \in Nat
  PROVE  Append(Says(p, m), Sym(p, m + 1)) = Says(p, m + 1)
<1> DEFINE T == {Sym(p, k) : k \in 1 .. m + 1}
<1>1. \A k \in 1 .. m + 1 : Sym(p, k) \in T
  OBVIOUS
<1> HIDE DEF T
<1>2. PICK x, y : x = Says(p, m) /\ y = Says(p, m + 1)
  OBVIOUS
<1>3. x \in Seq(T) /\ Len(x) = m /\ \A k \in 1 .. m : x[k] = Sym(p, k)
  <2>1. x \in [1 .. m -> T]
    BY <1>1, <1>2 DEF Says
  <2> QED
    BY <1>2, <2>1 DEF Says
<1>4. y \in Seq(T) /\ Len(y) = m + 1 /\ \A k \in 1 .. m + 1 : y[k] = Sym(p, k)
  <2>1. y \in [1 .. m + 1 -> T]
    BY <1>1, <1>2 DEF Says
  <2> QED
    BY <1>2, <2>1 DEF Says
<1>5. PICK e \in T : e = Sym(p, m + 1)
  <2>1. m + 1 \in 1 .. m + 1
    OBVIOUS
  <2> QED
    BY <1>1, <2>1
<1>6. PICK z \in Seq(T) : z = Append(x, e) /\ Len(z) = m + 1 /\ \A k \in 1 .. m + 1 : z[k] = y[k]
  <2>1. Append(x, e) \in Seq(T)
    BY <1>3, <1>5
  <2>2. PICK z \in Seq(T) : z = Append(x, e)
    BY <2>1
  <2>3. Len(z) = m + 1 /\ z[m + 1] = e /\ \A k \in 1 .. m : z[k] = x[k]
    BY <1>3, <1>5, <2>2
  <2>4. m + 1 \in 1 .. m + 1 /\ \A k \in 1 .. m + 1 : k = m + 1 \/ k \in 1 .. m
    OBVIOUS
  <2> QED
    BY <1>3, <1>4, <1>5, <2>2, <2>3, <2>4
<1>7. z = y
  BY ONLY z \in Seq(T), <1>4, <1>6, SeqEqual, Zenon
<1> QED
  BY <1>2, <1>5, <1>6, <1>7

\* The same characters say the same.
LEMMA SaysAgree ==
  ASSUME NEW p, NEW t, NEW m \in Nat, Agree(p, t, m)
  PROVE  Says(p, m) = Says(t, m)
<1>1. \A k \in 1 .. m : p[k] = t[k] /\ (Special(p, k) <=> Special(t, k))
  BY CountAgree DEF Agree
<1> QED
  BY <1>1 DEF Says, Sym

\* A character of the route that is in its word.
LEMMA AlignWord ==
  ASSUME NEW p \in Seq(Characters), NEW r \in Seq(Characters), NEW m \in Nat, NEW d \in Nat,
         Aligned(p, m, r, d), m < Len(p),
         ~(r[d + 1] = "\\" /\ d + 1 < Len(r) /\ r[d + 2] = ":"), Symbol(r, d + 1) = Sym(p, m + 1)
  PROVE  InWord(r, d + 1) /\ WordTo(r)[d + 1] = Says(p, m + 1)
<1>1. /\ Len(p) \in Nat /\ Len(r) \in Nat /\ Len(p) - m = Len(r) - d
      /\ WordTo(r)[d] = Says(p, m) /\ Closed(r, d)
  BY DEF Aligned
<1>2. d + 1 \in 1 .. Len(r) /\ d + 1 \in d + 1 .. Len(r) /\ (d + 1) - 1 = d /\ (d + 1) + 1 = d + 2
  BY <1>1
<1>3. InWord(r, d + 1)
  <2>1. \A j \in 1 .. d : IsParam(r, j) => \E l \in j + 1 .. d + 1 : r[l] = "/"
    BY <1>1, <1>2 DEF Closed
  <2> QED
    BY <1>2, <2>1 DEF InWord
<1>4. WordTo(r)[d + 1] = Append(WordTo(r)[d], Symbol(r, d + 1))
  BY <1>2, <1>3, WordToSteps
<1> QED
  BY <1>1, <1>3, <1>4, SaysOne

\* The rest of an alignment that goes on.
LEMMA AlignRest ==
  ASSUME NEW p \in Seq(Characters), NEW r \in Seq(Characters), NEW m \in Nat, NEW d \in Nat,
         Aligned(p, m, r, d), m < Len(p)
  PROVE  /\ d + 1 \in 1 .. Len(r) /\ r[d + 1] = p[m + 1]
         /\ m + 2 <= Len(p) <=> d + 2 <= Len(r)
         /\ m + 2 <= Len(p) => r[d + 2] = p[m + 2]
         /\ WordTo(r)[d + 1] = Says(p, m + 1) /\ Closed(r, d + 1) => Aligned(p, m + 1, r, d + 1)
<1>1. /\ Len(p) \in Nat /\ Len(r) \in Nat /\ Len(p) - m = Len(r) - d
      /\ \A k \in 1 .. Len(p) - m : p[m + k] = r[d + k]
  BY DEF Aligned
<1>2. /\ d + 1 \in 1 .. Len(r) /\ 1 \in 1 .. Len(p) - m /\ (m + 2 <= Len(p) <=> d + 2 <= Len(r))
      /\ (m + 2 <= Len(p) => 2 \in 1 .. Len(p) - m)
      /\ m + 1 \in 0 .. Len(p) /\ d + 1 \in 0 .. Len(r) /\ Len(p) - (m + 1) = Len(r) - (d + 1)
  BY <1>1
<1>3. \A k \in 1 .. Len(p) - (m + 1) : p[(m + 1) + k] = r[(d + 1) + k]
  <2>1. \A k \in 1 .. Len(p) - (m + 1) : k + 1 \in 1 .. Len(p) - m /\ (m + 1) + k = m + (k + 1)
                                          /\ (d + 1) + k = d + (k + 1)
    BY <1>1
  <2> QED
    <3> SUFFICES ASSUME NEW k \in 1 .. Len(p) - (m + 1) PROVE p[(m + 1) + k] = r[(d + 1) + k]
      OBVIOUS
    <3>1. p[m + (k + 1)] = r[d + (k + 1)]
      BY <1>1, <2>1
    <3> QED
      BY <2>1, <3>1
<1> QED
  BY <1>1, <1>2, <1>3 DEF Aligned

\* An ordinary character.
LEMMA AlignOne ==
  ASSUME NEW p \in Seq(Characters), NEW r \in Seq(Characters), NEW m \in Nat, NEW d \in Nat,
         Aligned(p, m, r, d), m < Len(p), p[m + 1] \notin {":", "*"},
         ~(p[m + 1] = "\\" /\ m + 2 <= Len(p) /\ p[m + 2] = ":")
  PROVE  Aligned(p, m + 1, r, d + 1)
<1>1. /\ d + 1 \in 1 .. Len(r) /\ r[d + 1] = p[m + 1] /\ (m + 2 <= Len(p) <=> d + 2 <= Len(r))
      /\ (m + 2 <= Len(p) => r[d + 2] = p[m + 2])
      /\ WordTo(r)[d + 1] = Says(p, m + 1) /\ Closed(r, d + 1) => Aligned(p, m + 1, r, d + 1)
  BY AlignRest
<1>2. d + 1 < Len(r) => d + 2 <= Len(r)
  OBVIOUS
<1>3. ~IsParam(r, d + 1) /\ r[d + 1] # "*" /\ Symbol(r, d + 1) = r[d + 1]
  BY <1>1 DEF IsParam, Symbol
<1>4. Sym(p, m + 1) = p[m + 1]
  BY DEF Sym, Special
<1>5. ~(r[d + 1] = "\\" /\ d + 1 < Len(r) /\ r[d + 2] = ":") /\ Symbol(r, d + 1) = Sym(p, m + 1)
  BY <1>1, <1>2, <1>3, <1>4
<1>6. WordTo(r)[d + 1] = Says(p, m + 1)
  BY <1>5, AlignWord
<1>7. Closed(r, d + 1)
  <2>1. Closed(r, d)
    BY DEF Aligned
  <2>2. ASSUME NEW j \in 1 .. d + 1, NEW k \in (d + 1) + 1 .. Len(r), IsParam(r, j)
        PROVE  \E l \in j + 1 .. k : r[l] = "/"
    <3>1. j \in 1 .. d /\ k \in d + 1 .. Len(r)
      BY <1>3, <2>2
    <3> QED
      BY <2>1, <2>2, <3>1 DEF Closed
  <2> QED
    BY <2>2 DEF Closed
<1> QED
  BY <1>1, <1>6, <1>7

\* Characters m + 1 .. e of p are ordinary, and the last is no backslash of a colon
Quiet(p, m, e) ==
  /\ m <= e /\ e <= Len(p) /\ \A k \in m + 1 .. e : p[k] \notin {":", "*"}
  /\ e > m /\ e + 1 <= Len(p) /\ p[e + 1] = ":" => p[e] # "\\"

\* A stretch of ordinary characters.
LEMMA AlignStretch ==
  ASSUME NEW p \in Seq(Characters), NEW r \in Seq(Characters), NEW m \in Nat, NEW d \in Nat,
         Aligned(p, m, r, d), NEW e \in Nat, Quiet(p, m, e)
  PROVE  Aligned(p, e, r, d + (e - m))
<1> DEFINE S == {n \in Nat : m + n <= e => Aligned(p, m + n, r, d + n)}
<1>1. 0 \in S
  <2>1. m + 0 = m /\ d + 0 = d
    OBVIOUS
  <2> QED
    BY <2>1
<1>2. ASSUME NEW n \in Nat, n \in S PROVE n + 1 \in S
  <2> SUFFICES ASSUME m + (n + 1) <= e PROVE Aligned(p, m + (n + 1), r, d + (n + 1))
    OBVIOUS
  <2>1. PICK x, y : x = m + n /\ y = d + n
    OBVIOUS
  <2>2. x \in Nat /\ y \in Nat /\ m + (n + 1) = x + 1 /\ d + (n + 1) = y + 1 /\ x <= e /\ x + 1 <= e
        /\ x + 1 \in m + 1 .. e /\ Len(p) \in Nat /\ e <= Len(p) /\ x < Len(p)
        /\ (x + 2 <= Len(p) => x + 1 = e \/ x + 2 \in m + 1 .. e) /\ (x + 1) + 1 = x + 2 /\ x + 1 > m
    BY <2>1 DEF Quiet
  <2>3. Aligned(p, x, r, y)
    BY <1>2, <2>1, <2>2
  <2>4. p[x + 1] \notin {":", "*"}
    BY <2>2 DEF Quiet
  <2>5. ~(p[x + 1] = "\\" /\ x + 2 <= Len(p) /\ p[x + 2] = ":")
    BY <2>2 DEF Quiet
  <2>6. Aligned(p, x + 1, r, y + 1)
    BY <2>2, <2>3, <2>4, <2>5, AlignOne
  <2> QED
    BY <2>2, <2>6
<1> HIDE DEF S
<1>3. e - m \in S
  <2>1. e - m \in Nat
    BY DEF Quiet
  <2>2. \A n \in Nat : n \in S
    BY <1>1, <1>2, Induct
  <2> QED
    BY <2>1, <2>2
<1>4. m + (e - m) = e /\ e <= e
  OBVIOUS
<1> QED
  BY <1>3, <1>4 DEF S

\* A name is not in the word.
LEMMA NameSkipped ==
  ASSUME NEW r \in Seq(Characters), NEW a \in 1 .. Len(r), NEW b \in a .. Len(r), IsParam(r, a),
         \A l \in a + 1 .. b : r[l] # "/"
  PROVE  WordTo(r)[b] = WordTo(r)[a]
<1> DEFINE S == {n \in Nat : a + n <= b => WordTo(r)[a + n] = WordTo(r)[a]}
<1>1. 0 \in S
  <2>1. a + 0 = a
    OBVIOUS
  <2> QED
    BY <2>1
<1>2. ASSUME NEW n \in Nat, n \in S PROVE n + 1 \in S
  <2> SUFFICES ASSUME a + (n + 1) <= b PROVE WordTo(r)[a + (n + 1)] = WordTo(r)[a]
    OBVIOUS
  <2>1. PICK k : k = a + (n + 1)
    OBVIOUS
  <2>2. k \in 1 .. Len(r) /\ k - 1 = a + n /\ a \in 1 .. k - 1 /\ a + n <= b /\ \A l \in a + 1 .. k : l \in a + 1 .. b
    BY <2>1
  <2>3. ~InWord(r, k)
    BY <2>2 DEF InWord
  <2>4. WordTo(r)[k] = WordTo(r)[k - 1]
    BY <2>2, <2>3, WordToSteps
  <2>5. WordTo(r)[a + n] = WordTo(r)[a]
    BY <1>2, <2>2
  <2> QED
    BY <2>1, <2>2, <2>4, <2>5
<1> HIDE DEF S
<1>3. b - a \in S
  <2>1. b - a \in Nat
    OBVIOUS
  <2>2. \A n \in Nat : n \in S
    BY <1>1, <1>2, Induct
  <2> QED
    BY <2>1, <2>2
<1>4. a + (b - a) = b /\ b <= b
  OBVIOUS
<1> QED
  BY <1>3, <1>4 DEF S

\* An escaped colon.
LEMMA AlignEscape ==
  ASSUME NEW p \in Seq(Characters), NEW r \in Seq(Characters), NEW m \in Nat, NEW d \in Nat,
         Aligned(p, m, r, d), m + 2 <= Len(p), p[m + 1] = "\\", p[m + 2] = ":",
         NEW t, t = RemoveAt(p, m + 1), ~Special(t, m + 1)
  PROVE  Aligned(t, m + 1, r, d + 2) /\ r[d + 2] = ":" /\ t[m + 1] = ":"
<1>1. /\ Len(p) \in Nat /\ Len(r) \in Nat /\ Len(p) - m = Len(r) - d
      /\ \A k \in 1 .. Len(p) - m : p[m + k] = r[d + k]
      /\ WordTo(r)[d] = Says(p, m) /\ Closed(r, d)
  BY DEF Aligned
<1>2. /\ m + 1 \in 1 .. Len(p) /\ 1 \in 1 .. Len(p) - m /\ 2 \in 1 .. Len(p) - m
      /\ d + 1 \in 1 .. Len(r) /\ d + 2 \in 1 .. Len(r) /\ (d + 2) - 1 = d + 1 /\ (d + 1) - 1 = d
      /\ (m + 1) - 1 = m /\ m + 1 \in m + 1 .. Len(p) - 1 /\ (m + 1) + 1 = m + 2
      /\ d + 1 < Len(r) /\ (d + 1) + 1 = d + 2 /\ d + 2 > 1
  BY <1>1
<1>3. r[d + 1] = "\\" /\ r[d + 2] = ":"
  BY <1>1, <1>2
<1>4. /\ t \in Seq(Characters) /\ Len(t) = Len(p) - 1
      /\ \A k \in 1 .. m : t[k] = p[k]
      /\ \A k \in m + 1 .. Len(p) - 1 : t[k] = p[k + 1]
  <2>1. PICK i : i = m + 1
    OBVIOUS
  <2>2. i \in 1 .. Len(p) /\ t = RemoveAt(p, i) /\ i - 1 = m
    BY <1>2, <2>1
  <2>3. /\ t \in Seq(Characters) /\ Len(t) = Len(p) - 1
        /\ \A k \in 1 .. i - 1 : t[k] = p[k]
        /\ \A k \in i .. Len(p) - 1 : t[k] = p[k + 1]
    BY <2>2, RemoveAtFacts
  <2> QED
    BY <2>1, <2>2, <2>3
<1>5. ~InWord(r, d + 1)
  BY <1>2, <1>3 DEF InWord
<1>6. WordTo(r)[d + 1] = Says(p, m)
  BY <1>1, <1>2, <1>5, WordToSteps
<1>7. ~IsParam(r, d + 1) /\ ~IsParam(r, d + 2)
  BY <1>2, <1>3 DEF IsParam
<1>8. InWord(r, d + 2) /\ Symbol(r, d + 2) = ":"
  <2>1. ASSUME NEW j \in 1 .. (d + 2) - 1, IsParam(r, j) PROVE \E l \in j + 1 .. d + 2 : r[l] = "/"
    <3>1. j \in 1 .. d /\ d + 2 \in d + 1 .. Len(r)
      BY <1>2, <1>7, <2>1
    <3> QED
      BY <1>1, <2>1, <3>1 DEF Closed
  <2> QED
    BY <1>3, <1>7, <2>1 DEF InWord, Symbol
<1>9. t[m + 1] = ":" /\ Sym(t, m + 1) = ":"
  <2>1. t[m + 1] = ":"
    BY <1>2, <1>4
  <2> QED
    BY <2>1 DEF Sym
<1>10. Agree(p, t, m)
  BY <1>4 DEF Agree
<1>11. WordTo(r)[d + 2] = Says(t, m + 1)
  <2>1. WordTo(r)[d + 2] = Append(WordTo(r)[(d + 2) - 1], Symbol(r, d + 2))
    BY <1>2, <1>8, WordToSteps
  <2>2. Says(p, m) = Says(t, m)
    BY <1>10, SaysAgree
  <2>3. WordTo(r)[d + 2] = Append(Says(t, m), Sym(t, m + 1))
    BY <1>2, <1>6, <1>8, <1>9, <2>1, <2>2
  <2> QED
    BY <2>3, SaysOne
<1>12. Closed(r, d + 2)
  <2>1. ASSUME NEW j \in 1 .. d + 2, NEW k \in (d + 2) + 1 .. Len(r), IsParam(r, j)
        PROVE  \E l \in j + 1 .. k : r[l] = "/"
    <3>1. j \in 1 .. d /\ k \in d + 1 .. Len(r)
      BY <1>7, <2>1
    <3> QED
      BY <1>1, <2>1, <3>1 DEF Closed
  <2> QED
    BY <2>1 DEF Closed
<1>13. m + 1 \in 0 .. Len(t) /\ d + 2 \in 0 .. Len(r) /\ Len(t) - (m + 1) = Len(r) - (d + 2)
  BY ONLY m \in Nat, d \in Nat, m + 2 <= Len(p), <1>1, <1>2, <1>4
<1>14. ASSUME NEW k \in 1 .. Len(t) - (m + 1) PROVE t[(m + 1) + k] = r[(d + 2) + k]
  <2>1. /\ (m + 1) + k \in m + 1 .. Len(p) - 1 /\ k + 2 \in 1 .. Len(p) - m
        /\ ((m + 1) + k) + 1 = m + (k + 2) /\ (d + 2) + k = d + (k + 2)
    BY <1>1, <1>4
  <2>2. t[(m + 1) + k] = p[((m + 1) + k) + 1]
    BY <1>4, <2>1
  <2>3. p[m + (k + 2)] = r[d + (k + 2)]
    BY <1>1, <2>1
  <2> QED
    BY <2>1, <2>2, <2>3
<1> QED
  BY <1>3, <1>9, <1>11, <1>12, <1>13, <1>14 DEF Aligned

\* A parameter, whose name goes from the path.
LEMMA AlignParam ==
  ASSUME NEW p \in Seq(Characters), NEW r \in Seq(Characters), NEW m \in Nat, NEW d \in Nat,
         Aligned(p, m, r, d), m < Len(p), p[m + 1] = ":", d > 0 => r[d] # "\\",
         NEW t \in Seq(Characters), NEW n \in Nat, Cut(p, t, m + 1, n), Special(t, m + 1)
  PROVE  Aligned(t, m + 1, r, d + 1 + n)
<1>1. /\ m + 1 <= Len(t) /\ Agree(p, t, m + 1) /\ Len(p) = Len(t) + n
      /\ \A k \in m + 2 .. Len(t) : t[k] = p[k + n]
      /\ m + 2 <= Len(t) => t[m + 2] = "/"
      /\ \A k \in m + 2 .. m + 1 + n : p[k] # "/"
  <2>1. (m + 1) + 1 = m + 2
    OBVIOUS
  <2> QED
    BY <2>1 DEF Cut
<1>2. /\ Len(p) \in Nat /\ Len(r) \in Nat /\ Len(p) - m = Len(r) - d
      /\ \A k \in 1 .. Len(p) - m : p[m + k] = r[d + k]
  BY DEF Aligned
<1>3. Len(t) \in Nat
  OBVIOUS
<1>4. /\ d + 1 \in 1 .. Len(r) /\ 1 \in 1 .. Len(p) - m /\ d + 1 + n \in d + 1 .. Len(r) /\ (d + 1) - 1 = d
      /\ m + 1 \in 0 .. Len(t) /\ d + 1 + n \in 0 .. Len(r) /\ Len(t) - (m + 1) = Len(r) - (d + 1 + n)
      /\ m + 1 \in 1 .. m + 1 /\ (d + 1 > 1 => d > 0)
  BY <1>1, <1>2, <1>3
<1>5. r[d + 1] = ":" /\ IsParam(r, d + 1) /\ Symbol(r, d + 1) = "PARAM"
  BY <1>2, <1>4 DEF IsParam, Symbol
<1>6. Sym(p, m + 1) = "PARAM"
  <2>1. Special(p, m + 1)
    BY <1>1, <1>4, CountAgree
  <2> QED
    BY <2>1 DEF Sym
<1>7. WordTo(r)[d + 1] = Says(p, m + 1)
  BY <1>5, <1>6, AlignWord
<1>8. Says(p, m + 1) = Says(t, m + 1)
  BY <1>1, SaysAgree
<1>9. \A l \in (d + 1) + 1 .. d + 1 + n : r[l] # "/"
  <2> SUFFICES ASSUME NEW l \in (d + 1) + 1 .. d + 1 + n PROVE r[l] # "/"
    OBVIOUS
  <2>1. /\ l - d \in 1 .. Len(p) - m /\ m + (l - d) \in m + 2 .. m + 1 + n /\ d + (l - d) = l
    BY <1>1, <1>2, <1>3
  <2>2. p[m + (l - d)] = r[d + (l - d)]
    BY <1>2, <2>1
  <2> QED
    BY <1>1, <2>1, <2>2
<1>10. WordTo(r)[d + 1 + n] = WordTo(r)[d + 1]
  BY <1>4, <1>5, <1>9, NameSkipped
<1>11. ASSUME NEW k \in 1 .. Len(t) - (m + 1) PROVE t[(m + 1) + k] = r[(d + 1 + n) + k]
  <2>1. /\ (m + 1) + k \in m + 2 .. Len(t) /\ (1 + n) + k \in 1 .. Len(p) - m
        /\ ((m + 1) + k) + n = m + ((1 + n) + k) /\ (d + 1 + n) + k = d + ((1 + n) + k)
    BY <1>1, <1>2, <1>3
  <2>2. t[(m + 1) + k] = p[((m + 1) + k) + n]
    BY <1>1, <2>1
  <2>3. p[m + ((1 + n) + k)] = r[d + ((1 + n) + k)]
    BY <1>2, <2>1
  <2> QED
    BY <2>1, <2>2, <2>3
<1>12. Closed(r, d + 1 + n)
  <2> SUFFICES ASSUME NEW j \in 1 .. d + 1 + n, NEW k \in (d + 1 + n) + 1 .. Len(r)
               PROVE  \E l \in j + 1 .. k : r[l] = "/"
    BY DEF Closed
  <2>1. /\ 1 \in 1 .. Len(t) - (m + 1) /\ (m + 1) + 1 = m + 2 /\ m + 2 <= Len(t)
        /\ (d + 1 + n) + 1 \in j + 1 .. k
    BY <1>1, <1>2, <1>3, <1>4
  <2>2. r[(d + 1 + n) + 1] = "/"
    BY <1>1, <1>11, <2>1
  <2> QED
    BY <2>1, <2>2
<1> QED
  BY <1>4, <1>7, <1>8, <1>10, <1>11, <1>12 DEF Aligned

\* A wildcard, which ends the route.
LEMMA AlignAny ==
  ASSUME NEW p \in Seq(Characters), NEW r \in Seq(Characters), NEW m \in Nat, NEW d \in Nat,
         Aligned(p, m, r, d), m < Len(p), p[m + 1] = "*"
  PROVE  /\ d + 1 \in 1 .. Len(r) /\ r[d + 1] = "*" /\ InWord(r, d + 1)
         /\ d + 1 = Len(r) => Aligned(p, m + 1, r, d + 1) /\ m + 1 = Len(p)
<1>1. /\ Len(p) \in Nat /\ Len(r) \in Nat /\ Len(p) - m = Len(r) - d
  BY DEF Aligned
<1>2. /\ d + 1 \in 1 .. Len(r) /\ r[d + 1] = "*"
      /\ WordTo(r)[d + 1] = Says(p, m + 1) /\ Closed(r, d + 1) => Aligned(p, m + 1, r, d + 1)
  BY AlignRest
<1>3. Symbol(r, d + 1) = "ANY" /\ Sym(p, m + 1) = "ANY"
  BY <1>2 DEF Symbol, IsParam, Sym
<1>4. InWord(r, d + 1) /\ WordTo(r)[d + 1] = Says(p, m + 1)
  BY <1>2, <1>3, AlignWord
<1>5. d + 1 = Len(r) => Closed(r, d + 1)
  BY DEF Closed
<1> QED
  BY <1>1, <1>2, <1>4, <1>5

-----------------------------------------------------------------------------
(* Add registers a route where its word leads *)

\* The next character of p is a colon as it is one in r
Fresh(p, m, r, d) ==
  /\ m > 0 => p[m] # "\\"
  /\ m + 1 <= Len(p) /\ p[m + 1] # "/" /\ d > 0 => r[d] # "\\"

\* Add has read m characters of its path, which are d of the route
HasRead(m, d) ==
  /\ Aligned(add.path, m, add.ppath, d) /\ Fresh(add.path, m, add.ppath, d)
  /\ m < add.i /\ \A k \in m + 1 .. Len(add.path) : k < add.i => add.path[k] \notin {":", "*"}

\* A route with a handler is inserted with all of its path, which has its word
ReadInv ==
  /\ pc = "scan" => \E m, d \in Nat : HasRead(m, d)
  /\ pc = "insert" =>
       /\ \A q \in DOMAIN calls : calls[q].rm # EmptyRoute =>
            calls[q].path = add.path /\ Word(add.ppath) = Says(add.path, Len(add.path))
       /\ calls[Len(calls)].kind # "static" => \E m, d \in Nat : HasRead(m, d)

\* A path that has been read to its end has the word of the route.
LEMMA AlignedWord ==
  ASSUME NEW p \in Seq(Characters), NEW r \in Seq(Characters), NEW m \in Nat, NEW d \in Nat,
         Aligned(p, m, r, d), m = Len(p)
  PROVE  Word(r) = Says(p, Len(p))
<1>1. Len(p) \in Nat /\ Len(r) \in Nat /\ d <= Len(r) /\ Len(p) - m = Len(r) - d /\ WordTo(r)[d] = Says(p, m)
  BY DEF Aligned
<1>2. d = Len(r)
  BY <1>1
<1> QED
  BY <1>1, <1>2 DEF Word

\* The path of the route that is being added.
LEMMA RouteIsSeq ==
  ASSUME TypeInv
  PROVE  add.ppath \in Seq(Characters)
  BY DEF TypeInv, Adds

\* It is one that may be registered.
LEMMA RouteIsPath ==
  ASSUME TypeInv, AddInv, pc = "scan"
  PROVE  add.ppath \in Paths
<1>1. PICK m, t : m = add.method /\ t = add.topic
  OBVIOUS
<1>2. <<m, t>> \in Routes /\ add.ppath = Rooted(t)
  BY <1>1 DEF AddInv
<1>3. <<m, t>>[2] = t
  OBVIOUS
<1>4. Rooted(<<m, t>>[2]) = add.ppath
  BY ONLY <1>2, <1>3
<1> QED
  BY ONLY <1>2, <1>4 DEF Paths

\* Its wildcards are at its end.
LEMMA PathWildcards ==
  ASSUME WildcardsLast, NEW r \in Paths, NEW j \in DOMAIN r, r[j] = "*", InWord(r, j)
  PROVE  j = Len(r)
<1>1. PICK route \in Routes : r = Rooted(route[2])
  BY DEF Paths
<1> QED
  BY <1>1 DEF WildcardsLast

\* Up to where the scan stops there are ordinary characters.
LEMMA ScanReads ==
  ASSUME TypeInv, AddInv, pc = "scan", ReadInv, NEW p, p = add.path, NEW s, s = ScanAt,
         NEW r, r = add.ppath
  PROVE  \E m, d \in Nat :
           /\ Aligned(p, m, r, d) /\ Fresh(p, m, r, d) /\ m <= s - 1
           /\ \A k \in m + 1 .. s - 1 : p[k] \notin {":", "*"}
<1>1. PICK m, d \in Nat : HasRead(m, d)
  BY DEF ReadInv
<1>2. /\ Aligned(p, m, r, d) /\ Fresh(p, m, r, d) /\ m < add.i
      /\ \A k \in m + 1 .. Len(p) : k < add.i => p[k] \notin {":", "*"}
  BY <1>1 DEF HasRead
<1>3. /\ s \in 1 .. Len(p) + 1 /\ (s <= Len(p) => s >= add.i) /\ Len(p) \in Nat /\ add.i \in Nat \ {0}
      /\ \A j \in add.i .. Len(p) : j < s => p[j] \notin {":", "*"}
  BY ScanAtFacts, AddFacts
<1>4. m <= Len(p)
  BY <1>2, <1>3 DEF Aligned
<1>5. m <= s - 1
  BY <1>2, <1>3, <1>4
<1>6. ASSUME NEW k \in m + 1 .. s - 1 PROVE p[k] \notin {":", "*"}
  <2>1. k \in m + 1 .. Len(p) /\ k < s /\ (k < add.i \/ k \in add.i .. Len(p))
    BY <1>3
  <2> QED
    BY <1>2, <1>3, <2>1
<1> QED
  BY <1>2, <1>5, <1>6

\* Add begins with nothing read.
LEMMA AddReads ==
  ASSUME NEW r \in Routes, Add(r[1], r[2])
  PROVE  ReadInv'
<1>1. r[2] \in Seq(Characters)
  BY PathsAssumption
<1>2. PICK p : p = Rooted(r[2])
  OBVIOUS
<1>3. p \in Seq(Characters) /\ p # <<>> /\ p[1] = "/" /\ Len(p) \in Nat
  BY <1>1, <1>2, RootedFacts
<1>4. pc' = "scan" /\ add'.path = p /\ add'.ppath = p /\ add'.i = 1
  BY <1>2 DEF Add
<1>5. Aligned(p, 0, p, 0)
  <2>1. Says(p, 0) = <<>>
    BY DEF Says
  <2>2. WordTo(p)[0] = <<>>
    BY <1>3, WordToSteps
  <2>3. Closed(p, 0)
    BY DEF Closed
  <2>4. 0 \in 0 .. Len(p) /\ \A k \in 1 .. Len(p) - 0 : p[0 + k] = p[0 + k]
    BY <1>3
  <2> QED
    BY <2>1, <2>2, <2>3, <2>4 DEF Aligned
<1>6. Fresh(p, 0, p, 0)
  BY <1>3 DEF Fresh
<1>7. 0 < 1 /\ \A k \in 0 + 1 .. Len(p) : ~(k < 1)
  OBVIOUS
<1>8. HasRead(0, 0)'
  BY <1>4, <1>5, <1>6, <1>7 DEF HasRead
<1> QED
  BY <1>4, <1>8 DEF ReadInv

\* A colon without its backslash is read.
LEMMA EscapeReads ==
  ASSUME NEW w, SegInv(w), ReadInv, ScanEscape
  PROVE  ReadInv'
<1>1. TypeInv /\ AddInv /\ pc = "scan"
  BY DEF SegInv, Inv, ScanEscape, Scanning
<1>2. PICK p, s, r : p = add.path /\ s = ScanAt /\ r = add.ppath
  OBVIOUS
<1>3. /\ s <= Len(p) /\ s > 1 /\ p[s - 1] = "\\" /\ p[s] = ":"
  BY <1>2 DEF ScanEscape, Scanning, Escaped
<1>4. /\ p \in Seq(Characters) /\ s \in 2 .. Len(p) /\ p[1] = "/" /\ Len(p) \in Nat
      /\ add.i \in Nat \ {0} /\ s >= add.i /\ r \in Seq(Characters)
  <2>1. r \in Seq(Characters)
    BY <1>1, <1>2, RouteIsSeq
  <2> QED
    BY <1>1, <1>2, <1>3, <2>1, ScanInside, AddFacts
<1>5. PICK m, d \in Nat :
           /\ Aligned(p, m, r, d) /\ Fresh(p, m, r, d) /\ m <= s - 1
           /\ \A k \in m + 1 .. s - 1 : p[k] \notin {":", "*"}
  BY <1>1, <1>2, ScanReads
<1>6. PICK e, y : e = s - 2 /\ y = d + (e - m)
  OBVIOUS
<1>7. m <= e /\ e \in Nat /\ y \in Nat
  <2>1. m # s - 1
    BY <1>3, <1>4, <1>5 DEF Fresh
  <2> QED
    BY <1>4, <1>5, <1>6, <2>1
<1>8. /\ e + 1 = s - 1 /\ e + 2 = s /\ e + 2 <= Len(p) /\ e <= Len(p)
      /\ \A k \in m + 1 .. e : k \in m + 1 .. s - 1
  BY <1>4, <1>6, <1>7
<1>9. Quiet(p, m, e)
  BY <1>3, <1>5, <1>7, <1>8 DEF Quiet
<1>10. Aligned(p, e, r, y)
  BY <1>4, <1>5, <1>6, <1>7, <1>9, AlignStretch
<1>11. PICK t : t = RemoveAt(p, s - 1)
  OBVIOUS
<1>12. add'.path = t /\ add'.i = s /\ add'.ppath = r /\ pc' = "scan"
  BY <1>1, <1>2, <1>11 DEF ScanEscape, TypeInv, Adds
<1>13. ~Special(t, e + 1)
  <2>1. s # 2
    BY <1>3, <1>4
  <2>2. s \in add.i .. Len(p) /\ e \in 1 .. (s - 1) - 1 /\ (e + 1) - 1 = e /\ s - 1 \in s - 1 .. Len(p) - 1
        /\ (s - 1) + 1 = s /\ s - 1 \in 1 .. Len(p)
    BY <1>4, <1>6, <2>1
  <2>3. Colons(p, add.i)
    BY <1>1, <1>2, ScanCount
  <2>4. p[s - 2] \notin ParamAfter
    BY <1>3, <2>2, <2>3 DEF Colons
  <2>5. t[e] = p[e] /\ t[s - 1] = p[s]
    <3>1. p \in Seq(Characters) /\ s - 1 \in 1 .. Len(p)
      BY <1>4, <2>2
    <3>2. /\ \A k \in 1 .. (s - 1) - 1 : t[k] = p[k]
          /\ \A k \in s - 1 .. Len(p) - 1 : t[k] = p[k + 1]
      BY ONLY <1>11, <3>1, RemoveAtFacts
    <3> QED
      BY ONLY <2>2, <3>2
  <2> QED
    BY <1>3, <1>6, <1>8, <2>2, <2>4, <2>5 DEF Special
<1>14. Aligned(t, e + 1, r, y + 2) /\ r[y + 2] = ":" /\ t[e + 1] = ":"
  <2>1. /\ p \in Seq(Characters) /\ r \in Seq(Characters) /\ e \in Nat /\ y \in Nat /\ Aligned(p, e, r, y)
        /\ e + 2 <= Len(p) /\ p[e + 1] = "\\" /\ p[e + 2] = ":" /\ t = RemoveAt(p, e + 1)
        /\ ~Special(t, e + 1)
    BY <1>3, <1>4, <1>7, <1>8, <1>10, <1>11, <1>13
  <2> QED
    BY ONLY <2>1, AlignEscape
<1>15. HasRead(e + 1, y + 2)'
  <2>1. Fresh(t, e + 1, r, y + 2)
    BY <1>14 DEF Fresh
  <2>2. e + 1 < s /\ \A k \in (e + 1) + 1 .. Len(t) : ~(k < s)
    BY <1>7, <1>8
  <2> QED
    BY <1>12, <1>14, <2>1, <2>2 DEF HasRead
<1>16. e + 1 \in Nat /\ y + 2 \in Nat
  BY <1>7
<1> QED
  BY <1>12, <1>15, <1>16 DEF ReadInv

\* A parameter is read, with its name.
LEMMA ParamReads ==
  ASSUME NEW w, SegInv(w), ReadInv, ScanParam, AddInv'
  PROVE  ReadInv'
<1>1. TypeInv /\ AddInv /\ pc = "scan"
  BY DEF SegInv, Inv, ScanParam, Scanning
<1>2. PICK p, s, r : p = add.path /\ s = ScanAt /\ r = add.ppath
  OBVIOUS
<1>3. s <= Len(p) /\ p[s] = ":" /\ ~(s > 1 /\ p[s - 1] = "\\")
  BY <1>2 DEF ScanParam, Scanning, Escaped
<1>4. /\ p \in Seq(Characters) /\ s \in 2 .. Len(p) /\ Len(p) \in Nat /\ r \in Seq(Characters)
  <2>1. r \in Seq(Characters)
    BY <1>1, <1>2, RouteIsSeq
  <2> QED
    BY <1>1, <1>2, <1>3, <2>1, ScanInside, AddFacts
<1>5. PICK m, d \in Nat :
           /\ Aligned(p, m, r, d) /\ Fresh(p, m, r, d) /\ m <= s - 1
           /\ \A k \in m + 1 .. s - 1 : p[k] \notin {":", "*"}
  BY <1>1, <1>2, ScanReads
<1>6. PICK e, y : e = s - 1 /\ y = d + (e - m)
  OBVIOUS
<1>7. e \in Nat /\ y \in Nat /\ e + 1 = s /\ e < Len(p) /\ m <= e /\ e > 0
  BY <1>4, <1>5, <1>6
<1>8. Quiet(p, m, e)
  BY <1>3, <1>5, <1>6, <1>7 DEF Quiet
<1>9. Aligned(p, e, r, y)
  BY <1>4, <1>5, <1>6, <1>7, <1>8, AlignStretch
<1>10. y > 0 => r[y] # "\\"
  <2>1. CASE e = m
    <3>1. y = d /\ m + 1 <= Len(p) /\ p[m + 1] = ":"
      BY <1>3, <1>6, <1>7, <2>1
    <3> QED
      BY <1>5, <3>1 DEF Fresh
  <2>2. CASE e # m
    <3>1. /\ Len(p) - m \in Nat /\ e - m \in 1 .. Len(p) - m /\ m + (e - m) = e
      BY <1>4, <1>7, <2>2
    <3>2. p[m + (e - m)] = r[d + (e - m)]
      BY <1>5, <3>1 DEF Aligned
    <3>3. r[y] = p[e]
      BY ONLY <1>6, <3>1, <3>2
    <3> QED
      BY ONLY <1>3, <1>6, <1>7, <3>3
  <2> QED
    BY <2>1, <2>2
<1>11. PICK t \in Seq(Characters), n \in Nat : Shortened(s, t, n)
  BY <1>1, <1>2, ParamShape
<1>12. /\ add'.path = t /\ add'.i = s + 2 /\ pc' = "insert" /\ Len(calls') = 2 /\ t[s] = ":"
       /\ calls'[2].kind = "param" /\ calls'[2].path = Take(t, s) /\ s \in 2 .. Len(t)
       /\ calls'[2].rm # EmptyRoute => s = Len(t)
  BY <1>11 DEF Shortened
<1>13. Cut(p, t, e + 1, n) /\ (s + 1 <= Len(t) => t[s + 1] = "/")
  BY <1>2, <1>7, <1>11 DEF Shortened, Cut
<1>14. Special(t, e + 1)
  <2>1. ScanInv(w)'
    BY ParamScan
  <2>2. Len(Take(t, s)) = s
    <3>1. s \in 0 .. Len(t)
      BY <1>12
    <3> QED
      BY <3>1, TakeFacts
  <2> QED
    BY <1>7, <1>12, <2>1, <2>2 DEF ScanInv
<1>15. add'.ppath = r /\ UNCHANGED find
  BY <1>1, <1>2 DEF ScanParam, TypeInv, Adds
<1>16. Aligned(t, e + 1, r, y + 1 + n)
  <2>1. /\ p \in Seq(Characters) /\ r \in Seq(Characters) /\ e \in Nat /\ y \in Nat /\ Aligned(p, e, r, y)
        /\ e < Len(p) /\ p[e + 1] = ":" /\ (y > 0 => r[y] # "\\") /\ t \in Seq(Characters) /\ n \in Nat
        /\ Cut(p, t, e + 1, n) /\ Special(t, e + 1)
    BY <1>3, <1>4, <1>7, <1>9, <1>10, <1>13, <1>14
  <2> QED
    BY ONLY <2>1, AlignParam
<1>17. y + 1 + n \in Nat /\ s \in Nat
  BY <1>4, <1>7
<1>18. HasRead(s, y + 1 + n)'
  <2>1. Fresh(t, s, r, y + 1 + n)
    BY <1>12, <1>13 DEF Fresh
  <2>2. s < s + 2 /\ \A k \in s + 1 .. Len(t) : k < s + 2 => k = s + 1 /\ s + 1 <= Len(t)
    BY <1>17
  <2> QED
    BY <1>7, <1>12, <1>13, <1>15, <1>16, <2>1, <2>2 DEF HasRead
<1>19. calls'[1].rm = EmptyRoute
  BY <1>12 DEF AddInv
<1>20. calls'[2].rm # EmptyRoute => calls'[2].path = t /\ Word(r) = Says(t, Len(t))
  <2> SUFFICES ASSUME s = Len(t) PROVE Take(t, s) = t /\ Word(r) = Says(t, Len(t))
    BY <1>12
  <2>1. Take(t, s) = t
    BY DEF Take
  <2>2. Word(r) = Says(t, Len(t))
    BY <1>4, <1>7, <1>16, <1>17, AlignedWord
  <2> QED
    BY <2>1, <2>2
<1>21. DOMAIN calls' = {1, 2}
  BY <1>12 DEF AddInv
<1> QED
  BY <1>12, <1>15, <1>17, <1>18, <1>19, <1>20, <1>21 DEF ReadInv

\* A wildcard is read, and the route ends there.
LEMMA AnyReads ==
  ASSUME WildcardsLast, NEW w, SegInv(w), ReadInv, ScanAny, AddInv'
  PROVE  ReadInv'
<1>1. TypeInv /\ AddInv /\ pc = "scan"
  BY DEF SegInv, Inv, ScanAny, Scanning
<1>2. PICK p, s, r : p = add.path /\ s = ScanAt /\ r = add.ppath
  OBVIOUS
<1>3. s <= Len(p) /\ p[s] = "*"
  BY <1>2 DEF ScanAny, Scanning
<1>4. /\ p \in Seq(Characters) /\ s \in 2 .. Len(p) /\ Len(p) \in Nat /\ r \in Seq(Characters)
  <2>1. r \in Seq(Characters)
    BY <1>1, <1>2, RouteIsSeq
  <2> QED
    BY <1>1, <1>2, <1>3, <2>1, ScanInside, AddFacts
<1>5. PICK m, d \in Nat :
           /\ Aligned(p, m, r, d) /\ Fresh(p, m, r, d) /\ m <= s - 1
           /\ \A k \in m + 1 .. s - 1 : p[k] \notin {":", "*"}
  BY <1>1, <1>2, ScanReads
<1>6. PICK e, y : e = s - 1 /\ y = d + (e - m)
  OBVIOUS
<1>7. e \in Nat /\ y \in Nat /\ e + 1 = s /\ e < Len(p) /\ m <= e
  BY <1>4, <1>5, <1>6
<1>8. Quiet(p, m, e)
  BY <1>3, <1>5, <1>6, <1>7 DEF Quiet
<1>9. Aligned(p, e, r, y)
  BY <1>4, <1>5, <1>6, <1>7, <1>8, AlignStretch
<1>10. /\ y + 1 \in 1 .. Len(r) /\ r[y + 1] = "*" /\ InWord(r, y + 1)
       /\ y + 1 = Len(r) => Aligned(p, e + 1, r, y + 1) /\ e + 1 = Len(p)
  <2>1. /\ p \in Seq(Characters) /\ r \in Seq(Characters) /\ e \in Nat /\ y \in Nat /\ Aligned(p, e, r, y)
        /\ e < Len(p) /\ p[e + 1] = "*"
    BY <1>3, <1>4, <1>7, <1>9
  <2> QED
    BY ONLY <2>1, AlignAny
<1>11. y + 1 = Len(r)
  <2>1. r \in Paths
    BY <1>1, <1>2, RouteIsPath
  <2>2. y + 1 \in DOMAIN r
    BY <1>4, <1>10
  <2> QED
    BY <1>10, <2>1, <2>2, PathWildcards
<1>12. Aligned(p, s, r, y + 1) /\ s = Len(p)
  BY <1>7, <1>10, <1>11
<1>13. /\ add'.path = p /\ add'.i = s + 1 /\ add'.ppath = r
  BY <1>1, <1>2 DEF ScanAny, TypeInv, Adds
<1>14. PICK names : calls' = <<Call(Take(p, s - 1), "static", EmptyRoute), Call(Take(p, s), "any", Full(names))>>
                    /\ pc' = "insert"
  BY <1>2 DEF ScanAny, Calls
<1>15. /\ calls'[1].rm = EmptyRoute /\ calls'[2].path = Take(p, s) /\ DOMAIN calls' = {1, 2}
  <2>1. PICK c1, c2 : /\ c1 = Call(Take(p, s - 1), "static", EmptyRoute)
                      /\ c2 = Call(Take(p, s), "any", Full(names))
    OBVIOUS
  <2>2. calls' = <<c1, c2>>
    BY <1>14, <2>1
  <2>3. c1.rm = EmptyRoute /\ c2.path = Take(p, s)
    BY <2>1 DEF Call
  <2> QED
    BY <2>2, <2>3
<1>16. Take(p, s) = p
  BY <1>4, <1>12 DEF Take
<1>17. Word(r) = Says(p, Len(p))
  BY <1>4, <1>7, <1>12, AlignedWord
<1>18. y + 1 \in Nat /\ s \in Nat
  BY <1>4, <1>7
<1>19. HasRead(s, y + 1)'
  <2>1. Fresh(p, s, r, y + 1)
    BY <1>3, <1>12, <1>18 DEF Fresh
  <2>2. s < s + 1 /\ \A k \in s + 1 .. Len(p) : ~(k < s + 1)
    BY <1>18
  <2> QED
    BY <1>12, <1>13, <2>1, <2>2 DEF HasRead
<1> QED
  BY <1>13, <1>14, <1>15, <1>16, <1>17, <1>18, <1>19 DEF ReadInv

\* All of the path is read.
LEMMA EndReads ==
  ASSUME NEW w, SegInv(w), ReadInv, ScanEnd
  PROVE  ReadInv'
<1>1. TypeInv /\ AddInv /\ pc = "scan"
  BY DEF SegInv, Inv, ScanEnd
<1>2. PICK p, s, r : p = add.path /\ s = ScanAt /\ r = add.ppath
  OBVIOUS
<1>3. p \in Seq(Characters) /\ Len(p) \in Nat
  BY <1>1, <1>2, AddFacts
<1>4. r \in Seq(Characters)
  BY <1>1, <1>2, RouteIsSeq
<1>5. s - 1 = Len(p)
  <2>1. s \in 1 .. Len(p) + 1 /\ s > Len(p)
    BY <1>1, <1>2, ScanAtFacts DEF ScanEnd
  <2> QED
    BY <1>3, <2>1
<1>6. PICK m, d \in Nat :
           /\ Aligned(p, m, r, d) /\ Fresh(p, m, r, d) /\ m <= s - 1
           /\ \A k \in m + 1 .. s - 1 : p[k] \notin {":", "*"}
  BY <1>1, <1>2, ScanReads
<1>7. PICK e, y : e = Len(p) /\ y = d + (e - m)
  OBVIOUS
<1>8. e \in Nat /\ y \in Nat /\ m <= e /\ ~(e + 1 <= Len(p)) /\ e <= Len(p)
  BY <1>3, <1>5, <1>6, <1>7
<1>9. Quiet(p, m, e)
  BY <1>5, <1>6, <1>7, <1>8 DEF Quiet
<1>10. Aligned(p, e, r, y)
  BY <1>3, <1>4, <1>6, <1>7, <1>8, <1>9, AlignStretch
<1>11. Word(r) = Says(p, Len(p))
  BY <1>3, <1>4, <1>7, <1>8, <1>10, AlignedWord
<1>12. /\ pc' = "insert" /\ UNCHANGED add /\ calls' = <<Call(p, "static", Full(add.pnames))>>
  BY <1>2 DEF ScanEnd, Calls
<1>13. Len(calls') = 1 /\ DOMAIN calls' = {1} /\ calls'[1].path = p /\ calls'[1].kind = "static"
  BY <1>12 DEF Call
<1> QED
  BY <1>2, <1>11, <1>12, <1>13 DEF ReadInv

\* Add goes on when insert has returned.
LEMMA ReturnReads ==
  ASSUME TypeInv, AddInv, pc = "insert", ReadInv, NEW t \in Seq(Nodes), t # <<>>, Returns(t)
  PROVE  ReadInv'
<1>1. calls \in Seq(Caller) /\ Len(calls) \in 1 .. 2 /\ UNCHANGED add /\ calls' = Tail(calls)
  BY DEF TypeInv, AddInv, Returns
<1>2. \A m, d \in Nat : HasRead(m, d) => HasRead(m, d)'
  BY <1>1 DEF HasRead
<1>3. CASE Len(calls) = 2
  <2>1. pc' = "insert"
    BY <1>3 DEF Returns
  <2>2. calls'[1] = calls[2] /\ Len(calls') = 1 /\ TypeInv'
    BY <2>1, ReturnsStep
  <2>3. calls' \in Seq(Caller)
    BY <2>2 DEF TypeInv
  <2>4. DOMAIN calls' = {1}
    BY <2>2, <2>3
  <2>5. 2 \in DOMAIN calls
    BY <1>1, <1>3
  <2> QED
    BY <1>1, <1>2, <1>3, <2>1, <2>2, <2>4, <2>5 DEF ReadInv
<1>4. CASE Len(calls) = 1
  <2>1. pc' = IF Now.kind = "static" /\ Now.rm # EmptyRoute THEN "register" ELSE "scan"
    BY <1>4 DEF Returns
  <2>2. CASE Now.kind = "static"
    <3>1. Now.rm # EmptyRoute
      BY <1>4, <2>2 DEF AddInv, Now
    <3> QED
      BY <2>1, <2>2, <3>1 DEF ReadInv
  <2>3. CASE Now.kind # "static"
    <3>1. \E m, d \in Nat : HasRead(m, d)
      BY <1>4, <2>3 DEF ReadInv, Now
    <3> QED
      BY <1>2, <2>1, <2>3, <3>1 DEF ReadInv
  <2> QED
    BY <2>2, <2>3
<1> QED
  BY <1>1, <1>3, <1>4

-----------------------------------------------------------------------------
(* What Find returns fits the topic *)

\* Handlers are at the nodes with the words of their routes
FitInv(w) ==
  /\ ReadInv /\ FindFits(w, pc, find)
  /\ \A i \in DOMAIN tree : OwnsAll(Fitting[w[i]], tree[i])

\* The handler that insert registers is for the word of the path.
LEMMA NowFits ==
  ASSUME NEW w, SegInv(w), ReadInv, pc = "insert"
  PROVE  /\ Owns(Fitting[Now.path], Now.rm, Now.method)
         /\ Fitting[<<>>] \subseteq Fitting[Now.path]
<1>1. Inv(w) /\ TypeInv /\ AddInv /\ ScanInv(w)
  BY DEF SegInv, Inv
<1>2. Now \in Caller /\ Now.rm \in RouteMethods
  BY <1>1, NowOwns
<1>3. Now.path \in Seq(Characters) /\ <<>> \in Seq(Characters)
  BY <1>2, CallFacts
<1>4. Fitting[<<>>] = {}
  BY <1>3 DEF Fitting
<1>5. CASE Now.rm = EmptyRoute
  BY <1>4, <1>5 DEF Owns, EmptyRoute
<1>6. CASE Now.rm # EmptyRoute
  <2>1. Len(calls) = 1
    BY <1>1, <1>6 DEF AddInv, Now
  <2>2. calls \in Seq(Caller) /\ 1 \in DOMAIN calls
    BY <1>1, <2>1 DEF TypeInv
  <2>3. /\ Now.method = add.method /\ Now.rm \in {EmptyRoute} \cup {Full(add.pnames)}
        /\ 1 <= Len(Now.path)
    BY <1>1, <2>2 DEF AddInv, Now
  <2>4. /\ Now.rm.handler = add.method /\ Now.rm.ppath = add.ppath /\ Now.rm.pnames = add.pnames
    BY <1>6, <2>3 DEF Full
  <2>5. Now.path = add.path /\ Word(add.ppath) = Says(add.path, Len(add.path))
    BY <1>6, <2>2 DEF ReadInv, Now
  <2>6. Len(add.pnames) = Count(add.path, Len(add.path))
    BY <1>1, <2>1, <2>5 DEF ScanInv, Now
  <2>7. Reads(Now.rm, Now.path)
    BY <2>4, <2>5, <2>6 DEF Reads
  <2>8. Now.path # <<>>
    BY <2>3
  <2>9. Now.rm \in Fitting[Now.path]
    BY <1>2, <1>3, <2>7, <2>8 DEF Fitting
  <2> QED
    BY <1>4, <2>3, <2>4, <2>9 DEF Owns
<1> QED
  BY <1>5, <1>6

\* Add and insert keep what is read of the route.
LEMMA InsertReads ==
  ASSUME NEW w, SegInv(w), ReadInv, NEW v, Inserts(w, v),
         \A i \in DOMAIN tree : OwnsAll(Fitting[w[i]], tree[i])
  PROVE  /\ ReadInv' /\ \A i \in DOMAIN tree' : OwnsAll(Fitting[v[i]], tree'[i])
         /\ pc' \in {"insert", "scan", "register"}
<1>1. pc = "insert" /\ Inv(w) /\ TypeInv /\ AddInv
  BY DEF SegInv, Inv, Inserts, InsertAtRoot, InsertSplit, InsertFork, InsertChild, InsertExists, Below,
         Inserting
<1>2. PICK S : S = Fitting
  OBVIOUS
<1>3. /\ Owns(S[Now.path], Now.rm, Now.method) /\ S[<<>>] \subseteq S[Now.path]
      /\ \A i \in DOMAIN tree : OwnsAll(S[w[i]], tree[i])
  BY <1>1, <1>2, NowFits
<1>4. /\ Returns(tree') /\ tree' \in Seq(Nodes) /\ tree' # <<>>
      /\ \A i \in DOMAIN tree' : OwnsAll(S[v[i]], tree'[i])
  BY <1>1, <1>3, InsertOwns
<1>5. ReadInv'
  BY <1>1, <1>4, ReturnReads
<1>6. pc' \in {"insert", "scan", "register"}
  BY <1>1, <1>4, ReturnsStep
<1> QED
  BY <1>2, <1>4, <1>5, <1>6

\* Every step keeps the handlers where their routes lead.
LEMMA NextFits ==
  ASSUME ColonsApart, WildcardsLast, [Next]_vars, NEW w, RoomOf(w), FitInv(w)
  PROVE  \E v : RoomOf(v)' /\ FitInv(v)'
<1>1. PICK v : Rewords(w, v) /\ RoomOf(v)'
  BY NextRoom
<1>2. /\ SegInv(w) /\ FindOK(pc, find) /\ FindAt(w, pc, find) /\ FindFits(w, pc, find) /\ ReadInv
      /\ \A i \in DOMAIN tree : OwnsAll(Fitting[w[i]], tree[i])
  BY DEF RoomOf, FitInv
<1>3. TypeInv /\ AddInv
  BY <1>2 DEF SegInv, Inv
<1>4. AddInv'
  BY <1>1 DEF RoomOf, SegInv, Inv
<1>5. ASSUME NEW l, l \notin {"loop", "param", "any", "out", "done"}, NEW f PROVE FindFits(v, l, f)'
  BY <1>5 DEF FindFits
<1>6. CASE Inserts(w, v)
  <2>1. /\ ReadInv' /\ \A i \in DOMAIN tree' : OwnsAll(Fitting[v[i]], tree'[i])
        /\ pc' \in {"insert", "scan", "register"}
    BY <1>2, <1>6, InsertReads
  <2>2. Fitting' = Fitting
    BY DEF Fitting
  <2>3. FindFits(v, pc, find)'
    BY <2>1 DEF FindFits
  <2> QED
    BY <1>1, <2>1, <2>2, <2>3 DEF FitInv
<1>7. CASE UNCHANGED tree /\ v = w
  <2>1. SUFFICES ReadInv' /\ FindFits(w, pc', find')
    <3>1. FindFits(v, pc, find)'
      BY <1>7, <2>1 DEF FindFits, Reach, Start, Above
    <3>2. \A i \in DOMAIN tree' : OwnsAll(Fitting[v[i]], tree'[i])
      BY <1>2, <1>7
    <3> QED
      BY <1>1, <2>1, <3>1, <3>2 DEF FitInv
  <2>2. ASSUME \E l \in FindLabels : \E f : FindOK(l, f) /\ Goes(l, f)
        PROVE  Searching(w) /\ Arriving(w) /\ ReadInv'
    <3>1. UNCHANGED maxParam /\ pc' \in FindLabels
      BY <2>2 DEF Goes
    <3>2. FindOK(pc', find')
      BY <1>1, <1>7 DEF RoomOf, FindOK
    <3>3. FindAt(w, pc', find')
      BY <1>1, <1>7, <3>1 DEF RoomOf, FindAt, Walking, Taking, TakenBy, Above
    <3> QED
      BY <1>2, <3>1, <3>2, <3>3 DEF Searching, Arriving, ReadInv, FindLabels
  <2>3. ASSUME pc' \notin {"loop", "param", "any", "out", "done"} PROVE FindFits(w, pc', find')
    BY <2>3 DEF FindFits
  <2>4. ASSUME pc' \notin {"scan", "insert"} PROVE ReadInv'
    BY <2>4 DEF ReadInv
  <2>5. ASSUME NEW r \in Routes, Add(r[1], r[2]) PROVE ReadInv' /\ FindFits(w, pc', find')
    <3>1. ReadInv' /\ pc' = "scan"
      BY <2>5, AddReads DEF Add
    <3> QED
      BY <2>3, <3>1
  <2>6. CASE ScanEscape \/ ScanParam \/ ScanAny \/ ScanEnd
    <3>1. ReadInv'
      BY <1>2, <1>4, <2>6, EscapeReads, ParamReads, AnyReads, EndReads
    <3>2. pc' \in {"scan", "insert"}
      BY <2>6 DEF ScanEscape, ScanParam, ScanAny, ScanEnd, Scanning, Calls
    <3> QED
      BY <2>3, <3>1, <3>2
  <2>7. CASE Registered
    BY <2>3, <2>4, <2>7 DEF Registered
  <2>8. CASE InsertDeeper
    <3>1. UNCHANGED <<pc, add, calls>> /\ pc = "insert"
      BY <2>8 DEF InsertDeeper, Below, Inserting
    <3>2. ReadInv'
      BY <1>2, <3>1 DEF ReadInv, HasRead
    <3> QED
      BY <2>3, <3>1, <3>2
  <2>9. CASE InsertAtRoot \/ InsertSplit \/ InsertFork \/ InsertChild \/ InsertExists
    <3>1. \E u : Inserts(w, u)
      BY <2>9 DEF Inserts
    <3>2. ReadInv' /\ pc' \in {"insert", "scan", "register"}
      BY <1>2, <3>1, InsertReads
    <3> QED
      BY <2>3, <3>2
  <2>10. ASSUME NEW m \in Methods, NEW t \in Topics, Find(m, t) PROVE ReadInv' /\ FindFits(w, pc', find')
    <3>1. FindFits(w, pc', find')
      BY <1>2, <2>10, StartFits
    <3>2. pc' = "loop"
      BY <2>10 DEF Find
    <3> QED
      BY <2>4, <3>1, <3>2
  <2>11. CASE LoopBacktracks \/ LoopMatches \/ LoopPasses \/ LoopDescends
    <3>1. \E l \in FindLabels : \E f : FindOK(l, f) /\ Goes(l, f)
      BY <1>2, <2>11, LoopStep DEF SegInv, Inv
    <3>2. Searching(w) /\ Arriving(w) /\ ReadInv'
      BY <2>2, <3>1
    <3> QED
      BY <1>2, <2>11, <3>2, LoopFits
  <2>12. CASE ParamTakes \/ ParamPasses
    <3>1. \E l \in FindLabels : \E f : FindOK(l, f) /\ Goes(l, f)
      BY <1>2, <2>12, ParamStep DEF SegInv, Inv
    <3>2. Searching(w) /\ Arriving(w) /\ ReadInv'
      BY <2>2, <3>1
    <3> QED
      BY <2>12, <3>2, ParamFits
  <2>13. CASE AnyTakes \/ AnyBacktracks
    <3>1. \E l \in FindLabels : \E f : FindOK(l, f) /\ Goes(l, f)
      BY <1>2, <2>13, AnyStep DEF SegInv, Inv
    <3>2. Searching(w) /\ Arriving(w) /\ ReadInv'
      BY <2>2, <3>1
    <3> QED
      BY <1>2, <2>13, <3>2, AnyFits, BackFits
  <2>14. CASE Out \/ Use
    <3>1. \E l \in FindLabels : \E f : FindOK(l, f) /\ Goes(l, f)
      BY <1>2, <2>14, EndStep DEF SegInv, Inv
    <3>2. Searching(w) /\ Arriving(w) /\ ReadInv'
      BY <2>2, <3>1
    <3> QED
      BY <2>14, <3>2, EndFits
  <2>15. CASE UNCHANGED vars
    <3>1. UNCHANGED <<pc, add, calls, find>>
      BY <2>15 DEF vars
    <3>2. ReadInv'
      BY <1>2, <3>1 DEF ReadInv, HasRead
    <3> QED
      BY <1>2, <3>1, <3>2
  <2> QED
    BY <2>5, <2>6, <2>7, <2>8, <2>9, <2>10, <2>11, <2>12, <2>13, <2>14, <2>15 DEF Next
<1> QED
  BY <1>1, <1>6, <1>7 DEF Rewords

\* If no route has an escaped colon where another one has a parameter, and
\* none goes on after a wildcard, a handler that Find hands out was registered
\* for the method and the path it comes with, and if it was matched at the end
\* of the search, the topic is this path with the values that the handler gets
\* by name in place of the parameters, for any routes in any order and any
\* topics (pubsub/broker-router.go: Add, insert, Find; broker-context.go: Param).
THEOREM FoundHandlersFitTheTopic == ColonsApart /\ WildcardsLast => (Spec => []FoundFitsTopic)
<1> SUFFICES ASSUME ColonsApart, WildcardsLast PROVE Spec => []FoundFitsTopic
  OBVIOUS
<1> DEFINE I == \E w : RoomOf(w) /\ FitInv(w)
<1>1. Init => I
  <2> SUFFICES ASSUME Init PROVE I
    OBVIOUS
  <2>1. PICK w : RoomOf(w)
    BY InitRoom DEF RoomInv
  <2>2. pc = "idle"
    BY DEF Init
  <2>3. ReadInv /\ FindFits(w, pc, find)
    BY <2>2 DEF ReadInv, FindFits
  <2>4. ASSUME NEW i \in DOMAIN tree PROVE OwnsAll(Fitting[w[i]], tree[i])
    <3>1. PICK n : n = NewNode("static", <<>>, NoNode, <<>>)
      OBVIOUS
    <3>2. OwnsAll(Fitting[w[i]], n) /\ SameHandlers(n, [n EXCEPT !.isLeaf = FALSE])
      BY <3>1, NewOwns DEF SameHandlers, NewNode
    <3>3. OwnsAll(Fitting[w[i]], [n EXCEPT !.isLeaf = FALSE])
      BY <3>2, SameOwns
    <3>4. PICK x : x = [n EXCEPT !.isLeaf = FALSE]
      OBVIOUS
    <3>5. tree = <<x>>
      BY <3>1, <3>4 DEF Init
    <3>6. tree[i] = x
      BY <3>5
    <3> QED
      BY <3>3, <3>4, <3>6
  <2> QED
    BY <2>1, <2>3, <2>4 DEF FitInv
<1>2. I /\ [Next]_vars => I'
  BY NextFits
<1>3. I /\ FoundIsRegistered => FoundFitsTopic
  <2> SUFFICES ASSUME NEW w, RoomOf(w), FitInv(w), pc = "done", find.handler \in AnyMethod,
                      find.matched # NoRoute, IsInjective(find.pnames)
               PROVE  Filled(Word(find.rpath)) = find.path
    BY DEF FoundFitsTopic, AnyMethod
  <2>1. find \in Finds /\ FindFits(w, "done", find)
    BY DEF RoomOf, FitInv, SegInv, Inv, TypeInv
  <2> QED
    BY <2>1, FoundFits
<1> QED
  <2> HIDE DEF I
  <2> QED
    BY <1>1, <1>2, <1>3, FoundHandlersAreRegistered, PTL DEF Spec
=============================================================================
