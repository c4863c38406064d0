------------------------------- MODULE Router -------------------------------
(***************************************************************************)
(* pubsub/broker-router.go: the prefix tree of routes that a broker        *)
(* registers handlers in (Add, insert) and looks topics up in (Find).      *)
(*                                                                         *)
(* A path is a sequence of one-character strings.  One caller at a time    *)
(* uses the router, as in the repository, and pc says where it is: every   *)
(* branch of the loops in Add, insert and Find is an action.  A route is   *)
(* registered before the broker serves; a look-up may come between two     *)
(* registrations.                                                          *)
(***************************************************************************)
EXTENDS Integers, Sequences, FiniteSets, FiniteSetsExt, SequencesExt

CONSTANTS Methods,     \* methods that events have
          Characters,  \* characters of paths
          Routes,      \* <<method, path>> that may be registered
          Topics,      \* paths that may be looked up
          MaxRoutes    \* bounds the registrations

RouteNotFound == "RouteNotFound"

ASSUME MethodsAssumption ==
  {"none", "nil", RouteNotFound, "NotFound", "MethodNotAllowed"} \cap Methods = {}
ASSUME MaxRoutesAssumption == MaxRoutes \in Nat
ASSUME PathsAssumption ==
  /\ {"/", ":", "*", "\\"} \subseteq Characters
  /\ {"PARAM", "ANY"} \cap Characters = {}
  /\ Routes \subseteq (Methods \cup {RouteNotFound}) \X Seq(Characters)
  /\ Topics \subseteq Seq(Characters)

Kinds == {"static", "param", "any"}

\* routeMethod{}: neither path, names nor handler, and the nil *routeMethod.
\* A handler is named by the method it was registered for.
EmptyRoute == [ppath |-> <<>>, pnames |-> <<>>, handler |-> "nil"]
NoRoute == [EmptyRoute EXCEPT !.handler = "none"]

NoNode == 0
Root == 1

\* newNode without children or methods
NewNode(kind, prefix, parent, path) ==
  [kind |-> kind, prefix |-> prefix, parent |-> parent, originalPath |-> path,
   statics |-> {}, param |-> NoNode, any |-> NoNode,
   methods |-> [m \in Methods |-> NoRoute], notFound |-> NoRoute,
   paramsCount |-> 0, isLeaf |-> TRUE, isHandler |-> FALSE]

VARIABLES
  tree,      \* sequence of nodes, the root first; links are indices
  maxParam,  \* the largest number of parameters in a route
  routes,    \* the registered routes: <<method, topic>>
  pc,        \* where the caller is: "idle", in Add "scan" and
             \* "register", in insert "insert", in Find "loop", "param", "any", "out"; "done"
             \* when Find has returned, "panic" when it could not
  add,       \* Add: its arguments, ppath, path without the names of the
             \* parameters before index i, and their names
  calls,     \* the calls of insert that Add has come to, the first running
  cur,       \* insert: the node and what of the path is left
  find       \* Find: its variables and the RouterContext

vars == <<tree, maxParam, routes, pc, add, calls, cur, find>>

Take(s, n) == SubSeq(s, 1, n)
Drop(s, n) == SubSeq(s, n + 1, Len(s))

\* The length of the longest common prefix
Lcp(s, t) ==
  Max({n \in 0 .. Min({Len(s), Len(t)}) : Take(s, n) = Take(t, n)})

IsLeafNode(n) == n.statics = {} /\ n.param = NoNode /\ n.any = NoNode

NoAdd == [method |-> "none", topic |-> <<>>, ppath |-> <<>>, path |-> <<>>, i |-> 1, pnames |-> <<>>]
NoCur == [node |-> Root, search |-> <<>>]

\* A RouterContext as NewBrokerContext makes it, and Find's variables
NewFind(m, topic) ==
  [method |-> m, path |-> topic, node |-> Root, search |-> topic,
   searchIndex |-> 0, paramIndex |-> 0, pvalues |-> [i \in 1 .. maxParam |-> <<>>],
   best |-> NoNode, matched |-> NoRoute,
   handler |-> "NotFound", rpath |-> topic, pnames |-> [i \in 1 .. maxParam |-> <<>>]]

NoFind == [NewFind("none", <<>>) EXCEPT !.pvalues = <<>>, !.pnames = <<>>]

Init ==
  /\ tree = <<[NewNode("static", <<>>, NoNode, <<>>) EXCEPT !.isLeaf = FALSE]>>
  /\ maxParam = 0
  /\ routes = {}
  /\ pc = "idle"
  /\ add = NoAdd
  /\ calls = <<>>
  /\ cur = NoCur
  /\ find = NoFind

-----------------------------------------------------------------------------
(* Add *)

Rooted(path) ==
  IF path = <<>> \/ path[1] # "/" THEN <<"/">> \o path ELSE path

Add(m, topic) ==
  /\ pc = "idle"
  /\ Cardinality(routes) < MaxRoutes
  /\ pc' = "scan"
  /\ add' = [method |-> m, topic |-> topic, ppath |-> Rooted(topic), path |-> Rooted(topic),
             i |-> 1, pnames |-> <<>>]
  /\ UNCHANGED <<tree, maxParam, routes, calls, cur, find>>

\* The first index from i on that holds one of the characters, or the end
Next1(path, i, chars) ==
  Min({j \in i .. Len(path) : path[j] \in chars} \cup {Len(path) + 1})

\* The route with these names, with the handler that Add was given
Full(names) == [ppath |-> add.ppath, pnames |-> names, handler |-> add.method]

Call(path, kind, rm) ==
  [method |-> add.method, path |-> path, kind |-> kind, rm |-> rm]

\* insert is called for each of cs in turn
Calls(cs) ==
  /\ calls' = cs
  /\ cur' = [node |-> Root, search |-> cs[1].path]
  /\ pc' = "insert"

\* The character of path that the loop stops at next
ScanAt == Next1(add.path, add.i, {":", "*"})

Scanning(char) ==
  /\ pc = "scan"
  /\ ScanAt <= Len(add.path)
  /\ add.path[ScanAt] = char

\* An escaped colon loses its backslash and is part of the path
Escaped == ScanAt > 1 /\ add.path[ScanAt - 1] = "\\"

ScanEscape ==
  /\ Scanning(":") /\ Escaped
  /\ add' = [add EXCEPT !.path = RemoveAt(@, ScanAt - 1), !.i = ScanAt]
  /\ UNCHANGED <<tree, maxParam, routes, pc, calls, cur, find>>

ScanParam ==
  /\ Scanning(":") /\ ~Escaped
  /\ LET end == Next1(add.path, ScanAt, {"/"})
         names == Append(add.pnames, SubSeq(add.path, ScanAt + 1, end - 1))
         short == Take(add.path, ScanAt) \o Drop(add.path, end - 1)
         last == ScanAt = Len(short)
     IN  /\ add' = [add EXCEPT !.path = short, !.pnames = names, !.i = ScanAt + 2]
         /\ Calls(<<Call(Take(short, ScanAt - 1), "static", EmptyRoute),
                    Call(Take(short, ScanAt), "param",
                         IF last THEN Full(names) ELSE EmptyRoute)>>)
  /\ UNCHANGED <<tree, maxParam, routes, find>>

ScanAny ==
  /\ Scanning("*")
  /\ LET names == Append(add.pnames, <<"*">>)
     IN  /\ add' = [add EXCEPT !.pnames = names, !.i = ScanAt + 1]
         /\ Calls(<<Call(Take(add.path, ScanAt - 1), "static", EmptyRoute),
                    Call(Take(add.path, ScanAt), "any", Full(names))>>)
  /\ UNCHANGED <<tree, maxParam, routes, find>>

\* The last call is for the whole path
ScanEnd ==
  /\ pc = "scan"
  /\ ScanAt > Len(add.path)
  /\ Calls(<<Call(add.path, "static", Full(add.pnames))>>)
  /\ UNCHANGED <<tree, maxParam, routes, add, find>>

\* Broker.Add records the route once the router has it
Registered ==
  /\ pc = "register"
  /\ routes' = routes \cup {<<add.method, add.topic>>}
  /\ add' = NoAdd
  /\ pc' = "idle"
  /\ UNCHANGED <<tree, maxParam, calls, cur, find>>

-----------------------------------------------------------------------------
(* insert *)

\* routeMethods.set: the map of other methods does not keep a nil handler
Set(methods, m, rm) ==
  [methods EXCEPT ![m] =
     IF m \notin {"PUB", "SUB", "UNSUB"} /\ rm.handler = "nil" THEN NoRoute ELSE rm]

IsHandler(methods) == \E m \in Methods : methods[m] # NoRoute

AddMethod(n, m, rm) ==
  IF m = RouteNotFound
  THEN [n EXCEPT !.notFound = rm]
  ELSE LET methods == Set(n.methods, m, rm)
       IN  [n EXCEPT !.methods = methods,
                     !.isHandler = rm.handler # "nil" \/ IsHandler(methods)]

\* addMethod with the assignments that always follow it
Register(n, m, rm) ==
  [AddMethod(n, m, rm) EXCEPT !.paramsCount = Len(rm.pnames), !.originalPath = rm.ppath]

\* The same, guarded as in most branches by a handler
RegisterHandler(n, m, rm) ==
  IF rm.handler # "nil" THEN Register(n, m, rm) ELSE n

\* findStaticChild and findChildWithLabel: the child whose prefix starts so
StaticChild(n, label) ==
  LET cs == {c \in n.statics : tree[c].prefix[1] = label}
  IN  IF cs = {} THEN NoNode ELSE CHOOSE c \in cs : TRUE

ChildWithLabel(n, label) ==
  CASE StaticChild(n, label) # NoNode -> StaticChild(n, label)
    [] StaticChild(n, label) = NoNode /\ label = ":" -> n.param
    [] StaticChild(n, label) = NoNode /\ label = "*" -> n.any
    [] OTHER -> NoNode

SetLeaf(n) == [n EXCEPT !.isLeaf = IsLeafNode(n)]

Now == calls[1]
Node == tree[cur.node]
Common == Lcp(cur.search, Node.prefix)

Inserting == pc = "insert"

\* A mutant: maxParam does not grow.
ReturnsMutant(t) ==
  /\ tree' = t
  /\ calls' = Tail(calls)
  /\ IF Len(calls) > 1
     THEN cur' = [node |-> Root, search |-> calls[2].path] /\ UNCHANGED pc
     ELSE /\ cur' = NoCur
          /\ pc' = IF Now.kind = "static" /\ Now.rm # EmptyRoute THEN "register" ELSE "scan"
  /\ UNCHANGED <<maxParam, routes, add, find>>

\* insert returns; Add goes on with its next call or its loop, or returns
\* after its last call, the only one that has a handler for a static node
Returns(t) ==
  /\ tree' = t
  /\ maxParam' = Max({maxParam, Len(Now.rm.pnames)})
  /\ calls' = Tail(calls)
  /\ IF Len(calls) > 1
     THEN cur' = [node |-> Root, search |-> calls[2].path] /\ UNCHANGED pc
     ELSE /\ cur' = NoCur
          /\ pc' = IF Now.kind = "static" /\ Now.rm # EmptyRoute THEN "register" ELSE "scan"
  /\ UNCHANGED <<routes, add, find>>

\* The tree is empty
InsertAtRoot ==
  /\ Inserting /\ Common = 0
  /\ LET n == [Node EXCEPT !.prefix = cur.search]
         k == IF Now.rm.handler # "nil" THEN [n EXCEPT !.kind = Now.kind] ELSE n
     IN  Returns([tree EXCEPT ![cur.node] = SetLeaf(RegisterHandler(k, Now.method, Now.rm))])

\* A mutant: the lower half does not get the wildcard.
LowerMutant ==
  [Node EXCEPT !.prefix = Drop(@, Common), !.parent = cur.node, !.any = NoNode,
               !.isHandler = IsHandler(Node.methods)]

\* The lower half of a node that is split, with all that the node had
Lower == [Node EXCEPT !.prefix = Drop(@, Common), !.parent = cur.node,
                      !.isLeaf = IsLeafNode(Node), !.isHandler = IsHandler(Node.methods)]

\* A mutant: the nodes below keep their parent.
MovedMutant(c) == tree

\* The nodes below n, and its parent, when its lower half is node c
Moved(c) ==
  [i \in DOMAIN tree |->
     IF i \in Node.statics \cup {Node.param, Node.any} THEN [tree[i] EXCEPT !.parent = c]
                                                       ELSE tree[i]]

\* The upper half
Upper(c) ==
  [NewNode("static", Take(Node.prefix, Common), Node.parent, <<>>)
     EXCEPT !.statics = {c}, !.isLeaf = FALSE]

\* The path ends inside the node's prefix
InsertSplit ==
  /\ Inserting /\ 0 < Common /\ Common < Len(Node.prefix) /\ Common = Len(cur.search)
  /\ LET c == Len(tree) + 1
         n == [Upper(c) EXCEPT !.kind = Now.kind]
     IN  Returns(Append([Moved(c) EXCEPT ![cur.node] = SetLeaf(Register(n, Now.method, Now.rm))],
                        Lower))

\* The path leaves the node's prefix: the upper half gets a second child
InsertFork ==
  /\ Inserting /\ 0 < Common /\ Common < Len(Node.prefix) /\ Common < Len(cur.search)
  /\ LET c == Len(tree) + 1
         n == [Upper(c) EXCEPT !.statics = {c, c + 1}]
         new == NewNode(Now.kind, Drop(cur.search, Common), cur.node, <<>>)
     IN  Returns([Moved(c) EXCEPT ![cur.node] = SetLeaf(n)]
                   \o <<Lower, RegisterHandler(new, Now.method, Now.rm)>>)

Below == Inserting /\ Common = Len(Node.prefix) /\ Common < Len(cur.search)

\* Where insert goes from the node, if anywhere
Deeper == ChildWithLabel(Node, cur.search[Common + 1])

InsertDeeper ==
  /\ Below /\ Common > 0 /\ Deeper # NoNode
  /\ cur' = [node |-> Deeper, search |-> Drop(cur.search, Common)]
  /\ UNCHANGED <<tree, maxParam, routes, pc, add, calls, find>>

InsertChild ==
  /\ Below /\ Common > 0 /\ Deeper = NoNode
  /\ LET c == Len(tree) + 1
         new == NewNode(Now.kind, Drop(cur.search, Common), cur.node, Now.rm.ppath)
         n == CASE Now.kind = "static" -> [Node EXCEPT !.statics = @ \cup {c}]
                [] Now.kind = "param" -> [Node EXCEPT !.param = c]
                [] Now.kind = "any" -> [Node EXCEPT !.any = c]
     IN  Returns(Append([tree EXCEPT ![cur.node] = SetLeaf(n)],
                        RegisterHandler(new, Now.method, Now.rm)))

InsertExists ==
  /\ Inserting /\ Common > 0 /\ Common = Len(Node.prefix) /\ Common = Len(cur.search)
  /\ Returns([tree EXCEPT ![cur.node] = RegisterHandler(@, Now.method, Now.rm)])

-----------------------------------------------------------------------------
(* Find *)

Find(m, topic) ==
  /\ pc = "idle"
  /\ pc' = "loop"
  /\ find' = NewFind(m, topic)
  /\ UNCHANGED <<tree, maxParam, routes, add, calls, cur>>

Here == tree[find.node]

\* Find goes on at l with the variables f
Goes(l, f) ==
  /\ pc' = l
  /\ find' = f
  /\ UNCHANGED <<tree, maxParam, routes, add, calls, cur>>

\* Mutants: no kind comes after a wildcard's; a parameter is tried again.
NextKindMutant(n) == CASE n.kind = "static" -> "param" [] n.kind = "param" -> "any" [] n.kind = "any" -> "none"
NextKindRetries(n) == CASE n.kind = "static" -> "param" [] n.kind = "param" -> "param" [] n.kind = "any" -> "static"

\* backtrackToNextNodeKind gives up the node of f, and what was matched by it
\* unless the static block calls; after an any node comes a static one
NextKind(n) == CASE n.kind = "static" -> "param" [] n.kind = "param" -> "any" [] n.kind = "any" -> "static"

\* How much of the topic the node had taken
Taken(f, n) == IF n.kind = "static" THEN Len(n.prefix) ELSE Len(f.pvalues[f.paramIndex])

Restored(f, n) ==
  LET start == f.searchIndex - Taken(f, n)
      g == [f EXCEPT !.node = n.parent, !.searchIndex = start, !.search = Drop(f.path, start)]
  IN  IF n.kind = "static" THEN g
      ELSE [g EXCEPT !.paramIndex = @ - 1, !.pvalues[f.paramIndex] = <<>>]

Backtrack(f) ==
  LET n == tree[f.node]
  IN  IF \/ n.kind # "static" /\ f.paramIndex \notin DOMAIN f.pvalues
         \/ f.searchIndex < Taken(f, n)
      THEN Goes("panic", f)
      ELSE Goes(IF n.parent = NoNode \/ NextKind(n) = "static" THEN "out" ELSE NextKind(n),
                Restored(f, n))

\* A static node must match with its whole prefix
Matched == IF Here.kind = "static" THEN Here.prefix ELSE <<>>

\* It does not, so its parent's parameter is tried.  At the root Find returns
\* with the context as it was made.
LoopBacktracks ==
  /\ pc = "loop"
  /\ ~IsPrefix(Matched, find.search)
  /\ Goes(IF Here.parent = NoNode THEN "done" ELSE "param", [find EXCEPT !.node = Here.parent])

\* What is left of the topic after the node
Rest == Drop(find.search, Len(Matched))

Advanced == [find EXCEPT !.search = Rest, !.searchIndex = @ + Len(Matched)]

\* The topic ends here: a handler of the method or a not-found handler is the
\* match; a handler of another method is the best one up to now
AtEnd == pc = "loop" /\ Rest = <<>> /\ IsPrefix(Matched, find.search)

FirstBest(f) == IF f.best = NoNode THEN f.node ELSE f.best

LoopMatches ==
  /\ AtEnd
  /\ \/ /\ Here.isHandler /\ Here.methods[find.method] # NoRoute
        /\ Goes("out", [Advanced EXCEPT !.best = FirstBest(find),
                                        !.matched = Here.methods[find.method]])
     \/ /\ ~Here.isHandler /\ Here.notFound # NoRoute
        /\ Goes("out", [Advanced EXCEPT !.matched = Here.notFound])

LoopPasses ==
  /\ AtEnd
  /\ IF Here.isHandler THEN Here.methods[find.method] = NoRoute ELSE Here.notFound = NoRoute
  /\ Goes("param", [Advanced EXCEPT !.best = IF Here.isHandler THEN FirstBest(find) ELSE @])

LoopDescends ==
  /\ pc = "loop" /\ Rest # <<>> /\ IsPrefix(Matched, find.search)
  /\ LET c == StaticChild(Here, Rest[1])
     IN  IF c # NoNode THEN Goes("loop", [Advanced EXCEPT !.node = c])
                       ELSE Goes("param", Advanced)

\* A mutant: the value lacks its last character.
ParamTakesMutant ==
  /\ pc = "param" /\ find.search # <<>> /\ Here.param # NoNode
  /\ LET c == Here.param
         i == IF tree[c].isLeaf THEN Len(find.search) ELSE Next1(find.search, 1, {"/"}) - 1
         p == find.paramIndex + 1
     IN  IF p > Len(find.pvalues)
         THEN Goes("panic", find)
         ELSE Goes("loop", [find EXCEPT !.node = c, !.pvalues[p] = Take(find.search, i - 1),
                                        !.paramIndex = p, !.searchIndex = @ + i,
                                        !.search = Drop(find.search, i)])

\* A parameter takes a segment, or all that is left if its node is a leaf
ParamTakes ==
  /\ pc = "param" /\ find.search # <<>> /\ Here.param # NoNode
  /\ LET c == Here.param
         i == IF tree[c].isLeaf THEN Len(find.search) ELSE Next1(find.search, 1, {"/"}) - 1
         p == find.paramIndex + 1
     IN  IF p > Len(find.pvalues)
         THEN Goes("panic", find)
         ELSE Goes("loop", [find EXCEPT !.node = c, !.pvalues[p] = Take(find.search, i),
                                        !.paramIndex = p, !.searchIndex = @ + i,
                                        !.search = Drop(find.search, i)])

ParamPasses ==
  /\ pc = "param" /\ (find.search = <<>> \/ Here.param = NoNode)
  /\ Goes("any", find)

\* A wildcard takes all that is left
AnyTakes ==
  /\ pc = "any" /\ Here.any # NoNode
  /\ LET c == Here.any
         n == tree[c]
         f == [find EXCEPT !.node = c, !.pvalues[n.paramsCount] = find.search,
                           !.paramIndex = @ + 1, !.search = <<>>,
                           !.searchIndex = @ + Len(find.search)]
         b == [f EXCEPT !.best = FirstBest(f)]
     IN  CASE n.paramsCount \notin DOMAIN find.pvalues -> Goes("panic", find)
           [] OTHER ->
                CASE n.methods[find.method] # NoRoute ->
                       Goes("out", [f EXCEPT !.matched = n.methods[find.method]])
                  [] n.methods[find.method] = NoRoute /\ n.notFound # NoRoute ->
                       Goes("out", [b EXCEPT !.matched = n.notFound])
                  [] OTHER -> Backtrack(b)

AnyBacktracks ==
  /\ pc = "any" /\ Here.any = NoNode
  /\ Backtrack(find)

\* The end of Find: the match, or what the best node has to offer
Found(rm) == [find EXCEPT !.handler = rm.handler, !.rpath = rm.ppath, !.pnames = rm.pnames]

Out ==
  /\ pc = "out"
  /\ LET b == tree[find.best]
     IN  CASE find.matched # NoRoute -> Goes("done", Found(find.matched))
           [] find.matched = NoRoute /\ find.best = NoNode ->
                Goes(IF find.node = NoNode THEN "done" ELSE "panic", find)
           [] find.matched = NoRoute /\ find.best # NoNode ->
                Goes("done",
                     IF b.notFound # NoRoute THEN Found(b.notFound)
                     ELSE [find EXCEPT !.handler = IF b.isHandler THEN "MethodNotAllowed"
                                                                 ELSE "NotFound",
                                       !.rpath = b.originalPath, !.pnames = <<>>])

\* What the handler reads of the context: a value by its name
Param(name) ==
  LET is == {i \in DOMAIN find.pnames : i <= Len(find.pvalues) /\ find.pnames[i] = name}
  IN  IF is = {} THEN <<>> ELSE find.pvalues[Min(is)]

\* The handler is through with the context
Use ==
  /\ pc = "done"
  /\ Goes("idle", NoFind)

-----------------------------------------------------------------------------
Next ==
  \/ \E r \in Routes : Add(r[1], r[2])
  \/ ScanEscape \/ ScanParam \/ ScanAny \/ ScanEnd \/ Registered
  \/ InsertAtRoot \/ InsertSplit \/ InsertFork \/ InsertDeeper \/ InsertChild \/ InsertExists
  \/ \E m \in Methods, t \in Topics : Find(m, t)
  \/ LoopBacktracks \/ LoopMatches \/ LoopPasses \/ LoopDescends
  \/ ParamTakes \/ ParamPasses \/ AnyTakes \/ AnyBacktracks \/ Out \/ Use

Spec == Init /\ [][Next]_vars

\* A call runs to its end: nothing in it waits
FairSpec == Spec /\ WF_vars(pc # "idle" /\ Next)

-----------------------------------------------------------------------------
(* What a look-up should answer, from the registered routes alone *)

\* The route as a word over characters, PARAM and ANY
IsParam(r, j) == r[j] = ":" /\ ~(j > 1 /\ r[j - 1] = "\\")

InWord(r, k) ==
  /\ \A j \in 1 .. k - 1 : IsParam(r, j) => \E l \in j + 1 .. k : r[l] = "/"
  /\ ~(r[k] = "\\" /\ k < Len(r) /\ r[k + 1] = ":")

Symbol(r, k) == CASE IsParam(r, k) -> "PARAM" [] r[k] = "*" -> "ANY" [] OTHER -> r[k]

\* What the first k characters say, for every k
WordTo(r) ==
  LET w[k \in 0 .. Len(r)] ==
        IF k = 0 THEN <<>>
        ELSE IF InWord(r, k) THEN Append(w[k - 1], Symbol(r, k)) ELSE w[k - 1]
  IN  w

Word(r) == WordTo(r)[Len(r)]

\* A parameter takes a segment, and all the rest if nothing follows it in any
\* route; a wildcard takes anything
Fits(w, t, leaf) ==
  LET m[i \in 1 .. Len(w) + 1, j \in 1 .. Len(t) + 1] ==
        IF i > Len(w) THEN j > Len(t)
        ELSE CASE w[i] = "ANY" -> TRUE
               [] w[i] = "PARAM" ->
                    j <= Len(t) /\ ((leaf /\ i = Len(w)) \/ m[i + 1, Next1(t, j, {"/"})])
               [] OTHER -> j <= Len(t) /\ t[j] = w[i] /\ m[i + 1, j + 1]
  IN  m[1, 1]

Words == {Word(Rooted(r[2])) : r \in routes}
Matching(t) ==
  {w \in Words : Fits(w, t, ~\E v \in Words : IsStrictPrefix(w, v))}

\* Characters go before parameters, and those before wildcards
Rank(c) == CASE c = "ANY" -> 2 [] c = "PARAM" -> 1 [] OTHER -> 0

Before(v, w) ==
  LET d == Lcp(v, w) + 1
  IN  d > Len(v) \/ (d <= Len(w) /\ Rank(v[d]) < Rank(w[d]))

First(S) == CHOOSE w \in S : \A v \in S \ {w} : Before(w, v)

Has(w, m) == \E r \in routes : r[1] = m /\ Word(Rooted(r[2])) = w
Handled(w) == \E m \in Methods : Has(w, m)

\* The first word that ends the search: one with a handler for the method, a
\* wildcard, or one with a not-found handler only
Stops(m, t) ==
  {w \in Matching(t) : Has(w, m) \/ w[Len(w)] = "ANY" \/ ~Handled(w)}

Resolve(m, t) ==
  LET stop == First(Stops(m, t))
      best == First({w \in Matching(t) : Handled(w)})
  IN  CASE Stops(m, t) # {} /\ Has(stop, m) -> <<m, stop>>
        [] Stops(m, t) # {} /\ ~Has(stop, m) /\ Has(stop, RouteNotFound) -> <<RouteNotFound, stop>>
        [] OTHER ->
             IF \A w \in Matching(t) : ~Handled(w) THEN <<"NotFound", t>>
             ELSE IF Has(best, RouteNotFound) THEN <<RouteNotFound, best>>
             ELSE <<"MethodNotAllowed", best>>

\* The words of nodes, and the topics that meet a node with a nil handler
WordAt(i) ==
  LET w[n \in DOMAIN tree] ==
        (IF tree[n].parent = NoNode THEN <<>> ELSE w[tree[n].parent])
          \o (CASE tree[n].kind = "param" -> <<"PARAM">>
                [] tree[n].kind = "any" -> <<"ANY">>
                [] OTHER -> tree[n].prefix)
  IN  w[i]

HoldsNil(n) == n.notFound.handler = "nil" \/ \E m \in Methods : n.methods[m].handler = "nil"
MeetsNil(t) == \E i \in DOMAIN tree : HoldsNil(tree[i]) /\ Fits(WordAt(i), t, FALSE)

\* The route with its parameters replaced by what the handler gets for them
Filled(w) ==
  FlattenSeq([i \in DOMAIN w |->
     IF w[i] \in {"PARAM", "ANY"}
     THEN Param(find.pnames[Cardinality({j \in 1 .. i : w[j] \in {"PARAM", "ANY"}})])
     ELSE <<w[i]>>])

-----------------------------------------------------------------------------
(* Properties *)

Paths == {Rooted(r[2]) : r \in Routes}
RouteMethods ==
  [ppath : Paths, pnames : Seq(Seq(Characters)), handler : Methods \cup {RouteNotFound}]
    \cup {EmptyRoute, NoRoute}

\* The types of the router's tree and of the variables of its methods
RouterTypeOK ==
  /\ \A i \in DOMAIN tree :
       /\ tree[i].kind \in Kinds
       /\ {tree[i].parent, tree[i].param, tree[i].any} \subseteq 0 .. Len(tree)
       /\ tree[i].statics \subseteq DOMAIN tree
       /\ \A m \in Methods : tree[i].methods[m] \in RouteMethods
       /\ tree[i].notFound \in RouteMethods
  /\ maxParam \in Nat
  /\ routes \subseteq Routes
  /\ pc \in {"idle", "scan", "register", "insert", "loop", "param", "any", "out", "done", "panic"}
  /\ find.node \in 0 .. Len(tree)
  /\ find.best \in 0 .. Len(tree)

\* Links and flags of the tree agree after every split: a child knows its
\* parent, children start with different characters, and a node is a leaf
\* exactly if it has no children (Find lets the parameter of a leaf take
\* everything)
LinksAgree ==
  \A i \in DOMAIN tree :
    /\ \A c \in tree[i].statics \cup ({tree[i].param, tree[i].any} \ {NoNode}) :
         tree[c].parent = i
    /\ \A c, d \in tree[i].statics : tree[c].prefix[1] = tree[d].prefix[1] => c = d
    /\ tree[i].parent # NoNode =>
         i \in tree[tree[i].parent].statics \cup {tree[tree[i].parent].param, tree[tree[i].parent].any}
    /\ i # Root => tree[i].isLeaf = IsLeafNode(tree[i])

\* The characters that a parameter comes after in some route
ParamAfter ==
  {c \in Characters \ {"\\"} :
     \E r \in Routes : LET p == Rooted(r[2])
                       IN  \E j \in 2 .. Len(p) : p[j] = ":" /\ p[j - 1] = c}

\* No route has an escaped colon where another one has a parameter.  Both are
\* a child that starts with a colon, so insert cannot tell them apart.
ColonsApart ==
  \A r \in Routes : LET p == Rooted(r[2])
                    IN  \A j \in 3 .. Len(p) :
                          p[j] = ":" /\ p[j - 1] = "\\" => p[j - 2] \notin ParamAfter

\* A wildcard ends its route.  What follows one is a node of its own, but the
\* route's handler is at the wildcard's, too.
WildcardsLast ==
  \A r \in Routes : LET p == Rooted(r[2])
                    IN  \A j \in DOMAIN p : p[j] = "*" /\ InWord(p, j) => j = Len(p)

\* Find never indexes beyond the values that NewBrokerContext made room for,
\* and never looks into a nil best match
NoPanic == pc # "panic"

\* A handler that Find returns was registered for the method that was asked
\* for, or for what is not found, with the path that the context gets
FoundIsRegistered ==
  pc = "done" /\ find.handler \in Methods \cup {RouteNotFound} =>
    /\ find.handler \in {find.method, RouteNotFound}
    /\ \E r \in routes : r[1] = find.handler /\ Rooted(r[2]) = find.rpath

\* It is, and if it was matched at the end of the search, the topic is its route
\* with the values the handler gets by name in place of its parameters, if they
\* have different names.
\* The not-found handler of a best node gets no values: they are gone with the
\* backtracking.
FoundFitsTopic ==
  /\ FoundIsRegistered
  /\ /\ pc = "done" /\ find.handler \in Methods \cup {RouteNotFound}
     /\ find.matched # NoRoute /\ IsInjective(find.pnames)
     => Filled(Word(find.rpath)) = find.path

\* Find answers as Resolve does from the set of routes, in whatever order they
\* were registered, wherever no node with a nil handler is in the way
FindIsResolve ==
  pc = "done" /\ find.method \in Methods /\ ~MeetsNil(find.path) =>
    LET answer == Resolve(find.method, find.path)
    IN  /\ find.handler = answer[1]
        /\ find.handler # "NotFound" => Word(find.rpath) = answer[2]

\* Find hands out a handler that can be called: "NotFoundHandler is the
\* fallback handler used for handling pub-sub broker events on topics lacking a
\* matching broker handler"
HandlerIsCallable == pc = "done" => find.handler # "nil"

\* Backtracking ends
FindReturns == pc = "loop" ~> pc = "done"
=============================================================================
